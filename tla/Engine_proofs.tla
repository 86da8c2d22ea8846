---------------------------- MODULE Engine_proofs ----------------------------
(***************************************************************************)
(* Proofs about Engine: types, where the packets are, and that the engine  *)
(* takes no step PacketFlow does not allow; and about RulesetReload, which *)
(* replaces the rulesets of the engine's workers.                          *)
(***************************************************************************)
EXTENDS Engine, RulesetReload, FiniteSetTheorems, TLAPS

-----------------------------------------------------------------------------
(* The k-th smallest member of a finite set of numbers *)

Before(S, i) == {j \in S : j < i}

\* How many members are before a given one.
LEMMA Ranks ==
    ASSUME NEW n \in Nat, NEW S \in SUBSET (1..n)
    PROVE  /\ IsFiniteSet(S) /\ Cardinality(S) \in Nat
           /\ \A i \in S : Cardinality(Before(S, i)) \in 0..Cardinality(S) - 1
           /\ \A i, j \in S : i < j => Cardinality(Before(S, i)) < Cardinality(Before(S, j))
  <1>1. ASSUME NEW T \in SUBSET (1..n)
        PROVE  IsFiniteSet(T) /\ Cardinality(T) \in Nat
    <2>1. IsFiniteSet(1..n)
      BY FS_Interval
    <2>2. IsFiniteSet(T)
      BY <2>1, FS_Subset
    <2> QED
      BY <2>2, FS_CardinalityType
  <1>0. \A x \in S : x \in Int
    OBVIOUS
  <1>2. ASSUME NEW T \in SUBSET (1..n), NEW U \in SUBSET T, NEW x \in T, x \notin U
        PROVE  Cardinality(U) < Cardinality(T)
    <2>1. Cardinality(U) <= Cardinality(T) /\ (Cardinality(U) = Cardinality(T) => U = T)
      BY <1>1, <1>2, FS_Subset
    <2> QED
      BY <1>1, <1>2, <2>1
  <1>3. ASSUME NEW i \in S PROVE Cardinality(Before(S, i)) \in 0..Cardinality(S) - 1
    <2>1. Before(S, i) \in SUBSET S /\ i \notin Before(S, i)
      BY <1>0 DEF Before
    <2>2. Cardinality(Before(S, i)) < Cardinality(S)
      BY <1>2, <2>1
    <2>9. QED
      <3>1. Cardinality(Before(S, i)) \in Nat /\ Cardinality(S) \in Nat
        BY <1>1, <2>1
      <3> QED
        BY <2>2, <3>1
  <1>4. ASSUME NEW i \in S, NEW j \in S, i < j
        PROVE  Cardinality(Before(S, i)) < Cardinality(Before(S, j))
    <2>1. Before(S, j) \in SUBSET S
      BY DEF Before
    <2>2. Before(S, i) \in SUBSET Before(S, j)
      <3>1. ASSUME NEW x \in S, x < i PROVE x < j
        BY <1>0, <1>4, <3>1
      <3> QED
        BY <3>1 DEF Before
    <2>3. i \in Before(S, j) /\ i \notin Before(S, i)
      BY <1>0, <1>4 DEF Before
    <2> QED
      BY <1>2, <2>1, <2>2, <2>3
  <1> QED
    BY <1>1, <1>3, <1>4

\* There is exactly one member with a given rank.
LEMMA NthIs ==
    ASSUME NEW n \in Nat, NEW S \in SUBSET (1..n), NEW k \in 1..Cardinality(S)
    PROVE  /\ Nth(S, k) \in S /\ Cardinality(Before(S, Nth(S, k))) = k - 1
           /\ \A i \in S : Cardinality(Before(S, i)) = k - 1 => i = Nth(S, k)
  <1> DEFINE c == Cardinality(S)
             rank == [i \in S |-> Cardinality(Before(S, i))]
  <1>1. /\ IsFiniteSet(S) /\ c \in Nat
        /\ \A i \in S : rank[i] \in 0..c - 1
        /\ \A i, j \in S : i < j => rank[i] < rank[j]
    BY Ranks
  <1>2. rank \in [S -> 0..c - 1]
    BY <1>1
  <1>3. \A i, j \in S : rank[i] = rank[j] => i = j
    <2>1. \A i, j \in S : i \in Nat /\ j \in Nat /\ rank[i] \in Int /\ rank[j] \in Int
      BY <1>1
    <2> HIDE DEF rank
    <2> QED
      BY <1>1, <2>1
  <1>4. rank \in Injection(S, 0..c - 1)
    <2> HIDE DEF rank, c
    <2> QED
      BY <1>2, <1>3, Zenon DEF Injection, IsInjective
  <1>5. IsFiniteSet(0..c - 1) /\ Cardinality(0..c - 1) = c
    <2> HIDE DEF c
    <2> QED
      BY <1>1, FS_Interval
  <1>6. rank \in Surjection(S, 0..c - 1)
    <2> HIDE DEF rank
    <2> QED
      BY <1>4, <1>5, FS_Injection
  <1>7. PICK i \in S : rank[i] = k - 1
    <2>1. k - 1 \in 0..c - 1
      BY <1>1
    <2> HIDE DEF rank
    <2> QED
      BY <1>6, <2>1 DEF Surjection
  <1>8. Nth(S, k) = CHOOSE j \in S : Cardinality(Before(S, j)) = k - 1
    BY DEF Nth, Before
  <1>9. Nth(S, k) \in S /\ Cardinality(Before(S, Nth(S, k))) = k - 1
    BY <1>7, <1>8
  <1> QED
    BY <1>3, <1>9

-----------------------------------------------------------------------------
(* The packets of a stream in a line *)

LEMMA PlacesIn ==
    ASSUME NEW line \in Seq(Packet), NEW s
    PROVE  /\ Len(line) \in Nat /\ Places(line, s) \in SUBSET (1..Len(line))
           /\ IsFiniteSet(Places(line, s)) /\ Cardinality(Places(line, s)) \in Nat
           /\ \A k \in 1..Cardinality(Places(line, s)) :
                 Nth(Places(line, s), k) \in Places(line, s)
  <1> DEFINE P == Places(line, s)
  <1>1. Len(line) \in Nat /\ P \in SUBSET (1..Len(line))
    BY DEF Places
  <1> HIDE DEF P
  <1>2. IsFiniteSet(P) /\ Cardinality(P) \in Nat
    BY <1>1, Ranks
  <1>3. \A k \in 1..Cardinality(P) : Nth(P, k) \in P
    BY <1>1, NthIs
  <1> QED
    BY <1>1, <1>2, <1>3 DEF P

\* They are a sequence of numbers of packets in the line.
LEMMA NumbersType ==
    ASSUME NEW line \in Seq(Packet), NEW s
    PROVE  /\ NumbersOf(line, s) \in Seq(1..MaxPackets)
           /\ Len(NumbersOf(line, s)) = Cardinality(Places(line, s))
           /\ \A k \in DOMAIN NumbersOf(line, s) :
                 \E i \in DOMAIN line : NumbersOf(line, s)[k] = line[i].number
  <1> DEFINE P == Places(line, s)
             c == Cardinality(P)
             q == [k \in 1..c |-> line[Nth(P, k)].number]
  <1>1. c \in Nat /\ P \in SUBSET (1..Len(line)) /\ \A k \in 1..c : Nth(P, k) \in P
    BY PlacesIn
  <1>2. q = NumbersOf(line, s)
    BY DEF NumbersOf
  <1> HIDE DEF P, c
  <1>3. \A k \in 1..c : Nth(P, k) \in DOMAIN line /\ line[Nth(P, k)].number \in 1..MaxPackets
    <2>1. ASSUME NEW k \in 1..c
          PROVE  Nth(P, k) \in DOMAIN line /\ line[Nth(P, k)] \in Packet
      <3>1. Nth(P, k) \in DOMAIN line
        <4>1. DOMAIN line = 1..Len(line)
          OBVIOUS
        <4>2. Nth(P, k) \in P
          BY <1>1
        <4> QED
          BY <1>1, <4>1, <4>2
      <3>2. \A i \in DOMAIN line : line[i] \in Packet
        OBVIOUS
      <3> QED
        BY <3>1, <3>2
    <2>2. \A p \in Packet : p.number \in 1..MaxPackets
      BY DEF Packet
    <2> QED
      BY <2>1, <2>2
  <1>4. q \in [1..c -> 1..MaxPackets]
    BY <1>3
  <1>5. q \in Seq(1..MaxPackets) /\ Len(q) = c
    <2> DEFINE S == 1..MaxPackets
    <2>1. q \in [1..c -> S]
      BY <1>4
    <2> HIDE DEF q, S
    <2>2. q \in Seq(S) /\ Len(q) = c
      BY <1>1, <2>1
    <2> QED
      BY <2>2 DEF S
  <1>6. \A k \in DOMAIN q : \E i \in DOMAIN line : q[k] = line[i].number
    BY <1>3
  <1> HIDE DEF q
  <1> QED
    BY <1>2, <1>5, <1>6 DEF P, c

\* A packet that joins the line is the last of its stream, and none of any other.
LEMMA NumbersAppend ==
    ASSUME NEW line \in Seq(Packet), NEW p \in Packet, NEW s
    PROVE  NumbersOf(Append(line, p), s) =
              IF p.stream = s THEN Append(NumbersOf(line, s), p.number) ELSE NumbersOf(line, s)
  <1> DEFINE n == Len(line)
             longer == Append(line, p)
             P == Places(line, s)
             Q == Places(longer, s)
             c == Cardinality(P)
  <1>1. n \in Nat /\ longer \in Seq(Packet) /\ Len(longer) = n + 1
        /\ longer[n + 1] = p /\ \A i \in 1..n : longer[i] = line[i]
    OBVIOUS
  <1>2. /\ P \in SUBSET (1..n) /\ IsFiniteSet(P) /\ c \in Nat
        /\ \A k \in 1..c : Nth(P, k) \in P
    BY PlacesIn
  <1>3. P = {i \in 1..n : line[i].stream = s} /\ Q = {i \in 1..n + 1 : longer[i].stream = s}
    BY <1>1 DEF Places
  <1>4. /\ NumbersOf(line, s) = [k \in 1..c |-> line[Nth(P, k)].number]
        /\ NumbersOf(longer, s) = [k \in 1..Cardinality(Q) |-> longer[Nth(Q, k)].number]
    BY DEF NumbersOf
  <1> HIDE DEF n, longer, P, Q, c
  <1>5. CASE p.stream # s
    <2>1. Q = P
      BY <1>1, <1>3, <1>5
    <2>2. \A k \in 1..c : longer[Nth(P, k)] = line[Nth(P, k)]
      BY <1>1, <1>2
    <2> QED
      BY <1>4, <1>5, <2>1, <2>2 DEF longer, c
  <1>6. CASE p.stream = s
    <2>1. Q = P \cup {n + 1} /\ n + 1 \notin P
      BY <1>1, <1>2, <1>3, <1>6
    <2>2. Cardinality(Q) = c + 1
      BY <1>2, <2>1, FS_AddElement DEF c
    <2>3. Q \in SUBSET (1..n + 1) /\ n + 1 \in Nat
      BY <1>1, <1>2, <2>1
    <2>0. \A x \in P : x \in Int /\ x < n + 1
      BY <1>1, <1>2
    <2>4. ASSUME NEW k \in 1..c PROVE Nth(Q, k) = Nth(P, k)
      <3>1. Nth(P, k) \in P /\ Cardinality(Before(P, Nth(P, k))) = k - 1
        BY <1>1, <1>2, NthIs DEF c
      <3>2. Before(Q, Nth(P, k)) = Before(P, Nth(P, k))
        <4>1. Nth(P, k) \in Int /\ ~ (n + 1 < Nth(P, k))
          BY <1>1, <2>0, <3>1
        <4> QED
          BY <2>1, <4>1 DEF Before
      <3>3. k \in 1..Cardinality(Q) /\ Nth(P, k) \in Q
        BY <1>2, <2>1, <2>2, <3>1
      <3>4. \A i \in Q : Cardinality(Before(Q, i)) = k - 1 => i = Nth(Q, k)
        BY <2>3, <3>3, NthIs
      <3> QED
        BY <3>1, <3>2, <3>3, <3>4
    <2>5. Nth(Q, c + 1) = n + 1
      <3>1. Before(Q, n + 1) = P
        BY <1>1, <2>0, <2>1 DEF Before
      <3>2. c + 1 \in 1..Cardinality(Q) /\ n + 1 \in Q /\ Cardinality(Before(Q, n + 1)) = (c + 1) - 1
        BY <1>2, <2>1, <2>2, <3>1 DEF c
      <3> QED
        BY <2>3, <3>2, NthIs
    <2> DEFINE q == NumbersOf(line, s)
               r == NumbersOf(longer, s)
    <2>6. q \in Seq(1..MaxPackets) /\ Len(q) = c
      BY NumbersType DEF P, c
    <2>7. r \in Seq(1..MaxPackets) /\ Len(r) = c + 1
      BY <1>1, <2>2, NumbersType DEF Q
    <2>8. \A k \in 1..c : r[k] = q[k]
      <3>1. ASSUME NEW k \in 1..c PROVE r[k] = q[k]
        <4>1. r[k] = longer[Nth(Q, k)].number
          BY <1>2, <1>4, <2>2
        <4>2. q[k] = line[Nth(P, k)].number
          BY <1>4
        <4>3. longer[Nth(P, k)] = line[Nth(P, k)]
          BY <1>1, <1>2
        <4> QED
          BY <2>4, <4>1, <4>2, <4>3
      <3> QED
        BY <3>1
    <2>9. r[c + 1] = p.number
      BY <1>1, <1>2, <1>4, <2>2, <2>5
    <2>10. p.number \in 1..MaxPackets
      BY DEF Packet
    <2> HIDE DEF q, r
    <2>11. r = Append(q, p.number)
      BY <1>2, <2>6, <2>7, <2>8, <2>9, <2>10
    <2> QED
      BY <1>6, <2>11 DEF q, r, longer
  <1> QED
    BY <1>5, <1>6

\* Moving a set of numbers up by one keeps its size.
LEMMA Shifted ==
    ASSUME NEW n \in Nat, NEW S \in SUBSET (1..n)
    PROVE  Cardinality({i + 1 : i \in S}) = Cardinality(S)
  <1> DEFINE T == {i + 1 : i \in S}
             f == [i \in S |-> i + 1]
  <1>1. IsFiniteSet(S)
    BY Ranks
  <1>2. f \in [S -> T]
    OBVIOUS
  <1>3. \A i, j \in S : f[i] = f[j] => i = j
    OBVIOUS
  <1>4. \A t \in T : \E i \in S : f[i] = t
    OBVIOUS
  <1> HIDE DEF f, T
  <1>5. f \in Injection(S, T)
    BY <1>2, <1>3, Zenon DEF Injection, IsInjective
  <1>6. f \in Surjection(S, T)
    BY <1>2, <1>4, Zenon DEF Surjection
  <1>7. ExistsBijection(S, T)
    BY <1>5, <1>6, Zenon DEF ExistsBijection, Bijection
  <1> QED
    BY <1>1, <1>7, FS_Bijection DEF T

\* The first packet of the line leaves it: it was the first of its stream,
\* whose others keep their order, and no other stream notices.
LEMMA NumbersTail ==
    ASSUME NEW line \in Seq(Packet), line # <<>>, NEW s
    PROVE  /\ line[1].stream = s =>
                 /\ NumbersOf(line, s) # <<>>
                 /\ Head(NumbersOf(line, s)) = line[1].number
                 /\ Tail(NumbersOf(line, s)) = NumbersOf(Tail(line), s)
           /\ line[1].stream # s => NumbersOf(Tail(line), s) = NumbersOf(line, s)
  <1> DEFINE n == Len(line)
             rest == Tail(line)
             P == Places(line, s)
             R == Places(rest, s)
             U == {i + 1 : i \in R}
             c == Cardinality(P)
             d == Cardinality(R)
             q == NumbersOf(line, s)
             r == NumbersOf(rest, s)
  <1>1. n \in Nat \ {0} /\ rest \in Seq(Packet) /\ Len(rest) = n - 1
        /\ \A i \in 1..n - 1 : rest[i] = line[i + 1]
    OBVIOUS
  <1>2. /\ P \in SUBSET (1..n) /\ IsFiniteSet(P) /\ c \in Nat
        /\ \A k \in 1..c : Nth(P, k) \in P
    BY PlacesIn
  <1>3. /\ R \in SUBSET (1..n - 1) /\ IsFiniteSet(R) /\ d \in Nat
        /\ \A k \in 1..d : Nth(R, k) \in R
    BY <1>1, PlacesIn
  <1>4. P = {i \in 1..n : line[i].stream = s} /\ R = {i \in 1..n - 1 : rest[i].stream = s}
    BY <1>1 DEF Places
  <1>5. /\ q = [k \in 1..c |-> line[Nth(P, k)].number]
        /\ r = [k \in 1..d |-> rest[Nth(R, k)].number]
    BY DEF NumbersOf
  <1>6. q \in Seq(1..MaxPackets) /\ Len(q) = c
    BY NumbersType
  <1>7. r \in Seq(1..MaxPackets) /\ Len(r) = d
    BY <1>1, NumbersType
  <1>8. 1 \notin U /\ P \ {1} = U
    <2>1. ASSUME NEW i \in R PROVE i + 1 \in P \ {1}
      BY <1>1, <1>4
    <2>2. ASSUME NEW i \in P \ {1} PROVE i - 1 \in R /\ (i - 1) + 1 = i
      <3>1. i \in 2..n /\ line[i].stream = s
        BY <1>1, <1>4
      <3>2. i - 1 \in 1..n - 1 /\ (i - 1) + 1 = i
        BY <1>1, <3>1
      <3> QED
        BY <1>1, <1>4, <3>1, <3>2
    <2> HIDE DEF P, R
    <2> QED
      BY <2>1, <2>2
  <1>9. Cardinality(U) = d
    <2>1. n - 1 \in Nat
      BY <1>1
    <2> HIDE DEF R, n
    <2> QED
      BY <1>3, <2>1, Shifted
  <1> HIDE DEF n, rest, P, R, U, c, d, q, r
  \* A packet of the rest has the rank it had, without the first of the line.
  <1>10. ASSUME NEW i \in R
         PROVE  /\ Cardinality(Before(P, i + 1) \ {1}) = Cardinality(Before(R, i))
                /\ IsFiniteSet(Before(P, i + 1)) /\ i + 1 \in P
    <2>1. i \in 1..n - 1 /\ \A j \in R : j \in Int
      BY <1>3
    <2>2. Before(R, i) \in SUBSET (1..n - 1) /\ n - 1 \in Nat
      <3>1. Before(R, i) \in SUBSET R
        BY DEF Before
      <3>2. n - 1 \in Nat
        BY <1>1
      <3> QED
        BY <1>3, <3>1, <3>2
    <2>3. Before(P, i + 1) \ {1} = {j + 1 : j \in Before(R, i)}
      <3>1. ASSUME NEW x \in U, x < i + 1 PROVE x \in {j + 1 : j \in Before(R, i)}
        <4>1. PICK j \in R : x = j + 1
          BY DEF U
        <4>2. j < i
          BY <2>1, <3>1, <4>1
        <4> QED
          BY <4>1, <4>2 DEF Before
      <3>2. ASSUME NEW j \in R, j < i PROVE j + 1 \in U /\ j + 1 < i + 1
        BY <2>1, <3>2 DEF U
      <3> QED
        BY <1>8, <3>1, <3>2 DEF Before
    <2>4. Before(P, i + 1) \in SUBSET P
      BY DEF Before
    <2>5. i + 1 \in P
      BY <1>8 DEF U
    <2> QED
      BY <1>2, <2>2, <2>3, <2>4, <2>5, FS_Subset, Shifted
  <1>11. \A k \in 1..d : rest[Nth(R, k)] = line[Nth(R, k) + 1]
    BY <1>1, <1>3
  <1>12. CASE line[1].stream = s
    <2>1. 1 \in P /\ P = U \cup {1}
      BY <1>1, <1>4, <1>8, <1>12
    <2>2. c = d + 1
      <3>1. IsFiniteSet(U)
        BY <1>2, <1>8, FS_Subset
      <3> QED
        BY <1>3, <1>8, <1>9, <2>1, <3>1, FS_AddElement DEF c
    <2>3. Nth(P, 1) = 1
      <3>1. Before(P, 1) = {}
        <4>1. \A x \in P : ~ (x < 1)
          BY <1>1, <1>2
        <4> QED
          BY <4>1 DEF Before
      <3>0. Cardinality(Before(P, 1)) = 0
        BY <3>1, FS_EmptySet
      <3>2. 1 \in 1..c /\ 1 \in P /\ Cardinality(Before(P, 1)) = 1 - 1
        BY <1>3, <2>1, <2>2, <3>0
      <3> QED
        BY <1>1, <1>2, <3>2, NthIs DEF c
    <2>4. ASSUME NEW k \in 1..d PROVE Nth(P, k + 1) = Nth(R, k) + 1
      <3>1. Nth(R, k) \in R /\ Cardinality(Before(R, Nth(R, k))) = k - 1
        <4>1. n - 1 \in Nat
          BY <1>1
        <4> QED
          BY <1>3, <4>1, NthIs DEF d
      <3> DEFINE i == Nth(R, k)
      <3>2. Cardinality(Before(P, i + 1)) = k
        <4>1. 1 \in Before(P, i + 1)
          <5>0. \A x \in R : 1 < x + 1
            BY <1>1, <1>3
          <5>1. 1 < i + 1
            BY <3>1, <5>0
          <5> QED
            BY <2>1, <5>1 DEF Before
        <4>2. /\ Cardinality(Before(P, i + 1) \ {1}) = k - 1
              /\ IsFiniteSet(Before(P, i + 1))
          BY <1>10, <3>1
        <4>3. Cardinality(Before(P, i + 1)) \in Nat
          BY <4>2, FS_CardinalityType
        <4>4. Cardinality(Before(P, i + 1) \ {1}) = Cardinality(Before(P, i + 1)) - 1
          BY <4>1, <4>2, FS_RemoveElement
        <4> QED
          BY <4>2, <4>3, <4>4
      <3>3. k + 1 \in 1..c /\ (k + 1) - 1 = k /\ i + 1 \in P
        <4>1. k + 1 \in 1..c /\ (k + 1) - 1 = k
          BY <1>3, <2>2
        <4> QED
          BY <1>10, <3>1, <4>1
      <3> HIDE DEF i
      <3>4. \A j \in P : Cardinality(Before(P, j)) = (k + 1) - 1 => j = Nth(P, k + 1)
        BY <1>1, <1>2, <3>3, NthIs DEF c
      <3> QED
        BY <3>2, <3>3, <3>4 DEF i
    <2>5. q # <<>> /\ Head(q) = line[1].number
      <3>1. q[1] = line[1].number
        BY <1>3, <1>5, <2>2, <2>3
      <3> QED
        BY <1>3, <1>6, <2>2, <3>1
    <2>6. \A k \in 1..d : r[k] = q[k + 1]
      <3>1. ASSUME NEW k \in 1..d PROVE r[k] = q[k + 1]
        <4>1. k + 1 \in 1..c
          BY <1>3, <2>2
        <4>2. q[k + 1] = line[Nth(R, k) + 1].number
          BY <1>5, <2>4, <4>1
        <4>3. r[k] = rest[Nth(R, k)].number
          BY <1>5
        <4> QED
          BY <1>11, <4>2, <4>3
      <3> QED
        BY <3>1
    <2>7. r = Tail(q)
      BY <1>3, <1>6, <1>7, <2>2, <2>6
    <2> QED
      BY <1>12, <2>5, <2>7 DEF q, r, rest
  <1>13. CASE line[1].stream # s
    <2>1. 1 \notin P /\ P = U
      BY <1>4, <1>8, <1>13
    <2>2. c = d
      BY <1>9, <2>1 DEF c
    <2>3. ASSUME NEW k \in 1..d PROVE Nth(P, k) = Nth(R, k) + 1
      <3>1. Nth(R, k) \in R /\ Cardinality(Before(R, Nth(R, k))) = k - 1
        <4>1. n - 1 \in Nat
          BY <1>1
        <4> QED
          BY <1>3, <4>1, NthIs DEF d
      <3> DEFINE i == Nth(R, k)
      <3>2. i + 1 \in P /\ Cardinality(Before(P, i + 1) \ {1}) = k - 1
        BY <1>10, <3>1
      <3>3. Before(P, i + 1) \ {1} = Before(P, i + 1)
        BY <2>1 DEF Before
      <3> HIDE DEF i
      <3>4. \A j \in P : Cardinality(Before(P, j)) = k - 1 => j = Nth(P, k)
        BY <1>1, <1>2, <2>2, NthIs DEF c
      <3> QED
        BY <3>2, <3>3, <3>4 DEF i
    <2>4. \A k \in 1..d : r[k] = q[k]
      <3>1. ASSUME NEW k \in 1..d PROVE r[k] = q[k]
        <4>1. q[k] = line[Nth(R, k) + 1].number
          BY <1>5, <2>2, <2>3
        <4>2. r[k] = rest[Nth(R, k)].number
          BY <1>5
        <4> QED
          BY <1>11, <4>1, <4>2
      <3> QED
        BY <3>1
    <2>5. r = q
      BY <1>6, <1>7, <2>2, <2>4
    <2> QED
      BY <1>13, <2>5 DEF q, r, rest
  <1> QED
    BY <1>12, <1>13

-----------------------------------------------------------------------------
(* Where the packets are *)

\* The reader has a packet in its hands exactly while it feeds it, and does not
\* run before it is registered.
InHands ==
    /\ reader = "feeding" <=> inHand # NoPacket
    /\ run = "registering" => reader = "off"

\* A worker has packets of its own streams only.
AtHome ==
    \A w \in Workers :
       /\ working[w] # NoPacket => WorkerOf(working[w].stream) = w
       /\ \A i \in DOMAIN queue[w] : WorkerOf(queue[w][i].stream) = w

\* No packet is known that was not read.
NoneAhead ==
    /\ inHand.number <= read
    /\ \A w \in Workers :
          /\ working[w].number <= read
          /\ \A i \in DOMAIN queue[w] : queue[w][i].number <= read
    /\ \A n \in judged : n <= read

IInv == TypeOK /\ InHands /\ AtHome /\ NoneAhead

LEMMA WorkerOfIn == ASSUME NEW s \in Streams PROVE WorkerOf(s) \in Workers
  <1>1. StreamID[s] \in Nat /\ NumWorkers \in Nat \ {0}
    BY StreamAssumption, SizeAssumption
  <1>2. StreamID[s] % NumWorkers \in 0..NumWorkers - 1
    BY <1>1
  <1> QED
    BY <1>2 DEF WorkerOf, Workers

LEMMA PacketFacts ==
    /\ NoPacket \notin Packet /\ NoPacket.number = 0
    /\ \A p \in Packet : p.number \in 1..MaxPackets /\ p.stream \in Streams
  BY DEF Packet, NoPacket

LEMMA InitIInv == ASSUME Init PROVE IInv
  <1>1. queue \in [Workers -> Seq(Packet)] /\ \A w \in Workers : queue[w] = <<>>
    BY DEF Init
  <1>2. TypeOK
    <2>1. 0 \in 0..MaxPackets /\ 0 <= QueueSize /\ Len(<<>>) = 0
      BY SizeAssumption
    <2>2. working \in [Workers -> Packet \cup {NoPacket}] /\ worker \in [Workers -> {"running", "stopped"}]
      BY DEF Init
    <2>3. read \in 0..MaxPackets /\ judged \in SUBSET (1..MaxPackets) /\ errChan \in 0..1
      BY <2>1 DEF Init
    <2>4. /\ reader = "off" /\ run = "registering" /\ inHand = NoPacket
          /\ cancelled = FALSE /\ ioCancel = FALSE /\ finite \in BOOLEAN
      BY DEF Init
    <2> QED
      BY <1>1, <2>1, <2>2, <2>3, <2>4 DEF TypeOK
  <1> QED
    BY <1>1, <1>2, PacketFacts DEF Init, IInv, InHands, AtHome, NoneAhead

LEMMA RegisterIInv == ASSUME IInv, Register PROVE IInv'
  <1>1. TypeOK'
    BY DEF Register, IInv, TypeOK
  <1>2. InHands' /\ AtHome' /\ NoneAhead'
    <2>1. UNCHANGED <<read, inHand, queue, working, judged>>
      BY DEF Register
    <2>2. InHands'
      BY <2>1 DEF Register, IInv, TypeOK, InHands
    <2>3. AtHome'
      BY <2>1 DEF IInv, AtHome, WorkerOf
    <2>4. NoneAhead'
      BY <2>1 DEF IInv, NoneAhead
    <2> QED
      BY <2>2, <2>3, <2>4
  <1> QED
    BY <1>1, <1>2 DEF IInv

LEMMA ReturnIInv == ASSUME IInv, Return PROVE IInv'
  BY DEF Return, packets, IInv, TypeOK, InHands, AtHome, NoneAhead

LEMMA CancelIInv == ASSUME IInv, Cancel PROVE IInv'
  BY DEF Cancel, packets, IInv, TypeOK, InHands, AtHome, NoneAhead

LEMMA ReadErrorIInv == ASSUME IInv, ReadError PROVE IInv'
  BY DEF ReadError, IInv, TypeOK, InHands, AtHome, NoneAhead

LEMMA StopReadingIInv == ASSUME IInv, StopReading PROVE IInv'
  BY DEF StopReading, IInv, TypeOK, InHands, AtHome, NoneAhead

LEMMA StopWorkerIInv == ASSUME IInv, NEW w \in Workers, StopWorker(w) PROVE IInv'
  BY DEF StopWorker, control, IInv, TypeOK, InHands, AtHome, NoneAhead

LEMMA BypassIInv == ASSUME IInv, Bypass PROVE IInv'
  <1>1. read \in Nat /\ read + 1 \in 0..MaxPackets
    BY SizeAssumption DEF Bypass, IInv, TypeOK
  <1>2. TypeOK'
    BY <1>1 DEF Bypass, control, IInv, TypeOK
  <1>3. InHands' /\ AtHome'
    BY DEF Bypass, control, IInv, InHands, AtHome
  <1>4. \A n \in Int : n <= read => n <= read'
    BY <1>1 DEF Bypass
  <1>5. NoneAhead'
    BY <1>4, PacketFacts DEF Bypass, IInv, TypeOK, NoneAhead
  <1> QED
    BY <1>2, <1>3, <1>5 DEF IInv

LEMMA DispatchIInv == ASSUME IInv, NEW s \in Streams, Dispatch(s) PROVE IInv'
  <1>1. read \in Nat /\ read + 1 \in 1..MaxPackets /\ read' = read + 1
    BY SizeAssumption DEF Dispatch, IInv, TypeOK
  <1>2. inHand' \in Packet /\ inHand' # NoPacket /\ inHand'.number = read + 1
    BY <1>1, PacketFacts DEF Dispatch, Packet
  <1>3. TypeOK'
    BY <1>1, <1>2 DEF Dispatch, control, IInv, TypeOK
  <1>4. InHands'
    BY <1>2 DEF Dispatch, control, IInv, InHands
  <1>5. AtHome'
    BY DEF Dispatch, IInv, AtHome
  <1>6. \A n \in Int : n <= read => n <= read'
    BY <1>1
  <1>7. NoneAhead'
    BY <1>1, <1>2, <1>6, PacketFacts DEF Dispatch, IInv, TypeOK, NoneAhead
  <1> QED
    BY <1>3, <1>4, <1>5, <1>7 DEF IInv

LEMMA FeedIInv == ASSUME IInv, Feed PROVE IInv'
  <1> DEFINE h == WorkerOf(inHand.stream)
  <1>1. inHand \in Packet /\ h \in Workers
    BY WorkerOfIn, PacketFacts DEF Feed, IInv, TypeOK, InHands
  <1>2. /\ queue[h] \in Seq(Packet) /\ Len(queue[h]) < QueueSize
        /\ queue' = [queue EXCEPT ![h] = Append(@, inHand)]
        /\ inHand' = NoPacket /\ reader' = "reading"
        /\ UNCHANGED <<read, worker, working, judged, run, errChan, cancelled, ioCancel, finite>>
    BY <1>1 DEF Feed, control, IInv, TypeOK
  <1> HIDE DEF h
  <1>3. Append(queue[h], inHand) \in Seq(Packet) /\ Len(Append(queue[h], inHand)) <= QueueSize
        /\ DOMAIN Append(queue[h], inHand) = 1..Len(queue[h]) + 1
        /\ \A i \in 1..Len(queue[h]) + 1 :
              Append(queue[h], inHand)[i] = IF i <= Len(queue[h]) THEN queue[h][i] ELSE inHand
    BY <1>1, <1>2, SizeAssumption
  <1>4. \A w \in Workers : queue'[w] = IF w = h THEN Append(queue[h], inHand) ELSE queue[w]
    BY <1>1, <1>2 DEF IInv, TypeOK
  <1>5. queue' \in [Workers -> Seq(Packet)] /\ \A w \in Workers : Len(queue'[w]) <= QueueSize
    BY <1>1, <1>2, <1>3, <1>4 DEF IInv, TypeOK
  <1>6. TypeOK'
    BY <1>2, <1>5 DEF IInv, TypeOK
  <1>7. InHands'
    BY <1>2 DEF Feed, IInv, InHands
  <1>8. \A w \in Workers : \A i \in DOMAIN queue'[w] :
           \/ queue'[w][i] = inHand /\ w = h
           \/ i \in DOMAIN queue[w] /\ queue'[w][i] = queue[w][i]
    <2>2. ASSUME NEW i \in DOMAIN queue'[h]
          PROVE  \/ queue'[h][i] = inHand
                 \/ i \in DOMAIN queue[h] /\ queue'[h][i] = queue[h][i]
      <3>1. queue'[h] = Append(queue[h], inHand) /\ i \in 1..Len(queue[h]) + 1
        BY <1>1, <1>3, <1>4
      <3>2. CASE i <= Len(queue[h])
        BY <1>2, <1>3, <3>1, <3>2
      <3>3. CASE ~ (i <= Len(queue[h]))
        BY <1>2, <1>3, <3>1, <3>3
      <3> QED
        BY <3>2, <3>3
    <2> QED
      BY <1>4, <2>2
  <1>9. AtHome'
    BY <1>2, <1>8 DEF IInv, AtHome, h, WorkerOf
  <1>10. NoneAhead'
    BY <1>2, <1>8, PacketFacts DEF IInv, TypeOK, NoneAhead
  <1> QED
    BY <1>6, <1>7, <1>9, <1>10 DEF IInv

LEMMA TakeIInv == ASSUME IInv, NEW h \in Workers, Take(h) PROVE IInv'
  <1>1. /\ queue[h] \in Seq(Packet) /\ queue[h] # <<>> /\ Len(queue[h]) <= QueueSize
        /\ working' = [working EXCEPT ![h] = Head(queue[h])]
        /\ queue' = [queue EXCEPT ![h] = Tail(queue[h])]
        /\ UNCHANGED <<read, reader, inHand, worker, judged, run, errChan, cancelled, ioCancel, finite>>
    BY DEF Take, control, IInv, TypeOK
  <1>2. /\ Tail(queue[h]) \in Seq(Packet) /\ Len(Tail(queue[h])) <= QueueSize
        /\ Head(queue[h]) = queue[h][1] /\ 1 \in DOMAIN queue[h] /\ Head(queue[h]) \in Packet
        /\ \A i \in DOMAIN Tail(queue[h]) : i + 1 \in DOMAIN queue[h] /\ Tail(queue[h])[i] = queue[h][i + 1]
    BY <1>1, SizeAssumption
  <1>3. \A w \in Workers : /\ queue'[w] = IF w = h THEN Tail(queue[h]) ELSE queue[w]
                           /\ working'[w] = IF w = h THEN queue[h][1] ELSE working[w]
    BY <1>1, <1>2 DEF IInv, TypeOK
  <1>4. TypeOK'
    BY <1>1, <1>2, <1>3 DEF IInv, TypeOK
  <1>5. InHands'
    BY <1>1 DEF IInv, InHands
  <1>6. \A w \in Workers : \A i \in DOMAIN queue'[w] :
           \E j \in DOMAIN queue[w] : queue'[w][i] = queue[w][j]
    <2>1. ASSUME NEW i \in DOMAIN queue'[h]
          PROVE  \E j \in DOMAIN queue[h] : queue'[h][i] = queue[h][j]
      BY <1>2, <1>3
    <2> QED
      BY <1>3, <2>1
  <1>7. AtHome'
    BY <1>2, <1>3, <1>6 DEF IInv, AtHome, WorkerOf
  <1>8. NoneAhead'
    BY <1>1, <1>2, <1>3, <1>6 DEF IInv, NoneAhead
  <1> QED
    BY <1>4, <1>5, <1>7, <1>8 DEF IInv

LEMMA SetVerdictIInv == ASSUME IInv, NEW h \in Workers, SetVerdict(h) PROVE IInv'
  <1>1. /\ working[h] \in Packet
        /\ judged' = judged \cup {working[h].number}
        /\ working' = [working EXCEPT ![h] = NoPacket]
        /\ UNCHANGED <<read, reader, inHand, queue, worker, run, errChan, cancelled, ioCancel, finite>>
    BY DEF SetVerdict, control, IInv, TypeOK
  <1>2. \A w \in Workers : working'[w] = IF w = h THEN NoPacket ELSE working[w]
    BY <1>1 DEF IInv, TypeOK
  <1>3. TypeOK'
    BY <1>1, <1>2, PacketFacts DEF IInv, TypeOK
  <1>4. InHands' /\ AtHome'
    BY <1>1, <1>2 DEF IInv, InHands, AtHome, WorkerOf
  <1>5. NoneAhead'
    BY <1>1, <1>2, PacketFacts DEF IInv, TypeOK, NoneAhead
  <1> QED
    BY <1>3, <1>4, <1>5 DEF IInv

LEMMA NextIInv == ASSUME IInv, [Next]_vars PROVE IInv'
  <1>1. CASE Next
    BY <1>1, RegisterIInv, ReturnIInv, CancelIInv, DispatchIInv, BypassIInv, FeedIInv,
       ReadErrorIInv, StopReadingIInv, TakeIInv, SetVerdictIInv, StopWorkerIInv DEF Next
  <1>2. CASE UNCHANGED vars
    BY <1>2 DEF vars, packets, control, IInv, TypeOK, InHands, AtHome, NoneAhead, WorkerOf
  <1> QED
    BY <1>1, <1>2

\* Every variable keeps its type, no queue holds more than it can, and every
\* packet is where it belongs: with the worker of its stream, or in the hands of
\* a reader that is feeding, and none has a number that was not read.
THEOREM Invariance == Spec => []IInv
  <1>1. Spec => Init /\ [][Next]_vars
    BY DEF Spec
  <1> QED
    BY <1>1, InitIInv, NextIInv, PTL

-----------------------------------------------------------------------------
(* The engine's steps are steps of PacketFlow *)

Waits == [s \in Streams |-> InLine(s)]

LEMMA Joined ==
    ASSUME NEW S, NEW a \in Seq(S), NEW b \in Seq(S)
    PROVE  /\ a \o b \in Seq(S) /\ Len(a \o b) = Len(a) + Len(b)
           /\ a \o <<>> = a /\ <<>> \o a = a
           /\ \A x \in S : a \o <<x>> = Append(a, x)
           /\ \A x \in S : (<<x>> \o a)[1] = x /\ Tail(<<x>> \o a) = a
           /\ a # <<>> => a = <<Head(a)>> \o Tail(a)
           /\ \A i \in DOMAIN (a \o b) :
                 \/ i \in DOMAIN a /\ (a \o b)[i] = a[i]
                 \/ \E j \in DOMAIN b : (a \o b)[i] = b[j]
  OBVIOUS

LEMMA JoinedTwice ==
    ASSUME NEW S, NEW a \in Seq(S), NEW b \in Seq(S), NEW c \in Seq(S)
    PROVE  (a \o b) \o c = a \o (b \o c)
  OBVIOUS

\* The parts of a worker's line.
AtWork(w) == IF working[w] = NoPacket THEN <<>> ELSE <<working[w]>>
Handed(w) == IF inHand = NoPacket \/ WorkerOf(inHand.stream) # w THEN <<>> ELSE <<inHand>>

LEMMA LineParts ==
    ASSUME TypeOK, NEW w \in Workers
    PROVE  /\ AtWork(w) \in Seq(Packet) /\ queue[w] \in Seq(Packet) /\ Handed(w) \in Seq(Packet)
           /\ Line(w) = (AtWork(w) \o queue[w]) \o Handed(w)
           /\ Line(w) \in Seq(Packet)
  <1>1. AtWork(w) \in Seq(Packet)
    BY DEF AtWork, TypeOK
  <1>2. Handed(w) \in Seq(Packet)
    BY DEF Handed, TypeOK
  <1>3. queue[w] \in Seq(Packet)
    BY DEF TypeOK
  <1>4. Line(w) = (AtWork(w) \o queue[w]) \o Handed(w)
    BY Zenon DEF Line, AtWork, Handed
  <1>5. (AtWork(w) \o queue[w]) \o Handed(w) \in Seq(Packet)
    BY <1>1, <1>2, <1>3, Joined
  <1> QED
    BY <1>1, <1>2, <1>3, <1>4, <1>5

\* Nothing waits that was not read.
LEMMA LineKnown ==
    ASSUME IInv, NEW w \in Workers, NEW i \in DOMAIN Line(w)
    PROVE  Line(w)[i].number <= read
  <1> DEFINE a == AtWork(w)
             b == queue[w]
             c == Handed(w)
  <1>1. /\ a \in Seq(Packet) /\ b \in Seq(Packet) /\ c \in Seq(Packet)
        /\ Line(w) = (a \o b) \o c
    BY LineParts DEF IInv
  <1>2. \A j \in DOMAIN a : a[j].number <= read
    BY DEF IInv, NoneAhead, AtWork
  <1>3. \A j \in DOMAIN b : b[j].number <= read
    BY DEF IInv, NoneAhead
  <1>4. \A j \in DOMAIN c : c[j].number <= read
    BY DEF IInv, NoneAhead, Handed
  <1> HIDE DEF a, b, c
  <1>5. a \o b \in Seq(Packet)
    BY <1>1, Joined
  <1>6. \A j \in DOMAIN (a \o b) : (a \o b)[j].number <= read
    BY <1>1, <1>2, <1>3, Joined
  <1> DEFINE ab == a \o b
  <1> HIDE DEF ab
  <1>7. \A j \in DOMAIN (ab \o c) : (ab \o c)[j].number <= read
    BY <1>1, <1>4, <1>5, <1>6, Joined DEF ab
  <1> QED
    BY <1>1, <1>7 DEF ab

\* Lines that stay what they are leave every stream what it has.
LEMMA SameLines ==
    ASSUME \A w \in Workers : Line(w)' = Line(w)
    PROVE  Waits' = Waits
  <1>1. \A s \in Streams : InLine(s)' = InLine(s)
    <2>1. ASSUME NEW s \in Streams PROVE InLine(s)' = InLine(s)
      <3>1. InLine(s)' = NumbersOf(Line(WorkerOf(s))', s)
        BY Zenon DEF InLine, NumbersOf, Nth, Places, WorkerOf
      <3> QED
        BY <3>1, WorkerOfIn DEF InLine
    <2> QED
      BY <2>1
  <1> QED
    BY <1>1 DEF Waits

LEMMA Unmoved ==
    ASSUME UNCHANGED <<inHand, working, queue>> PROVE Waits' = Waits
  <1>1. \A w \in Workers : Line(w)' = Line(w)
    BY DEF Line, WorkerOf
  <1> QED
    BY <1>1, SameLines

LEMMA DispatchFlow ==
    ASSUME IInv, NEW s \in Streams, Dispatch(s)
    PROVE  Flow!Arrive(s, read + 1) /\ read + 1 \in 1..MaxPackets
  <1> DEFINE p == [number |-> read + 1, stream |-> s]
             h == WorkerOf(s)
  <1>1. /\ read \in Nat /\ read + 1 \in 1..MaxPackets /\ p \in Packet /\ h \in Workers
        /\ p # NoPacket /\ p.stream = s /\ p.number = read + 1
    BY SizeAssumption, WorkerOfIn, PacketFacts DEF Dispatch, IInv, TypeOK, Packet
  <1>2. /\ inHand = NoPacket /\ inHand' = p
        /\ UNCHANGED <<queue, working, judged, run, cancelled>>
    BY DEF Dispatch, control, IInv, InHands
  <1> HIDE DEF p
  <1>3. \A w \in Workers : Handed(w) = <<>> /\ Handed(w)' = (IF w = h THEN <<p>> ELSE <<>>)
                           /\ AtWork(w)' = AtWork(w)
    BY <1>1, <1>2 DEF Handed, AtWork, WorkerOf
  <1> HIDE DEF h
  <1>4. ASSUME NEW w \in Workers
        PROVE  Line(w)' = IF w = h THEN Append(Line(w), p) ELSE Line(w)
    <2>1. Line(w)' = (AtWork(w)' \o queue'[w]) \o Handed(w)'
      BY Zenon DEF Line, AtWork, Handed, WorkerOf
    <2> DEFINE l == AtWork(w) \o queue[w]
    <2>2. l \in Seq(Packet) /\ Line(w) = l \o <<>>
      BY <1>3, LineParts, Joined DEF IInv
    <2>3. Line(w)' = l \o (IF w = h THEN <<p>> ELSE <<>>)
      BY <1>2, <1>3, <2>1
    <2> HIDE DEF l
    <2> QED
      BY <1>1, <2>2, <2>3, Joined
  <1>5. ASSUME NEW t \in Streams
        PROVE  InLine(t)' = IF t = s THEN Append(InLine(t), read + 1) ELSE InLine(t)
    <2>1. WorkerOf(t) \in Workers /\ (t = s => WorkerOf(t) = h)
      BY WorkerOfIn DEF h
    <2>2. Line(WorkerOf(t)) \in Seq(Packet)
      BY <2>1, LineParts DEF IInv
    <2>3. InLine(t)' = NumbersOf(Line(WorkerOf(t))', t)
      BY Zenon DEF InLine, NumbersOf, Nth, Places, WorkerOf
    <2>4. CASE WorkerOf(t) = h
      <3>1. InLine(t)' = NumbersOf(Append(Line(WorkerOf(t)), p), t)
        BY <1>4, <2>1, <2>3, <2>4
      <3> QED
        BY <1>1, <2>2, <3>1, NumbersAppend DEF InLine
    <2>5. CASE WorkerOf(t) # h
      BY <1>4, <2>1, <2>3, <2>5 DEF InLine
    <2> QED
      BY <2>4, <2>5
  <1>6. Waits' = [Waits EXCEPT ![s] = Append(@, read + 1)]
    BY <1>5 DEF Waits
  <1>7. read + 1 \notin judged
    BY <1>1 DEF IInv, NoneAhead
  <1>8. ASSUME NEW t \in Streams, NEW i \in DOMAIN InLine(t)
        PROVE  InLine(t)[i] # read + 1
    <2>1. WorkerOf(t) \in Workers /\ Line(WorkerOf(t)) \in Seq(Packet)
      BY WorkerOfIn, LineParts DEF IInv
    <2>2. PICK j \in DOMAIN Line(WorkerOf(t)) : InLine(t)[i] = Line(WorkerOf(t))[j].number
      BY <1>8, <2>1, NumbersType DEF InLine
    <2>3. Line(WorkerOf(t))[j].number <= read
      BY <2>1, LineKnown
    <2> QED
      BY <1>1, <2>2, <2>3
  <1>9. ~ Flow!Waiting(read + 1)
    BY <1>8 DEF Flow!Waiting
  <1>10. WorkerDone' = WorkerDone
    BY <1>2 DEF WorkerDone
  <1> QED
    BY <1>1, <1>2, <1>6, <1>7, <1>9, <1>10 DEF Flow!Arrive, Waits

LEMMA FeedFlow == ASSUME IInv, Feed PROVE UNCHANGED Flow!vars
  <1> DEFINE h == WorkerOf(inHand.stream)
             S == Packet
  <1>1. inHand \in Packet /\ inHand # NoPacket /\ h \in Workers
    BY WorkerOfIn, PacketFacts DEF Feed, IInv, TypeOK, InHands
  <1>2. /\ queue[h] \in Seq(Packet)
        /\ queue' = [queue EXCEPT ![h] = Append(@, inHand)]
        /\ inHand' = NoPacket
        /\ UNCHANGED <<working, judged, run, cancelled>>
    BY <1>1 DEF Feed, control, IInv, TypeOK
  <1>3. \A w \in Workers :
           /\ AtWork(w)' = AtWork(w)
           /\ Handed(w) = (IF w = h THEN <<inHand>> ELSE <<>>) /\ Handed(w)' = <<>>
           /\ queue'[w] = (IF w = h THEN Append(queue[h], inHand) ELSE queue[w])
    BY <1>1, <1>2 DEF AtWork, Handed, WorkerOf, IInv, TypeOK
  <1> HIDE DEF h
  <1>4. ASSUME NEW w \in Workers PROVE Line(w)' = Line(w)
    <2>1. Line(w)' = (AtWork(w)' \o queue'[w]) \o Handed(w)'
      BY Zenon DEF Line, AtWork, Handed, WorkerOf
    <2> DEFINE a == AtWork(w)
               b == queue[w]
    <2>2. a \in Seq(S) /\ b \in Seq(S) /\ Line(w) = (a \o b) \o Handed(w)
      BY LineParts DEF IInv
    <2>3. CASE w = h
      <3>1. Line(w)' = (a \o Append(b, inHand)) \o <<>>
        BY <1>3, <2>1, <2>3
      <3>2. Line(w) = (a \o b) \o <<inHand>>
        BY <1>3, <2>2, <2>3
      <3>3. inHand \in S
        BY <1>1
      <3> HIDE DEF a, b, S
      <3>4. (a \o Append(b, inHand)) \o <<>> = (a \o b) \o <<inHand>>
        BY <2>2, <3>3
      <3> QED
        BY <3>1, <3>2, <3>4
    <2>4. CASE w # h
      <3>1. Line(w)' = (a \o b) \o <<>> /\ Line(w) = (a \o b) \o <<>>
        BY <1>3, <2>1, <2>2, <2>4
      <3> QED
        BY <3>1
    <2> QED
      BY <2>3, <2>4
  <1>5. Waits' = Waits
    BY <1>4, SameLines
  <1> QED
    BY <1>2, <1>5 DEF Flow!vars, Waits, WorkerDone

LEMMA TakeFlow == ASSUME IInv, NEW h \in Workers, Take(h) PROVE UNCHANGED Flow!vars
  <1> DEFINE S == Packet
  <1>1. /\ queue[h] \in Seq(Packet) /\ queue[h] # <<>> /\ working[h] = NoPacket
        /\ working' = [working EXCEPT ![h] = Head(queue[h])]
        /\ queue' = [queue EXCEPT ![h] = Tail(@)]
        /\ UNCHANGED <<inHand, judged, run, cancelled>>
    BY DEF Take, control, IInv, TypeOK
  <1>2. Head(queue[h]) \in Packet /\ Head(queue[h]) # NoPacket
    <2>1. Head(queue[h]) \in Packet
      BY <1>1
    <2> QED
      BY <2>1, PacketFacts
  <1>3. \A w \in Workers :
           /\ Handed(w)' = Handed(w)
           /\ AtWork(w)' = (IF w = h THEN <<Head(queue[h])>> ELSE AtWork(w))
           /\ queue'[w] = (IF w = h THEN Tail(queue[h]) ELSE queue[w])
    BY <1>1, <1>2 DEF AtWork, Handed, WorkerOf, IInv, TypeOK
  <1>4. ASSUME NEW w \in Workers PROVE Line(w)' = Line(w)
    <2>1. Line(w)' = (AtWork(w)' \o queue'[w]) \o Handed(w)'
      BY Zenon DEF Line, AtWork, Handed, WorkerOf
    <2>2. AtWork(w) \in Seq(S) /\ Line(w) = (AtWork(w) \o queue[w]) \o Handed(w)
      BY LineParts DEF IInv
    <2>3. CASE w = h
      <3> DEFINE b == queue[h]
      <3>1. Line(w)' = (<<Head(b)>> \o Tail(b)) \o Handed(w)
        BY <1>3, <2>1, <2>3
      <3>2. Line(w) = (<<>> \o b) \o Handed(w)
        BY <1>1, <2>2, <2>3 DEF AtWork
      <3>3. b \in Seq(S) /\ b # <<>>
        BY <1>1
      <3> HIDE DEF b, S
      <3>4. <<Head(b)>> \o Tail(b) = b /\ <<>> \o b = b
        BY <3>3, Joined
      <3> QED
        BY <3>1, <3>2, <3>4
    <2>4. CASE w # h
      BY <1>3, <2>1, <2>2, <2>4
    <2> QED
      BY <2>3, <2>4
  <1>5. Waits' = Waits
    BY <1>4, SameLines
  <1> QED
    BY <1>1, <1>5 DEF Flow!vars, Waits, WorkerDone

LEMMA SetVerdictFlow ==
    ASSUME IInv, NEW h \in Workers, SetVerdict(h)
    PROVE  \E s \in Streams : Flow!Judge(s)
  <1> DEFINE p == working[h]
             s == p.stream
  <1>1. /\ p \in Packet /\ p # NoPacket /\ s \in Streams /\ WorkerOf(s) = h
        /\ judged' = judged \cup {p.number}
        /\ working' = [working EXCEPT ![h] = NoPacket]
        /\ UNCHANGED <<inHand, queue, run, cancelled>>
    BY PacketFacts DEF SetVerdict, control, IInv, TypeOK, AtHome
  <1>2. \A w \in Workers :
           /\ Handed(w)' = Handed(w) /\ queue'[w] = queue[w]
           /\ AtWork(w)' = (IF w = h THEN <<>> ELSE AtWork(w))
    BY <1>1 DEF AtWork, Handed, WorkerOf, IInv, TypeOK
  <1>3. AtWork(h) = <<p>>
    BY <1>1 DEF AtWork
  <1>4. ASSUME NEW w \in Workers
        PROVE  Line(w)' = (AtWork(w)' \o queue'[w]) \o Handed(w)'
    BY Zenon DEF Line, AtWork, Handed, WorkerOf
  <1> HIDE DEF p
  <1>5. Line(h) \in Seq(Packet) /\ Line(h) # <<>> /\ Line(h)[1] = p /\ Line(h)' = Tail(Line(h))
    <2> DEFINE S == Packet
               b == queue[h]
               c == Handed(h)
    <2>1. b \in Seq(S) /\ c \in Seq(S) /\ p \in S
      BY <1>1, LineParts DEF IInv
    <2>2. Line(h) = (<<p>> \o b) \o c /\ Line(h)' = (<<>> \o b) \o c
      BY <1>2, <1>3, <1>4, LineParts DEF IInv
    <2> HIDE DEF S, b, c
    <2>3. /\ (<<p>> \o b) \o c \in Seq(S) /\ (<<p>> \o b) \o c # <<>>
          /\ ((<<p>> \o b) \o c)[1] = p
          /\ (<<>> \o b) \o c = Tail((<<p>> \o b) \o c)
      BY <2>1
    <2> QED
      BY <2>2, <2>3 DEF S
  <1>6. \A w \in Workers : w # h => Line(w)' = Line(w)
    BY <1>2, <1>4, LineParts DEF IInv
  <1>7. ASSUME NEW t \in Streams
        PROVE  /\ t = s => /\ InLine(t) # <<>> /\ Head(InLine(t)) = p.number
                           /\ InLine(t)' = Tail(InLine(t))
               /\ t # s => InLine(t)' = InLine(t)
    <2>1. InLine(t)' = NumbersOf(Line(WorkerOf(t))', t)
      BY Zenon DEF InLine, NumbersOf, Nth, Places, WorkerOf
    <2>2. CASE WorkerOf(t) = h
      <3>1. InLine(t) = NumbersOf(Line(h), t) /\ InLine(t)' = NumbersOf(Tail(Line(h)), t)
        BY <1>5, <2>1, <2>2 DEF InLine
      <3> QED
        BY <1>5, <3>1, NumbersTail
    <2>3. CASE WorkerOf(t) # h
      <3>1. t # s
        BY <1>1, <2>3
      <3>2. Line(WorkerOf(t))' = Line(WorkerOf(t))
        BY <1>6, <2>3, WorkerOfIn
      <3> QED
        BY <2>1, <3>1, <3>2 DEF InLine
    <2> QED
      BY <2>2, <2>3
  <1> HIDE DEF s
  <1>8. Waits' = [Waits EXCEPT ![s] = Tail(@)]
    BY <1>1, <1>7 DEF Waits
  <1>9. Waits[s] # <<>> /\ judged' = judged \cup {Head(Waits[s])}
    BY <1>1, <1>7 DEF Waits
  <1>10. WorkerDone' = WorkerDone
    BY <1>1 DEF WorkerDone
  <1>11. Flow!Judge(s)
    BY <1>8, <1>9, <1>10 DEF Flow!Judge, Waits
  <1> QED
    BY <1>1, <1>11

\* The steps that move no packet can only begin the shutdown.
LEMMA ControlFlow ==
    ASSUME IInv, UNCHANGED <<inHand, queue, working, judged>>, WorkerDone => WorkerDone'
    PROVE  Flow!Shut \/ UNCHANGED Flow!vars
  <1>1. Waits' = Waits
    BY Unmoved
  <1>2. WorkerDone \in BOOLEAN /\ WorkerDone' \in BOOLEAN
    BY DEF WorkerDone
  <1> QED
    BY <1>1, <1>2 DEF Flow!Shut, Flow!vars, Waits

LEMMA StepFlow == ASSUME IInv, [Next]_vars PROVE [Flow!Next]_Flow!vars
  <1>1. CASE Register \/ Return \/ Cancel \/ Bypass \/ ReadError \/ StopReading
             \/ (\E w \in Workers : StopWorker(w)) \/ UNCHANGED vars
    <2>1. UNCHANGED <<inHand, queue, working, judged>>
      BY <1>1 DEF Register, Return, Cancel, Bypass, ReadError, StopReading, StopWorker,
                  vars, packets, control
    <2>2. WorkerDone => WorkerDone'
      BY <1>1 DEF Register, Return, Cancel, Bypass, ReadError, StopReading, StopWorker,
                  vars, packets, control, WorkerDone, IInv, TypeOK
    <2> QED
      BY <2>1, <2>2, ControlFlow DEF Flow!Next
  <1>2. CASE \E s \in Streams : Dispatch(s)
    BY <1>2, DispatchFlow DEF Flow!Next
  <1>3. CASE Feed
    BY <1>3, FeedFlow
  <1>4. CASE \E w \in Workers : Take(w)
    BY <1>4, TakeFlow
  <1>5. CASE \E w \in Workers : SetVerdict(w)
    BY <1>5, SetVerdictFlow DEF Flow!Next
  <1> QED
    BY <1>1, <1>2, <1>3, <1>4, <1>5 DEF Next

LEMMA InitFlow == ASSUME Init PROVE Flow!Init
  <1>1. \A w \in Workers : Line(w) = <<>>
    BY DEF Init, Line
  <1>2. ASSUME NEW s \in Streams PROVE InLine(s) = <<>>
    <2>1. Line(WorkerOf(s)) = <<>>
      BY <1>1, WorkerOfIn
    <2>2. Places(<<>>, s) = {}
      BY DEF Places
    <2>3. Cardinality(Places(<<>>, s)) = 0
      BY <2>2, FS_EmptySet
    <2> QED
      BY <2>1, <2>3 DEF InLine, NumbersOf
  <1>3. WorkerDone = FALSE /\ judged = {}
    BY DEF Init, WorkerDone
  <1> QED
    BY <1>2, <1>3 DEF Flow!Init

\* Whatever the queues, the workers and the reader do, the packets of one stream
\* are judged one at a time in the order they were read, none of them twice and
\* none that was not read; the shutdown is never taken back.
THEOREM KeepsPacketFlow == Spec => Flow!Safety
  <1>1. Init => Flow!Init
    BY InitFlow
  <1>2. IInv /\ [Next]_vars => [Flow!Next]_Flow!vars
    BY StepFlow
  <1> QED
    BY <1>1, <1>2, Invariance, PTL DEF Spec, Flow!Safety

-----------------------------------------------------------------------------
(* RulesetReload, for any number of workers and edits *)

(***************************************************************************)
(* Versions only move forward: from the file to the ruleset being          *)
(* installed, to the factories, to the streams.                            *)
(***************************************************************************)
Forward ==
    /\ version <= file.version
    /\ \A k \in Factories : latest[k] <= factory[k] /\ factory[k] <= version

ReloadIInv == ReloadTypeOK /\ OneRuleset /\ Forward

LEMMA ReloadInitially == ReloadInit => ReloadIInv
  <1> SUFFICES ASSUME ReloadInit PROVE ReloadIInv
    OBVIOUS
  <1>1. 0 \in Factories /\ 0 \in Versions
    BY ReloadAssumption DEF Factories, Versions
  <1>2. ReloadTypeOK
    BY <1>1 DEF ReloadInit, ReloadTypeOK
  <1>3. OneRuleset
    BY DEF ReloadInit, OneRuleset
  <1>4. Forward
    BY DEF ReloadInit, Forward
  <1> QED
    BY <1>2, <1>3, <1>4 DEF ReloadIInv

LEMMA EditKeeps ==
    ASSUME ReloadIInv, Edit
    PROVE  ReloadIInv'
  <1>1. PICK good \in BOOLEAN : file' = [version |-> file.version + 1, good |-> good]
    BY DEF Edit
  <1>2. UNCHANGED <<hangup, reload, version, place, factory, latest>>
    BY DEF Edit
  <1>3. ReloadTypeOK'
    BY <1>1, <1>2, ReloadAssumption DEF ReloadIInv, ReloadTypeOK, Edit, Versions
  <1>4. OneRuleset'
    BY <1>2 DEF ReloadIInv, OneRuleset
  <1>5. Forward'
    BY <1>1, <1>2, ReloadAssumption DEF ReloadIInv, Forward, ReloadTypeOK, Versions
  <1> QED
    BY <1>3, <1>4, <1>5 DEF ReloadIInv

LEMMA LoadKeeps ==
    ASSUME ReloadIInv, Load
    PROVE  ReloadIInv'
  <1>1. UNCHANGED <<file, hangup, factory, latest>>
    BY DEF Load
  <1>2. 0 \in Factories
    BY ReloadAssumption DEF Factories
  <1>3. ReloadTypeOK'
    BY <1>1, <1>2 DEF ReloadIInv, ReloadTypeOK, Load
  <1>4. \A j, k \in Factories : factory[j] = factory[k]
    BY DEF ReloadIInv, OneRuleset, Load
  <1>5. reload' = "installing" => place' = 0
    BY DEF Load
  <1>6. OneRuleset'
    BY <1>1, <1>4, <1>5 DEF OneRuleset, Factories
  <1>7. version' = version \/ version' = file.version
    BY DEF Load
  <1>8. Forward'
    BY <1>1, <1>7, ReloadAssumption DEF ReloadIInv, Forward, ReloadTypeOK, Versions
  <1> QED
    BY <1>3, <1>6, <1>8 DEF ReloadIInv

LEMMA UpdateKeeps ==
    ASSUME ReloadIInv, UpdateRuleset
    PROVE  ReloadIInv'
  <1>1. UNCHANGED <<file, hangup, version, latest>> /\ reload = "installing"
    BY DEF UpdateRuleset
  <1>2. /\ factory' \in [Factories -> Versions]
        /\ \A k \in Factories : factory'[k] = IF k = place THEN version ELSE factory[k]
    BY DEF ReloadIInv, ReloadTypeOK, UpdateRuleset
  <1>3. \/ place + 1 \in Factories /\ place' = place + 1 /\ reload' = "installing"
        \/ place + 1 \notin Factories /\ reload' = "idle" /\ place' = place
    BY <1>1 DEF UpdateRuleset
  <1>4. ReloadTypeOK'
    BY <1>1, <1>2, <1>3 DEF ReloadIInv, ReloadTypeOK
  <1>5. OneRuleset'
    <2>1. /\ \A k \in Factories : k < place => factory[k] = version
          /\ \A j, k \in Factories : ~(j < place) /\ ~(k < place) => factory[j] = factory[k]
      BY <1>1 DEF ReloadIInv, OneRuleset
    <2>2. CASE place' = place + 1 /\ reload' = "installing"
      BY <1>1, <1>2, <2>1, <2>2, ReloadAssumption DEF OneRuleset, ReloadIInv, ReloadTypeOK, Factories
    <2>3. CASE place + 1 \notin Factories /\ reload' = "idle"
      <3>1. \A k \in Factories : k < place \/ k = place
        BY <2>3, ReloadAssumption DEF ReloadIInv, ReloadTypeOK, Factories
      <3>2. \A k \in Factories : factory'[k] = version
        BY <1>2, <2>1, <3>1
      <3> QED
        BY <2>3, <3>2 DEF OneRuleset
    <2> QED
      BY <1>3, <2>2, <2>3
  <1>6. Forward'
    BY <1>1, <1>2, ReloadAssumption DEF ReloadIInv, Forward, ReloadTypeOK, Versions
  <1> QED
    BY <1>4, <1>5, <1>6 DEF ReloadIInv

LEMMA NewKeeps ==
    ASSUME ReloadIInv, NEW k \in Factories, New(k)
    PROVE  ReloadIInv'
  <1>1. UNCHANGED <<file, hangup, reload, version, place, factory>>
    BY DEF New
  <1>2. /\ latest' \in [Factories -> Versions]
        /\ \A j \in Factories : latest'[j] = IF j = k THEN factory[k] ELSE latest[j]
    BY DEF ReloadIInv, ReloadTypeOK, New
  <1>3. ReloadTypeOK' /\ OneRuleset'
    BY <1>1, <1>2 DEF ReloadIInv, ReloadTypeOK, OneRuleset
  <1>4. Forward'
    BY <1>1, <1>2, ReloadAssumption DEF ReloadIInv, Forward, ReloadTypeOK, Versions
  <1> QED
    BY <1>3, <1>4 DEF ReloadIInv

LEMMA ReloadPreserved ==
    ASSUME ReloadIInv, [ReloadNext]_reloadVars
    PROVE  ReloadIInv'
  <1>1. CASE Hangup \/ Receive
    BY <1>1 DEF Hangup, Receive, ReloadIInv, ReloadTypeOK, OneRuleset, Forward
  <1>2. CASE UNCHANGED reloadVars
    BY <1>2 DEF reloadVars, ReloadIInv, ReloadTypeOK, OneRuleset, Forward
  <1> QED
    BY <1>1, <1>2, EditKeeps, LoadKeeps, UpdateKeeps, NewKeeps DEF ReloadNext

THEOREM ReloadInvariance == ReloadSpec => []ReloadIInv
  BY ReloadInitially, ReloadPreserved, PTL DEF ReloadSpec

\* Between two reloads every factory of every worker has one ruleset, during a
\* reload those visited have the new one and the rest one old one.
THEOREM OneRulesetCorrect == ReloadSpec => []OneRuleset
  BY ReloadInvariance, PTL DEF ReloadIInv

\* No factory ever creates a stream under a ruleset older than that of the
\* stream before.
THEOREM NoOldRulesetCorrect == ReloadSpec => NoOldRuleset
  <1>1. ASSUME ReloadIInv, [ReloadNext]_reloadVars
        PROVE  [\A k \in Factories : latest'[k] >= latest[k]]_reloadVars
    <2>1. ASSUME NEW j \in Factories, New(j)
          PROVE  \A k \in Factories : latest'[k] >= latest[k]
      BY <1>1, <2>1, ReloadAssumption DEF New, ReloadIInv, ReloadTypeOK, Forward, Versions
    <2>2. ASSUME Edit \/ Hangup \/ Receive \/ Load \/ UpdateRuleset
          PROVE  \A k \in Factories : latest'[k] >= latest[k]
      <3>1. latest' = latest
        BY <2>2 DEF Edit, Hangup, Receive, Load, UpdateRuleset
      <3> QED
        BY <1>1, <3>1, ReloadAssumption DEF ReloadIInv, ReloadTypeOK, Versions
    <2> QED
      BY <1>1, <2>1, <2>2 DEF ReloadNext
  <1> QED
    BY <1>1, ReloadInvariance, PTL DEF ReloadSpec, NoOldRuleset

=============================================================================
