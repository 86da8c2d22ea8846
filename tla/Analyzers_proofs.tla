-------------------------- MODULE Analyzers_proofs ---------------------------
(***************************************************************************)
(* Proofs about the analyzers that look at whole packets: what the         *)
(* counters, rings and flags of a stream say of the packets it was fed,    *)
(* for any packets and thresholds.  Every analyzer has an invariant of its *)
(* own; fed is the history it is about.                                    *)
(***************************************************************************)
EXTENDS Analyzers, FiniteSetTheorems, SequenceTheorems, WellFoundedInduction, TLAPS

-----------------------------------------------------------------------------
(* Induction over numbers, and over the subsets of a finite set *)

\* A set of numbers has a smallest one.
LEMMA Smallest ==
    ASSUME NEW I \in SUBSET Nat, I # {}
    PROVE  \E x \in I : \A y \in I : x <= y
  <1>1. \E x \in I : \A y \in I : ~ (<<y, x>> \in OpToRel(<, Nat))
    BY WFMin, NatLessThanWellFounded
  <1>2. ASSUME NEW x \in Nat, NEW y \in Nat, y < x
        PROVE  <<y, x>> \in OpToRel(<, Nat)
    <2>1. <<y, x>> \in Nat \X Nat /\ <<y, x>>[1] < <<y, x>>[2]
      BY <1>2
    <2> QED
      BY <2>1, Zenon DEF OpToRel
  <1>3. \A x, y \in Nat : x <= y \/ y < x
    OBVIOUS
  <1> QED
    BY <1>1, <1>2, <1>3

LEMMA Induction ==
    ASSUME NEW I, 0 \in I, \A n \in Nat : n \in I => n + 1 \in I
    PROVE  Nat \subseteq I
  <1> SUFFICES ASSUME Nat \ I # {} PROVE FALSE
    OBVIOUS
  <1>1. PICK n \in Nat \ I : \A m \in Nat \ I : n <= m
    BY Smallest
  <1>2. n # 0 /\ n - 1 \in Nat /\ ~ (n <= n - 1)
    BY <1>1
  <1>3. n - 1 \in I
    BY <1>1, <1>2
  <1>4. (n - 1) + 1 = n
    BY <1>1
  <1> QED
    BY <1>1, <1>2, <1>3, <1>4

One(s) == CHOOSE x \in s : TRUE

LEMMA OneLess ==
    ASSUME NEW D, IsFiniteSet(D), NEW s \in SUBSET D, s # {}
    PROVE  /\ One(s) \in s /\ One(s) \in D /\ s \ {One(s)} \in SUBSET D
           /\ Cardinality(s) \in Nat \ {0} /\ Cardinality(s \ {One(s)}) = Cardinality(s) - 1
  <1>1. One(s) \in s
    BY DEF One
  <1>2. IsFiniteSet(s)
    BY FS_Subset
  <1>3. Cardinality(s) \in Nat /\ Cardinality(s) # 0
    BY <1>2, FS_CardinalityType, FS_EmptySet
  <1>4. Cardinality(s \ {One(s)}) = Cardinality(s) - 1
    BY <1>1, <1>2, FS_RemoveElement
  <1> QED
    BY <1>1, <1>3, <1>4

\* Induction over the subsets of a finite set, by taking one member away.
LEMMA SubsetInduction ==
    ASSUME NEW D, IsFiniteSet(D), NEW P \in SUBSET SUBSET D,
           \A s \in SUBSET D : (s # {} => s \ {One(s)} \in P) => s \in P
    PROVE  P = SUBSET D
  <1> SUFFICES ASSUME NEW t \in SUBSET D, t \notin P PROVE FALSE
    OBVIOUS
  <1> DEFINE I == {Cardinality(s) : s \in (SUBSET D) \ P}
  <1>0. \A s \in SUBSET D : Cardinality(s) \in Nat
    BY FS_Subset, FS_CardinalityType
  <1>1. I \in SUBSET Nat /\ I # {}
    <2>1. t \in (SUBSET D) \ P
      OBVIOUS
    <2> QED
      BY <1>0, <2>1
  <1>2. PICK n \in I : \A m \in I : n <= m
    BY <1>1, Smallest
  <1>3. PICK s \in (SUBSET D) \ P : n = Cardinality(s)
    BY <1>2
  <1>4. s # {} /\ s \ {One(s)} \in (SUBSET D) \ P
    <2>1. s # {} /\ s \ {One(s)} \notin P
      BY <1>3
    <2> QED
      BY <2>1
  <1>5. Cardinality(s \ {One(s)}) = n - 1 /\ n \in Nat
    BY <1>3, <1>4, OneLess
  <1>6. n <= Cardinality(s \ {One(s)})
    BY <1>2, <1>4
  <1> QED
    BY <1>5, <1>6

-----------------------------------------------------------------------------
(* Sums of a function over a finite set *)

\* g[s] is the sum over s, for the subsets of D.
Summed(g, w, D) ==
    g = [s \in SUBSET D |-> IF s = {} THEN 0 ELSE w[One(s)] + g[s \ {One(s)}]]

LEMMA SumExists ==
    ASSUME NEW D, IsFiniteSet(D), NEW w \in [D -> Nat]
    PROVE  \E g \in [SUBSET D -> Nat] : Summed(g, w, D)
  <1> DEFINE S == [SUBSET D -> Nat]
             Body(f, s) == IF s = {} THEN 0 ELSE w[One(s)] + f[s \ {One(s)}]
             \* f sums up the sets of at most n members.
             Fits(f, n) == \A s \in SUBSET D : Cardinality(s) <= n => f[s] = Body(f, s)
  <1>1. \A s \in SUBSET D : Cardinality(s) \in Nat /\ Cardinality(s) <= Cardinality(D)
    BY FS_Subset, FS_CardinalityType
  <1>2. ASSUME NEW f \in S, NEW s \in SUBSET D
        PROVE  Body(f, s) \in Nat
    <2>1. CASE s = {}
      BY <2>1
    <2>2. CASE s # {}
      <3>1. One(s) \in D /\ s \ {One(s)} \in SUBSET D
        BY <2>2, OneLess
      <3> QED
        BY <2>2, <3>1
    <2> QED
      BY <2>1, <2>2
  <1>3. \A s \in SUBSET D : Cardinality(s) = 0 => s = {}
    BY OneLess
  <1>4. ASSUME NEW n \in Nat \ {0}, NEW f \in S, Fits(f, n - 1)
        PROVE  \E h \in S : Fits(h, n)
    <2> DEFINE h == [s \in SUBSET D |-> IF Cardinality(s) = n THEN Body(f, s) ELSE f[s]]
    <2>1. h \in S
      BY <1>2
    <2>2. ASSUME NEW s \in SUBSET D, Cardinality(s) <= n
          PROVE  h[s] = Body(f, s) /\ Body(h, s) = Body(f, s)
      <3>1. h[s] = Body(f, s)
        <4>1. Cardinality(s) = n \/ Cardinality(s) <= n - 1
          BY <1>1, <2>2
        <4> QED
          BY <1>4, <4>1
      <3>2. CASE s = {}
        <4> HIDE DEF h
        <4>1. Body(h, s) = 0 /\ Body(f, s) = 0
          BY <3>2
        <4> QED
          BY <3>1, <4>1
      <3>3. CASE s # {}
        <4>1. s \ {One(s)} \in SUBSET D /\ Cardinality(s \ {One(s)}) # n
          <5>1. /\ s \ {One(s)} \in SUBSET D
                /\ Cardinality(s \ {One(s)}) = Cardinality(s) - 1
            BY <3>3, OneLess
          <5> QED
            BY <1>1, <2>2, <5>1
        <4>2. h[s \ {One(s)}] = f[s \ {One(s)}]
          BY <4>1
        <4> HIDE DEF h
        <4> QED
          BY <3>1, <3>3, <4>2
      <3> QED
        BY <3>1, <3>2, <3>3
    <2> HIDE DEF h, Body
    <2>3. Fits(h, n)
      BY <2>2
    <2> QED
      BY <2>1, <2>3
  <1>5. \A n \in Nat : \E f \in S : Fits(f, n)
    <2> DEFINE I == {n \in Nat : ~ \E f \in S : Fits(f, n)}
    <2> SUFFICES ASSUME I # {} PROVE FALSE
      BY Zenon
    <2>1. PICK n \in I : \A m \in I : n <= m
      BY Smallest
    <2>2. n # 0
      <3> DEFINE f == [s \in SUBSET D |-> 0]
      <3>1. f \in S
        OBVIOUS
      <3>2. ASSUME NEW s \in SUBSET D, Cardinality(s) <= 0 PROVE f[s] = Body(f, s)
        <4>1. s = {}
          BY <1>1, <1>3, <3>2
        <4> QED
          BY <4>1
      <3> HIDE DEF f, S, Body
      <3>3. \E g \in S : Fits(g, 0)
        BY <3>1, <3>2
      <3> QED
        BY <3>3
    <2>3. n - 1 \in Nat /\ ~ (n <= n - 1) /\ n \in Nat \ {0}
      BY <2>2
    <2>4. \E f \in S : Fits(f, n - 1)
      <3>1. n - 1 \notin I
        BY <2>1, <2>3
      <3> HIDE DEF Fits, S
      <3> QED
        BY <2>3, <3>1
    <2> HIDE DEF S, Fits
    <2>5. \E f \in S : Fits(f, n)
      BY <1>4, <2>3, <2>4
    <2> QED
      BY <2>5
  <1>6. PICK g \in S : Fits(g, Cardinality(D))
    <2>1. Cardinality(D) \in Nat
      BY FS_CardinalityType
    <2> HIDE DEF S, Fits
    <2> QED
      BY <1>5, <2>1
  <1>7. \A s \in SUBSET D : g[s] = Body(g, s)
    BY <1>1, <1>6
  <1>8. g = [s \in SUBSET D |-> IF s = {} THEN 0 ELSE w[One(s)] + g[s \ {One(s)}]]
    BY <1>6, <1>7
  <1> QED
    BY <1>6, <1>8 DEF Summed

LEMMA SumIs ==
    ASSUME NEW S, IsFiniteSet(S), NEW w, \A k \in S : w[k] \in Nat
    PROVE  \E g \in [SUBSET S -> Nat] : Summed(g, w, S) /\ SumFunctionOnSet(w, S) = g[S]
  <1> DEFINE Fits(g) == g = [s \in SUBSET S |->
                               IF s = {} THEN 0
                               ELSE w[CHOOSE x \in s : TRUE] + g[s \ {CHOOSE x \in s : TRUE}]]
             g == CHOOSE g : Fits(g)
             v == [k \in S |-> w[k]]
  <1>1. SumFunctionOnSet(w, S) = g[S]
    BY DEF SumFunctionOnSet, FoldFunctionOnSet, MapThenFoldSet
  <1>2. v \in [S -> Nat]
    OBVIOUS
  <1>3. PICK k \in [SUBSET S -> Nat] : Summed(k, v, S)
    BY <1>2, SumExists
  <1>4. Fits(k)
    <2>1. ASSUME NEW s \in SUBSET S, s # {}
          PROVE  v[One(s)] = w[One(s)]
      BY <2>1, OneLess
    <2>2. ASSUME NEW s \in SUBSET S
          PROVE  k[s] = IF s = {} THEN 0 ELSE w[One(s)] + k[s \ {One(s)}]
      <3> HIDE DEF v
      <3>1. k[s] = IF s = {} THEN 0 ELSE v[One(s)] + k[s \ {One(s)}]
        BY <1>3 DEF Summed
      <3> QED
        BY <2>1, <3>1
    <2>3. k = [s \in SUBSET S |-> k[s]]
      BY <1>3
    <2>4. k = [s \in SUBSET S |-> IF s = {} THEN 0 ELSE w[One(s)] + k[s \ {One(s)}]]
      BY <2>2, <2>3
    <2> QED
      BY <2>4 DEF One
  <1>5. Fits(g)
    <2> HIDE DEF Fits
    <2> QED
      BY <1>4
  <1>6. Summed(g, w, S)
    BY <1>5 DEF Summed, One
  <1> HIDE DEF g
  <1>7. g \in [SUBSET S -> Nat]
    <2> DEFINE P == {s \in SUBSET S : g[s] \in Nat}
    <2>1. ASSUME NEW s \in SUBSET S, s # {} => s \ {One(s)} \in P
          PROVE  s \in P
      <3>1. CASE s = {}
        BY <1>6, <3>1 DEF Summed
      <3>2. CASE s # {}
        <4>1. w[One(s)] \in Nat /\ g[s \ {One(s)}] \in Nat
          BY <2>1, <3>2, OneLess
        <4>2. g[s] = w[One(s)] + g[s \ {One(s)}]
          BY <1>6, <3>2 DEF Summed
        <4> QED
          BY <4>1, <4>2
      <3> QED
        BY <3>1, <3>2
    <2>2. P \in SUBSET SUBSET S
      OBVIOUS
    <2>3. P = SUBSET S
      <3> HIDE DEF P
      <3> QED
        BY <2>1, <2>2, SubsetInduction
    <2>4. DOMAIN g = SUBSET S /\ g = [s \in SUBSET S |-> g[s]]
      <3> DEFINE b == [s \in SUBSET S |-> IF s = {} THEN 0 ELSE w[One(s)] + g[s \ {One(s)}]]
      <3>1. g = b /\ DOMAIN b = SUBSET S /\ b = [s \in SUBSET S |-> b[s]]
        BY <1>6 DEF Summed
      <3> HIDE DEF b
      <3> QED
        BY <3>1
    <2> QED
      BY <2>3, <2>4
  <1> QED
    BY <1>1, <1>6, <1>7

\* Two sums with the same weights are the same.
LEMMA SumsAgree ==
    ASSUME NEW D, IsFiniteSet(D), NEW E, D \subseteq E, NEW v, NEW w, \A k \in D : v[k] = w[k],
           NEW g, Summed(g, v, D), NEW h, Summed(h, w, E)
    PROVE  \A s \in SUBSET D : g[s] = h[s]
  <1> DEFINE P == {s \in SUBSET D : g[s] = h[s]}
  <1>1. ASSUME NEW s \in SUBSET D, s # {} => s \ {One(s)} \in P
        PROVE  s \in P
    <2>0. s \in SUBSET E
      OBVIOUS
    <2>1. CASE s = {}
      BY <2>0, <2>1 DEF Summed
    <2>2. CASE s # {}
      <3>1. One(s) \in D /\ s \ {One(s)} \in P
        BY <1>1, <2>2, OneLess
      <3>2. g[s] = v[One(s)] + g[s \ {One(s)}]
        BY <2>2 DEF Summed
      <3>3. h[s] = w[One(s)] + h[s \ {One(s)}]
        BY <2>0, <2>2 DEF Summed
      <3> QED
        BY <3>1, <3>2, <3>3
    <2> QED
      BY <2>1, <2>2
  <1>2. P \in SUBSET SUBSET D
    OBVIOUS
  <1>3. P = SUBSET D
    <2> HIDE DEF P
    <2> QED
      BY <1>1, <1>2, SubsetInduction
  <1> QED
    BY <1>3

LEMMA SumSame ==
    ASSUME NEW S, IsFiniteSet(S), NEW v, NEW w, \A k \in S : v[k] \in Nat /\ v[k] = w[k]
    PROVE  SumFunctionOnSet(v, S) = SumFunctionOnSet(w, S)
  <1>1. PICK g \in [SUBSET S -> Nat] : Summed(g, v, S) /\ SumFunctionOnSet(v, S) = g[S]
    BY SumIs
  <1>2. PICK h \in [SUBSET S -> Nat] : Summed(h, w, S) /\ SumFunctionOnSet(w, S) = h[S]
    BY SumIs
  <1>3. \A s \in SUBSET S : g[s] = h[s]
    BY <1>1, <1>2, SumsAgree
  <1> QED
    BY <1>1, <1>2, <1>3

\* Any member can be taken away first.
LEMMA SumTake ==
    ASSUME NEW D, IsFiniteSet(D), NEW w, \A k \in D : w[k] \in Nat,
           NEW g \in [SUBSET D -> Nat], Summed(g, w, D),
           NEW t \in SUBSET D, NEW y \in t
    PROVE  g[t] = w[y] + g[t \ {y}]
  <1> DEFINE Fine(s) == \A x \in s : g[s] = w[x] + g[s \ {x}]
             I == {n \in Nat : \A s \in SUBSET D : Cardinality(s) = n => Fine(s)}
  <1>0. \A s \in SUBSET D : IsFiniteSet(s) /\ Cardinality(s) \in Nat
    BY FS_Subset, FS_CardinalityType
  <1>1. 0 \in I
    <2>1. ASSUME NEW s \in SUBSET D, Cardinality(s) = 0, NEW x \in s
          PROVE  FALSE
      BY <2>1, <1>0, FS_EmptySet
    <2> QED
      BY <2>1
  <1>2. ASSUME NEW n \in Nat, n \in I PROVE n + 1 \in I
    <2> SUFFICES ASSUME NEW s \in SUBSET D, Cardinality(s) = n + 1, NEW x \in s
                 PROVE  g[s] = w[x] + g[s \ {x}]
      OBVIOUS
    <2> DEFINE o == One(s)
    <2>1. /\ o \in s /\ o \in D /\ s \ {o} \in SUBSET D /\ Cardinality(s \ {o}) = n
          /\ g[s] = w[o] + g[s \ {o}]
      <3>1. s # {}
        OBVIOUS
      <3>2. /\ o \in s /\ o \in D /\ s \ {o} \in SUBSET D
            /\ Cardinality(s \ {o}) = Cardinality(s) - 1
        BY <3>1, OneLess
      <3>3. g[s] = w[o] + g[s \ {o}]
        BY <3>1 DEF Summed
      <3> QED
        BY <3>2, <3>3
    <2> HIDE DEF o
    <2>2. CASE x = o
      BY <2>1, <2>2
    <2>3. CASE x # o
      <3>1. s \ {x} \in SUBSET D /\ Cardinality(s \ {x}) = n
        <4>1. Cardinality(s \ {x}) = Cardinality(s) - 1
          BY <1>0, FS_RemoveElement
        <4> QED
          BY <4>1
      <3>2. x \in s \ {o} /\ o \in s \ {x}
        BY <2>1, <2>3
      <3>3. g[s \ {o}] = w[x] + g[(s \ {o}) \ {x}]
        BY <1>2, <2>1, <3>2
      <3>4. g[s \ {x}] = w[o] + g[(s \ {x}) \ {o}]
        BY <1>2, <3>1, <3>2
      <3>5. (s \ {o}) \ {x} = (s \ {x}) \ {o} /\ (s \ {o}) \ {x} \in SUBSET D
        OBVIOUS
      <3>6. w[x] \in Nat /\ w[o] \in Nat /\ g[(s \ {o}) \ {x}] \in Nat
        BY <2>1, <3>5
      <3> DEFINE rest == g[(s \ {o}) \ {x}]
                 a == w[x]
                 b == w[o]
      <3>7. g[s] = b + (a + rest) /\ g[s \ {x}] = b + rest
        BY <2>1, <3>3, <3>4, <3>5
      <3>8. a \in Nat /\ b \in Nat /\ rest \in Nat
        BY <3>6
      <3> HIDE DEF rest, a, b
      <3>9. b + (a + rest) = a + (b + rest)
        BY <3>8
      <3>10. g[s] = a + g[s \ {x}]
        BY <3>7, <3>9
      <3> QED
        BY <3>10 DEF a
    <2> QED
      BY <2>2, <2>3
  <1> HIDE DEF I
  <1>3. Nat \subseteq I
    BY <1>1, <1>2, Induction
  <1> QED
    BY <1>0, <1>3 DEF I

LEMMA SumOfNone == ASSUME NEW w PROVE SumFunctionOnSet(w, {}) = 0
  <1>1. PICK g \in [SUBSET {} -> Nat] : Summed(g, w, {}) /\ SumFunctionOnSet(w, {}) = g[{}]
    BY FS_EmptySet, SumIs
  <1> QED
    BY <1>1 DEF Summed

\* One more member adds what it weighs.
LEMMA SumAdd ==
    ASSUME NEW S, IsFiniteSet(S), NEW x, x \notin S, NEW v, NEW w,
           \A k \in S : v[k] \in Nat /\ v[k] = w[k], w[x] \in Nat
    PROVE  SumFunctionOnSet(w, S \cup {x}) = SumFunctionOnSet(v, S) + w[x]
  <1> DEFINE E == S \cup {x}
  <1>1. IsFiniteSet(E)
    BY FS_AddElement
  <1>2. \A k \in E : w[k] \in Nat
    OBVIOUS
  <1>3. PICK g \in [SUBSET S -> Nat] : Summed(g, v, S) /\ SumFunctionOnSet(v, S) = g[S]
    BY SumIs
  <1> HIDE DEF E
  <1>4. PICK h \in [SUBSET E -> Nat] : Summed(h, w, E) /\ SumFunctionOnSet(w, E) = h[E]
    BY <1>1, <1>2, SumIs
  <1>5. E \in SUBSET E /\ x \in E /\ E \ {x} = S /\ S \subseteq E
    BY DEF E
  <1>6. h[E] = w[x] + h[S]
    BY <1>1, <1>2, <1>4, <1>5, SumTake
  <1>7. g[S] = h[S]
    BY <1>3, <1>4, <1>5, SumsAgree
  <1> DEFINE a == w[x]
             b == g[S]
  <1>8. a \in Nat /\ b \in Nat
    BY <1>2, <1>3, <1>5
  <1>9. h[E] = a + b
    BY <1>6, <1>7
  <1> HIDE DEF a, b
  <1>10. a + b = b + a
    BY <1>8
  <1> QED
    BY <1>3, <1>4, <1>9, <1>10 DEF E, a, b

-----------------------------------------------------------------------------
(* Steps *)

Looks(name) == talk = 0 /\ analyzer = name

\* A stream keeps its analyzer, and packets only come for those of PacketsOf.
LEMMA Stays ==
    ASSUME [Next]_vars
    PROVE  talk' = talk /\ analyzer' = analyzer
  BY DEF Next, Feed, FeedSkip, FeedPacket, vars

LEMMA Steps ==
    ASSUME [Next]_vars, talk = 0
    PROVE  \/ UNCHANGED vars
           \/ FeedSkip /\ analyzer \in {"trojan", "fet"}
           \/ \E p \in PacketsOf[analyzer] :
                 FeedPacket(p) /\ p \in PacketType(analyzer) /\ fed' = Append(fed, p) /\ ~over
  <1>1. \A dir \in Dirs : ~Feed(dir)
    BY DEF Feed
  <1>2. FeedSkip => analyzer \in {"trojan", "fet"}
    BY DEF FeedSkip
  <1>3. ASSUME NEW p \in PacketsOf[analyzer], analyzer \in PacketAnalyzers, FeedPacket(p)
        PROVE  p \in PacketType(analyzer) /\ fed' = Append(fed, p) /\ ~over
    BY <1>3, PacketAssumption DEF FeedPacket
  <1> QED
    BY <1>1, <1>2, <1>3 DEF Next

LEMMA Start ==
    ASSUME Init
    PROVE  /\ talk = 0 => analyzer \in PacketAnalyzers
           /\ fed = <<>> /\ gap = FALSE /\ reported = Nothing /\ over = FALSE
           /\ stream = StreamOf(analyzer)
  BY TalkAssumption DEF Init

\* One packet more.
LEMMA OneMore ==
    ASSUME NEW T, NEW s \in Seq(T), NEW p \in T, NEW t, t = Append(s, p)
    PROVE  /\ t \in Seq(T) /\ Len(s) \in Nat /\ Len(t) = Len(s) + 1
           /\ DOMAIN s = 1..Len(s) /\ DOMAIN t = 1..Len(s) + 1
           /\ t[Len(s) + 1] = p /\ \A k \in 1..Len(s) : t[k] = s[k]
  OBVIOUS

-----------------------------------------------------------------------------
(* Bad packets in a row: B are the places of the bad ones among n. *)

InARow(B, n, count) ==
    /\ count \in 0..n
    /\ \A k \in n - count + 1 .. n : k \in B
    /\ count < n => n - count \notin B

LEMMA OneMoreBad ==
    ASSUME NEW n \in Nat, NEW count, NEW B, NEW C, InARow(B, n, count),
           n + 1 \in C, \A k \in 1..n : k \in C <=> k \in B
    PROVE  InARow(C, n + 1, count + 1)
  <1>1. count \in Nat /\ count <= n
    BY DEF InARow
  <1>2. ASSUME NEW k \in (n + 1) - (count + 1) + 1 .. n + 1
        PROVE  k \in C
    <2>1. k = n + 1 \/ (k \in 1..n /\ k \in n - count + 1 .. n)
      BY <1>1
    <2> QED
      BY <2>1 DEF InARow
  <1>3. ASSUME count + 1 < n + 1 PROVE (n + 1) - (count + 1) \notin C
    <2>1. (n + 1) - (count + 1) = n - count /\ n - count \in 1..n /\ count < n
      BY <1>1, <1>3
    <2> QED
      BY <2>1 DEF InARow
  <1> QED
    BY <1>1, <1>2, <1>3 DEF InARow

LEMMA OneMoreGood ==
    ASSUME NEW n \in Nat, NEW C, n + 1 \notin C
    PROVE  InARow(C, n + 1, 0)
  BY DEF InARow

LEMMA AtThreshold ==
    ASSUME NEW n \in Nat, NEW count, NEW B, InARow(B, n, count), NEW t \in Nat \ {0}
    PROVE  count >= t <=> (n >= t /\ \A k \in n - t + 1 .. n : k \in B)
  <1>1. count \in Nat /\ count <= n
    BY DEF InARow
  <1>2. ASSUME count >= t PROVE n >= t /\ \A k \in n - t + 1 .. n : k \in B
    <2>1. n >= t /\ \A k \in n - t + 1 .. n : k \in n - count + 1 .. n
      BY <1>1, <1>2
    <2> QED
      BY <2>1 DEF InARow
  <1>3. ASSUME ~(count >= t), n >= t PROVE n - count \in n - t + 1 .. n /\ n - count \notin B
    <2>1. count < n /\ n - count \in n - t + 1 .. n
      BY <1>1, <1>3
    <2> QED
      BY <2>1 DEF InARow
  <1> QED
    BY <1>2, <1>3

-----------------------------------------------------------------------------
(* DNS over UDP *)

NoMessages == {k \in DOMAIN fed : ~IsDNS(fed[k].data)}

DNSReported ==
    LET messages == {k \in DOMAIN fed : IsDNS(fed[k].data)}
    IN /\ messages = {} => reported = Nothing
       /\ \A k \in messages :
             (\A j \in messages : j <= k) => reported.message = fed[k].data

DNSUDPInv ==
    /\ fed \in Seq(PacketType("dns_udp"))
    /\ stream \in [invalidCount : Nat, reported : {reported}, done : {over}]
    /\ over \in BOOLEAN
    /\ InARow(NoMessages, Len(fed), stream.invalidCount)
    /\ over <=> stream.invalidCount >= DNSUDPInvalidCountThreshold
    /\ DNSReported

LEMMA DNSUDPStep ==
    ASSUME Looks("dns_udp"), DNSUDPInv,
           NEW p \in PacketType("dns_udp"), FeedPacket(p), fed' = Append(fed, p), ~over
    PROVE  DNSUDPInv'
  <1> DEFINE n == Len(fed)
             count == stream.invalidCount
  <1>1. /\ fed' \in Seq(PacketType("dns_udp")) /\ n \in Nat /\ Len(fed') = n + 1
        /\ DOMAIN fed = 1..n /\ DOMAIN fed' = 1..n + 1
        /\ fed'[n + 1] = p /\ \A k \in 1..n : fed'[k] = fed[k]
    <2>1. fed \in Seq(PacketType("dns_udp"))
      BY DEF DNSUDPInv
    <2> QED
      BY <2>1, OneMore
  <1>2. stream' = DNSUDPFeed(stream, p.data) /\ reported' = stream'.reported /\ over' = stream'.done
    BY DEF FeedPacket, Looks
  <1>3. /\ stream \in [invalidCount : Nat, reported : {reported}, done : {over}]
        /\ count \in Nat /\ InARow(NoMessages, n, count)
    BY <1>1 DEF DNSUDPInv, InARow
  <1>4. CASE IsDNS(p.data)
    <2>1. stream' = [invalidCount |-> 0, reported |-> [message |-> p.data], done |-> over]
      <3>1. (CHOOSE m \in {[message |-> p.data]} : TRUE) = [message |-> p.data]
        OBVIOUS
      <3>2. stream' = [stream EXCEPT !.invalidCount = 0, !.reported = [message |-> p.data]]
        BY <1>2, <1>4, <3>1 DEF DNSUDPFeed, ParseDNSMessage
      <3> QED
        BY <1>3, <3>2
    <2>2. /\ over' = over /\ reported' = [message |-> p.data] /\ stream'.invalidCount = 0
          /\ stream' \in [invalidCount : Nat, reported : {reported'}, done : {over'}]
      BY <1>2, <2>1
    <2>3. n + 1 \notin NoMessages'
      BY <1>1, <1>4 DEF NoMessages
    <2>4. DNSReported'
      BY <1>1, <1>4, <2>2 DEF DNSReported
    <2>5. InARow(NoMessages', n + 1, 0)
      BY <1>1, <2>3, OneMoreGood
    <2>6. over' <=> 0 >= DNSUDPInvalidCountThreshold
      BY <2>2, DNSAssumption
    <2> QED
      BY <1>1, <2>2, <2>4, <2>5, <2>6 DEF DNSUDPInv
  <1>5. CASE ~IsDNS(p.data)
    <2>1. stream' = [invalidCount |-> count + 1, reported |-> reported,
                     done |-> count + 1 >= DNSUDPInvalidCountThreshold]
      <3>1. stream' = [stream EXCEPT !.invalidCount = @ + 1,
                                     !.done = count + 1 >= DNSUDPInvalidCountThreshold]
        BY <1>2, <1>5 DEF DNSUDPFeed, ParseDNSMessage
      <3> QED
        BY <1>3, <3>1
    <2>2. /\ over' = (count + 1 >= DNSUDPInvalidCountThreshold) /\ reported' = reported
          /\ stream'.invalidCount = count + 1
          /\ stream' \in [invalidCount : Nat, reported : {reported'}, done : {over'}]
      BY <1>2, <1>3, <2>1
    <2>3. n + 1 \in NoMessages' /\ \A k \in 1..n : k \in NoMessages' <=> k \in NoMessages
      BY <1>1, <1>5 DEF NoMessages
    <2>4. DNSReported'
      <3>1. {k \in DOMAIN fed' : IsDNS(fed'[k].data)} = {k \in DOMAIN fed : IsDNS(fed[k].data)}
        BY <1>1, <1>5
      <3>2. DNSReported
        BY DEF DNSUDPInv
      <3> QED
        BY <1>1, <2>2, <3>1, <3>2 DEF DNSReported
    <2>5. InARow(NoMessages', n + 1, count + 1)
      BY <1>1, <1>3, <2>3, OneMoreBad
    <2>6. over' \in BOOLEAN /\ (over' <=> stream'.invalidCount >= DNSUDPInvalidCountThreshold)
      <3>1. (count + 1 >= DNSUDPInvalidCountThreshold) \in BOOLEAN
        OBVIOUS
      <3> QED
        BY <2>2, <3>1, Zenon
    <2>7. InARow(NoMessages', Len(fed'), stream'.invalidCount)
      BY <1>1, <2>2, <2>5
    <2> QED
      BY <1>1, <2>2, <2>4, <2>6, <2>7 DEF DNSUDPInv
  <1> QED
    BY <1>4, <1>5

LEMMA DNSUDPStart == ASSUME Init, Looks("dns_udp") PROVE DNSUDPInv
  <1>1. fed = <<>> /\ reported = Nothing /\ over = FALSE /\ stream = DNSUDPStream
    BY Start DEF Looks, StreamOf
  <1>2. NoMessages = {} /\ DNSReported
    BY <1>1 DEF NoMessages, DNSReported
  <1>3. fed \in Seq(PacketType("dns_udp")) /\ Len(fed) = 0
    BY <1>1
  <1>4. stream \in [invalidCount : Nat, reported : {reported}, done : {over}] /\ stream.invalidCount = 0
    BY <1>1 DEF DNSUDPStream
  <1>5. InARow(NoMessages, Len(fed), stream.invalidCount)
    BY <1>3, <1>4 DEF InARow
  <1>6. over <=> stream.invalidCount >= DNSUDPInvalidCountThreshold
    BY <1>1, <1>4, DNSAssumption
  <1> QED
    BY <1>1, <1>2, <1>3, <1>4, <1>5, <1>6 DEF DNSUDPInv

LEMMA DNSUDPKept ==
    ASSUME Looks("dns_udp") => DNSUDPInv, [Next]_vars
    PROVE  (Looks("dns_udp") => DNSUDPInv)'
  <1> SUFFICES ASSUME Looks("dns_udp") PROVE DNSUDPInv'
    BY Stays DEF Looks
  <1>1. CASE UNCHANGED vars
    BY <1>1 DEF vars, DNSUDPInv, NoMessages, DNSReported
  <1>2. ASSUME NEW p \in PacketType("dns_udp"), FeedPacket(p), fed' = Append(fed, p), ~over
        PROVE  DNSUDPInv'
    BY <1>2, DNSUDPStep
  <1> QED
    BY <1>1, <1>2, Steps DEF Looks

LEMMA DNSUDPMeans == ASSUME DNSUDPInv PROVE DNSUDPTrue
  <1>1. /\ Len(fed) \in Nat /\ DOMAIN fed = 1..Len(fed)
        /\ InARow(NoMessages, Len(fed), stream.invalidCount)
    BY DEF DNSUDPInv
  <1>2. over <=> /\ Len(fed) >= DNSUDPInvalidCountThreshold
                 /\ \A k \in Len(fed) - DNSUDPInvalidCountThreshold + 1 .. Len(fed) : k \in NoMessages
    <2>1. over <=> stream.invalidCount >= DNSUDPInvalidCountThreshold
      BY DEF DNSUDPInv
    <2> QED
      BY <1>1, <2>1, AtThreshold, DNSAssumption
  <1>3. ASSUME Len(fed) >= DNSUDPInvalidCountThreshold,
               NEW k \in Len(fed) - DNSUDPInvalidCountThreshold + 1 .. Len(fed)
        PROVE  k \in NoMessages <=> ~IsDNS(fed[k].data)
    BY <1>1, <1>3, DNSAssumption DEF NoMessages
  <1>4. over <=> /\ Len(fed) >= DNSUDPInvalidCountThreshold
                 /\ \A k \in Len(fed) - DNSUDPInvalidCountThreshold + 1 .. Len(fed) :
                       ~IsDNS(fed[k].data)
    BY <1>2, <1>3
  <1> QED
    BY <1>4 DEF DNSUDPTrue, OverIfBad, DNSUDPInv, DNSReported

-----------------------------------------------------------------------------
(***************************************************************************)
(* WireGuard.  The k-th youngest place of the ring holds the k-th sender   *)
(* index from the end of the history.                                      *)
(***************************************************************************)
RingPlaces == 1..RememberedIndexCount
Cell == [index : Nat, rev : BOOLEAN, set : BOOLEAN]

Ages(s) == [k \in RingPlaces |-> Younger(s, k)]

IndexOf(p) == [index |-> p.sender, rev |-> p.rev, set |-> TRUE]

Senders(packets) == {k \in DOMAIN packets : Sends(packets[k])}
Rank(packets, j) == Cardinality({k \in Senders(packets) : k >= j})

Remembers(ages, packets) ==
    /\ \A j \in Senders(packets) :
          Rank(packets, j) <= RememberedIndexCount =>
             ages[Rank(packets, j)] = IndexOf(packets[j])
    /\ \A k \in RingPlaces :
          ages[k].set => /\ \E j \in Senders(packets) : Rank(packets, j) = k
                         /\ \A i \in 1..k : ages[i].set

LEMMA Modulo ==
    ASSUME NEW n \in Nat \ {0}, NEW a \in 0..n - 1
    PROVE  a % n = a /\ (a + n) % n = a
  OBVIOUS

\* A place further on in the ring, one cell back.
LEMMA CellBefore ==
    ASSUME NEW c \in Cells, NEW k \in RingPlaces
    PROVE  /\ (c + k) % RememberedIndexCount \in Cells
           /\ Prev(c) \in Cells
           /\ (Prev(c) + k) % RememberedIndexCount = (c + (k - 1)) % RememberedIndexCount
           /\ k # RememberedIndexCount => (c + k) % RememberedIndexCount # c
           /\ (c + 0) % RememberedIndexCount = c
  <1> DEFINE n == RememberedIndexCount
  <1>1. n \in Nat \ {0} /\ c \in 0..n - 1 /\ k \in 1..n
    BY RingAssumption DEF Cells, RingPlaces
  <1> HIDE DEF n
  <1>2. \A a \in 0..n - 1 : a % n = a /\ (a + n) % n = a
    BY <1>1, Modulo
  <1>3. \A a \in 0..2 * n - 1 : \E b \in 0..n - 1 : a % n = b /\ (a = b \/ a = b + n)
    <2>1. ASSUME NEW a \in 0..2 * n - 1
          PROVE  \E b \in 0..n - 1 : a % n = b /\ (a = b \/ a = b + n)
      <3>1. CASE a < n
        BY <1>1, <1>2, <3>1
      <3>2. CASE a >= n
        <4>1. a - n \in 0..n - 1 /\ a = (a - n) + n
          BY <1>1, <3>2
        <4> QED
          BY <1>2, <4>1
      <3> QED
        BY <1>1, <3>1, <3>2
    <2> QED
      BY <2>1
  <1>4. (c + k) % n \in 0..n - 1 /\ (k # n => (c + k) % n # c)
    <2>1. c + k \in 0..2 * n - 1
      BY <1>1
    <2>2. PICK b \in 0..n - 1 : (c + k) % n = b /\ (c + k = b \/ c + k = b + n)
      BY <1>3, <2>1
    <2> QED
      BY <1>1, <2>2
  <1>5. (c + 0) % n = c
    BY <1>1, <1>2
  <1>6. /\ (c + n - 1) % n \in 0..n - 1
        /\ (((c + n - 1) % n) + k) % n = (c + (k - 1)) % n
    <2>1. c + n - 1 \in 0..2 * n - 1
      BY <1>1
    <2>2. PICK b \in 0..n - 1 : (c + n - 1) % n = b /\ (c + n - 1 = b \/ c + n - 1 = b + n)
      BY <1>3, <2>1
    <2>3. CASE c + n - 1 = b + n
      BY <1>1, <2>2, <2>3
    <2>4. CASE c + n - 1 = b
      <3>1. c = 0 /\ b = n - 1 /\ b + k = (k - 1) + n /\ k - 1 \in 0..n - 1
        BY <1>1, <2>4
      <3>2. ((k - 1) + n) % n = k - 1 /\ (k - 1) % n = k - 1
        BY <1>2, <3>1
      <3>3. c + (k - 1) = k - 1
        BY <1>1, <3>1
      <3> QED
        BY <2>2, <3>1, <3>2, <3>3
    <2> QED
      BY <2>2, <2>3, <2>4
  <1> QED
    BY <1>4, <1>5, <1>6 DEF n, Prev, Cells

\* A new index is the youngest, the others get older and the oldest is gone.
LEMMA PutAges ==
    ASSUME NEW s, NEW t, s.cell \in Cells, s.ring \in [Cells -> Cell], NEW entry \in Cell,
           t.ring = [s.ring EXCEPT ![s.cell] = entry], t.cell = Prev(s.cell)
    PROVE  /\ t.cell \in Cells /\ t.ring \in [Cells -> Cell]
           /\ Ages(t) = [k \in RingPlaces |-> IF k = 1 THEN entry ELSE Ages(s)[k - 1]]
  <1>0. RememberedIndexCount \in Nat \ {0}
    BY RingAssumption
  <1>1. 1 \in RingPlaces
    BY <1>0 DEF RingPlaces
  <1>2. t.cell \in Cells /\ t.ring \in [Cells -> Cell]
    BY <1>1, CellBefore
  <1>3. ASSUME NEW k \in RingPlaces
        PROVE  Younger(t, k) = IF k = 1 THEN entry ELSE Ages(s)[k - 1]
    <2>1. Younger(t, k) = t.ring[(s.cell + (k - 1)) % RememberedIndexCount]
      BY CellBefore DEF Younger
    <2>2. CASE k = 1
      <3>1. (s.cell + (k - 1)) % RememberedIndexCount = s.cell
        BY <2>2, CellBefore
      <3> QED
        BY <2>1, <2>2, <3>1
    <2>3. CASE k # 1
      <3>1. k - 1 \in RingPlaces /\ k - 1 # RememberedIndexCount
        BY <1>0, <2>3 DEF RingPlaces
      <3>2. /\ (s.cell + (k - 1)) % RememberedIndexCount \in Cells
            /\ (s.cell + (k - 1)) % RememberedIndexCount # s.cell
        BY <3>1, CellBefore
      <3>3. Younger(t, k) = s.ring[(s.cell + (k - 1)) % RememberedIndexCount]
        BY <2>1, <3>2
      <3>4. Ages(s)[k - 1] = s.ring[(s.cell + (k - 1)) % RememberedIndexCount]
        BY <3>1 DEF Ages, Younger
      <3> QED
        BY <2>3, <3>3, <3>4
    <2> QED
      BY <2>2, <2>3
  <1> QED
    BY <1>2, <1>3 DEF Ages

LEMMA RankType ==
    ASSUME NEW T, NEW packets \in Seq(T), NEW j \in DOMAIN packets
    PROVE  IsFiniteSet({k \in Senders(packets) : k >= j}) /\ Rank(packets, j) \in Nat
  <1>1. IsFiniteSet(1..Len(packets))
    BY FS_Interval
  <1>2. {k \in Senders(packets) : k >= j} \in SUBSET (1..Len(packets))
    BY DEF Senders
  <1>3. IsFiniteSet({k \in Senders(packets) : k >= j})
    BY <1>1, <1>2, FS_Subset
  <1> QED
    BY <1>3, FS_CardinalityType DEF Rank

LEMMA RankPositive ==
    ASSUME NEW T, NEW packets \in Seq(T), NEW j \in Senders(packets)
    PROVE  Rank(packets, j) \in Nat \ {0}
  <1>1. j \in DOMAIN packets /\ j \in Nat
    BY DEF Senders
  <1>2. j \in {k \in Senders(packets) : k >= j}
    BY <1>1
  <1> QED
    BY <1>1, <1>2, RankType, FS_EmptySet DEF Rank

\* A sender is the youngest, and makes those before it older.
LEMMA RankMore ==
    ASSUME NEW T, NEW packets \in Seq(T), NEW p \in T, Sends(p),
           NEW more, more = Append(packets, p)
    PROVE  /\ Senders(more) = Senders(packets) \cup {Len(packets) + 1}
           /\ Rank(more, Len(packets) + 1) = 1
  <1> DEFINE n == Len(packets)
  <1>1. /\ n \in Nat /\ DOMAIN packets = 1..n /\ DOMAIN more = 1..n + 1
        /\ more[n + 1] = p /\ \A k \in 1..n : more[k] = packets[k]
    BY OneMore
  <1>2. Senders(more) = Senders(packets) \cup {n + 1} /\ Senders(packets) \in SUBSET (1..n)
    BY <1>1 DEF Senders
  <1>3. Rank(more, n + 1) = 1
    <2>1. {k \in Senders(more) : k >= n + 1} = {n + 1}
      BY <1>1, <1>2
    <2> QED
      BY <2>1, FS_Singleton DEF Rank
  <1> QED
    BY <1>2, <1>3

LEMMA RankOlder ==
    ASSUME NEW T, NEW packets \in Seq(T), NEW p \in T, Sends(p),
           NEW more, more = Append(packets, p), NEW j \in Senders(packets)
    PROVE  Rank(more, j) = Rank(packets, j) + 1
  <1> DEFINE n == Len(packets)
             A == {k \in Senders(packets) : k >= j}
  <1>1. n \in Nat /\ Senders(packets) \in SUBSET (1..n)
    BY DEF Senders
  <1>2. Senders(more) = Senders(packets) \cup {n + 1}
    BY RankMore
  <1>3. {k \in Senders(more) : k >= j} = A \cup {n + 1} /\ n + 1 \notin A
    BY <1>1, <1>2
  <1>4. IsFiniteSet(A)
    <2>1. j \in DOMAIN packets
      BY DEF Senders
    <2> QED
      BY <2>1, RankType
  <1>5. Cardinality(A \cup {n + 1}) = Cardinality(A) + 1
    BY <1>3, <1>4, FS_AddElement
  <1> QED
    BY <1>3, <1>5 DEF Rank

\* Any other packet leaves them as they are.
LEMMA RankSame ==
    ASSUME NEW T, NEW packets \in Seq(T), NEW p \in T, ~Sends(p),
           NEW more, more = Append(packets, p)
    PROVE  Senders(more) = Senders(packets) /\ \A j : Rank(more, j) = Rank(packets, j)
  <1>1. Senders(more) = Senders(packets)
    BY OneMore DEF Senders
  <1> QED
    BY <1>1 DEF Rank

LEMMA RememberMore ==
    ASSUME NEW packets \in Seq(PacketType("wireguard")), NEW p \in PacketType("wireguard"), Sends(p),
           NEW ages, Remembers(ages, packets),
           NEW older, \A k \in RingPlaces : older[k] = IF k = 1 THEN IndexOf(p) ELSE ages[k - 1]
    PROVE  Remembers(older, Append(packets, p))
  <1> DEFINE n == Len(packets)
             more == Append(packets, p)
  <1> HIDE DEF more
  <1>0. RememberedIndexCount \in Nat \ {0} /\ RingPlaces = 1..RememberedIndexCount
    BY RingAssumption DEF RingPlaces
  <1>1. /\ Senders(more) = Senders(packets) \cup {n + 1}
        /\ Rank(more, n + 1) = 1
        /\ \A j \in Senders(packets) : Rank(more, j) = Rank(packets, j) + 1
    <2>1. Senders(more) = Senders(packets) \cup {Len(packets) + 1}
      BY RankMore DEF more
    <2>2. Rank(more, Len(packets) + 1) = 1
      BY RankMore DEF more
    <2>3. ASSUME NEW j \in Senders(packets)
          PROVE  Rank(more, j) = Rank(packets, j) + 1
      BY RankOlder DEF more
    <2> QED
      BY <2>1, <2>2, <2>3
  <1>2. /\ more[n + 1] = p /\ \A k \in Senders(packets) : more[k] = packets[k]
    BY OneMore DEF Senders, more
  <1>3. \A j \in Senders(packets) : Rank(packets, j) \in Nat \ {0}
    BY RankPositive
  <1>4. ASSUME NEW j \in Senders(more), Rank(more, j) <= RememberedIndexCount
        PROVE  older[Rank(more, j)] = IndexOf(more[j])
    <2>1. CASE j = n + 1
      <3>1. 1 \in RingPlaces /\ older[1] = IndexOf(p)
        BY <1>0
      <3> QED
        BY <1>1, <1>2, <2>1, <3>1
    <2>2. CASE j \in Senders(packets)
      <3>1. /\ Rank(packets, j) \in Nat \ {0} /\ Rank(more, j) = Rank(packets, j) + 1
            /\ Rank(packets, j) <= RememberedIndexCount
        BY <1>0, <1>1, <1>3, <1>4, <2>2
      <3>2. ages[Rank(packets, j)] = IndexOf(packets[j])
        BY <2>2, <3>1 DEF Remembers
      <3>3. older[Rank(more, j)] = ages[Rank(packets, j)]
        BY <1>0, <1>4, <3>1
      <3> QED
        BY <1>2, <2>2, <3>2, <3>3
    <2> QED
      BY <1>1, <2>1, <2>2
  <1>5. ASSUME NEW k \in RingPlaces, older[k].set
        PROVE  /\ \E j \in Senders(more) : Rank(more, j) = k
               /\ \A i \in 1..k : older[i].set
    <2>0. 1 \in RingPlaces /\ older[1].set
      BY <1>0 DEF IndexOf
    <2>1. CASE k = 1
      BY <1>1, <2>0, <2>1
    <2>2. CASE k # 1
      <3>1. k - 1 \in RingPlaces /\ older[k] = ages[k - 1]
        BY <1>0, <2>2
      <3>2. /\ \E j \in Senders(packets) : Rank(packets, j) = k - 1
            /\ \A i \in 1..k - 1 : ages[i].set
        BY <1>5, <3>1 DEF Remembers
      <3>3. \E j \in Senders(more) : Rank(more, j) = k
        BY <1>0, <1>1, <3>2
      <3>4. ASSUME NEW i \in 1..k PROVE older[i].set
        <4>1. i = 1 \/ (i - 1 \in 1..k - 1 /\ i \in RingPlaces /\ older[i] = ages[i - 1])
          BY <1>0
        <4> QED
          BY <2>0, <3>2, <4>1
      <3> QED
        BY <3>3, <3>4
    <2> QED
      BY <2>1, <2>2
  <1> QED
    BY <1>4, <1>5 DEF Remembers, more

LEMMA RememberSame ==
    ASSUME NEW T, NEW packets \in Seq(T), NEW p \in T, ~Sends(p),
           NEW more, more = Append(packets, p), NEW ages, Remembers(ages, packets)
    PROVE  Remembers(ages, more)
  <1>1. Senders(more) = Senders(packets) /\ \A j : Rank(more, j) = Rank(packets, j)
    BY RankSame
  <1>2. \A k \in Senders(packets) : more[k] = packets[k]
    BY OneMore DEF Senders
  <1> QED
    BY <1>1, <1>2 DEF Remembers

\* The walk over the ring finds what the history of senders says.
Match(packets, rev, index) ==
    \E j \in Senders(packets) :
        /\ packets[j].rev # rev /\ packets[j].sender = index
        /\ Rank(packets, j) < RememberedIndexCount

LEMMA WalkFinds ==
    ASSUME NEW T, NEW packets \in Seq(T), NEW s, Remembers(Ages(s), packets),
           \A j \in DOMAIN packets : packets[j].rev \in BOOLEAN,
           NEW rev \in BOOLEAN, NEW index
    PROVE  MatchReceiverIndex(s, rev, index) <=> Match(packets, rev, index)
  <1> DEFINE n == RememberedIndexCount
  <1>0. n \in Nat \ {0} /\ RingPlaces = 1..n /\ \A k \in RingPlaces : Ages(s)[k] = Younger(s, k)
    BY RingAssumption DEF RingPlaces, Ages
  <1>1. \A j \in Senders(packets) : Rank(packets, j) \in Nat \ {0}
    BY RankPositive
  <1>2. \A j \in Senders(packets) : packets[j].rev \in BOOLEAN
    BY DEF Senders
  <1>3. ASSUME NEW k \in 1..n - 1, Younger(s, k).set,
               Younger(s, k).index = index, Younger(s, k).rev = ~rev
        PROVE  Match(packets, rev, index)
    <2>1. k \in RingPlaces /\ k < n /\ k <= n
      BY <1>0
    <2>2. PICK j \in Senders(packets) : Rank(packets, j) = k
      BY <1>0, <1>3, <2>1 DEF Remembers
    <2>3. Younger(s, k) = IndexOf(packets[j])
      BY <1>0, <2>1, <2>2 DEF Remembers
    <2>4. packets[j].rev = ~rev /\ packets[j].sender = index
      BY <1>3, <2>3 DEF IndexOf
    <2> QED
      BY <2>1, <2>2, <2>4 DEF Match
  <1>4. ASSUME Match(packets, rev, index)
        PROVE  MatchReceiverIndex(s, rev, index)
    <2>1. PICK j \in Senders(packets) :
             /\ packets[j].rev # rev /\ packets[j].sender = index
             /\ Rank(packets, j) < n
      BY <1>4 DEF Match
    <2> DEFINE k == Rank(packets, j)
    <2>2. k \in 1..n - 1 /\ k \in RingPlaces /\ k <= n
      BY <1>0, <1>1, <2>1
    <2>3. Younger(s, k) = IndexOf(packets[j])
      BY <1>0, <2>2 DEF Remembers
    <2>4. Younger(s, k).set /\ Younger(s, k).index = index /\ Younger(s, k).rev = ~rev
      BY <1>2, <2>1, <2>3 DEF IndexOf
    <2>5. \A i \in 1..k : Younger(s, i).set
      <3>1. \A i \in 1..k : Ages(s)[i].set
        BY <1>0, <2>2, <2>4 DEF Remembers
      <3>2. \A i \in 1..k : i \in RingPlaces
        BY <1>0, <2>2
      <3> QED
        BY <1>0, <3>1, <3>2
    <2> HIDE DEF k
    <2> QED
      BY <2>2, <2>4, <2>5 DEF MatchReceiverIndex
  <1>5. \A k \in 1..n - 1 : k \in 1..k
    BY <1>0
  <1> QED
    BY <1>3, <1>4, <1>5 DEF MatchReceiverIndex

WGBad == {k \in DOMAIN fed : fed[k].type = "bad"}

\* What a packet that names a receiver is reported with.
Answers(type) == type \notin {"bad", "handshake_initiation"}

Told(packets, says) ==
    LET p == packets[Len(packets)]
    IN packets # <<>> /\ Answers(p.type) =>
          (says[p.type].receiver_index_matched <=> Match(packets, p.rev, p.receiver))

WireGuardInv ==
    /\ fed \in Seq(PacketType("wireguard"))
    /\ stream \in [invalidCount : Nat, ring : [Cells -> Cell], cell : Cells,
                   reported : {reported}, done : {over}]
    /\ over \in BOOLEAN
    /\ InARow(WGBad, Len(fed), stream.invalidCount)
    /\ over <=> stream.invalidCount >= WireGuardInvalidCountThreshold
    /\ Remembers(Ages(stream), fed)
    /\ Told(fed, reported)

\* What a Feed leaves in the ring is what it remembers of the packet as well.
LEMMA WireGuardRing ==
    ASSUME NEW s, s.cell \in Cells, s.ring \in [Cells -> Cell],
           NEW packets \in Seq(PacketType("wireguard")), Remembers(Ages(s), packets),
           NEW p \in PacketType("wireguard"),
           NEW t, \/ Sends(p) /\ t.ring = [s.ring EXCEPT ![s.cell] = IndexOf(p)] /\ t.cell = Prev(s.cell)
                  \/ ~Sends(p) /\ t.ring = s.ring /\ t.cell = s.cell
    PROVE  /\ t.cell \in Cells /\ t.ring \in [Cells -> Cell]
           /\ Remembers(Ages(t), Append(packets, p))
  <1>1. CASE Sends(p)
    <2>1. IndexOf(p) \in Cell
      BY DEF IndexOf, Cell, PacketType
    <2>2. t.ring = [s.ring EXCEPT ![s.cell] = IndexOf(p)] /\ t.cell = Prev(s.cell)
      BY <1>1
    <2>3. /\ t.cell \in Cells /\ t.ring \in [Cells -> Cell]
          /\ Ages(t) = [k \in RingPlaces |-> IF k = 1 THEN IndexOf(p) ELSE Ages(s)[k - 1]]
      BY <2>1, <2>2, PutAges
    <2>4. Remembers(Ages(t), Append(packets, p))
      <3> DEFINE ages == Ages(s)
                 older == Ages(t)
                 more == Append(packets, p)
      <3>1. \A k \in RingPlaces : older[k] = IF k = 1 THEN IndexOf(p) ELSE ages[k - 1]
        BY <2>3
      <3>2. Remembers(ages, packets) /\ more = Append(packets, p)
        OBVIOUS
      <3> HIDE DEF ages, older, more
      <3>3. Remembers(older, more)
        <4>1. Remembers(older, Append(packets, p))
          BY <1>1, <3>1, <3>2, RememberMore, SMTT(60)
        <4> QED
          BY <3>2, <4>1
      <3> QED
        BY <3>3 DEF older, more
    <2> QED
      BY <2>3, <2>4
  <1>2. CASE ~Sends(p)
    <2>1. t.ring = s.ring /\ t.cell = s.cell
      BY <1>2
    <2>2. Ages(t) = Ages(s)
      BY <2>1 DEF Ages, Younger
    <2>3. Remembers(Ages(t), Append(packets, p))
      BY <1>2, <2>2, RememberSame
    <2> QED
      BY <2>1, <2>3
  <1> QED
    BY <1>1, <1>2

LEMMA WireGuardStep ==
    ASSUME Looks("wireguard"), WireGuardInv,
           NEW p \in PacketType("wireguard"), FeedPacket(p), fed' = Append(fed, p), ~over
    PROVE  WireGuardInv'
  <1> DEFINE n == Len(fed)
             count == stream.invalidCount
             Record == [invalidCount : Nat, ring : [Cells -> Cell], cell : Cells,
                        reported : {reported}, done : {over}]
             put == PutSenderIndex(stream, p.rev, p.sender)
             after == IF Sends(p) THEN put ELSE stream
             matched == MatchReceiverIndex(after, p.rev, p.receiver)
  <1>1. /\ fed' \in Seq(PacketType("wireguard")) /\ n \in Nat /\ Len(fed') = n + 1
        /\ DOMAIN fed = 1..n /\ DOMAIN fed' = 1..n + 1
        /\ fed'[n + 1] = p /\ \A k \in 1..n : fed'[k] = fed[k]
    <2>1. fed \in Seq(PacketType("wireguard"))
      BY DEF WireGuardInv
    <2> QED
      BY <2>1, OneMore
  <1>2. stream' = WireGuardFeed(stream, p) /\ reported' = stream'.reported /\ over' = stream'.done
    BY DEF FeedPacket, Looks
  <1>3. /\ stream \in Record /\ over = FALSE
        /\ count \in Nat /\ InARow(WGBad, n, count) /\ Remembers(Ages(stream), fed)
    BY <1>1 DEF WireGuardInv
  <1>4. p.rev \in BOOLEAN /\ p.sender \in Nat /\ p.receiver \in Nat
        /\ p.type \in {"bad", "handshake_initiation", "handshake_response", "packet_data",
                       "packet_cookie_reply"}
    BY DEF PacketType
  <1>5. /\ put \in [invalidCount : {count}, ring : [Cells -> Cell], cell : Cells,
                    reported : {reported}, done : {over}]
        /\ put.ring = [stream.ring EXCEPT ![stream.cell] = IndexOf(p)]
        /\ put.cell = Prev(stream.cell)
    <2>1. IndexOf(p) \in Cell
      BY <1>4 DEF IndexOf, Cell
    <2>2. Prev(stream.cell) \in Cells
      <3>1. stream.cell \in Cells /\ 1 \in RingPlaces
        BY <1>3, RingAssumption DEF RingPlaces
      <3> QED
        BY <3>1, CellBefore
    <2>3. put = [stream EXCEPT !.ring = [stream.ring EXCEPT ![stream.cell] = IndexOf(p)],
                               !.cell = Prev(stream.cell)]
      BY <1>3 DEF PutSenderIndex, IndexOf
    <2> QED
      BY <1>3, <2>1, <2>2, <2>3
  <1>6. /\ after \in [invalidCount : {count}, ring : [Cells -> Cell], cell : Cells,
                      reported : {reported}, done : {over}]
        /\ Remembers(Ages(after), fed')
        /\ (matched <=> Match(fed', p.rev, p.receiver))
    <2>1. after \in [invalidCount : {count}, ring : [Cells -> Cell], cell : Cells,
                     reported : {reported}, done : {over}]
      BY <1>3, <1>5
    <2>2. Remembers(Ages(after), fed')
      <3>1. \/ /\ Sends(p)
               /\ after.ring = [stream.ring EXCEPT ![stream.cell] = IndexOf(p)]
               /\ after.cell = Prev(stream.cell)
            \/ ~Sends(p) /\ after.ring = stream.ring /\ after.cell = stream.cell
        BY <1>5
      <3>2. stream.cell \in Cells /\ stream.ring \in [Cells -> Cell] /\ fed \in Seq(PacketType("wireguard"))
        BY <1>3 DEF WireGuardInv
      <3> HIDE DEF after
      <3>3. Remembers(Ages(after), Append(fed, p))
        BY <1>3, <3>1, <3>2, WireGuardRing
      <3> QED
        BY <3>3
    <2>3. \A j \in DOMAIN fed' : fed'[j].rev \in BOOLEAN
      <3>1. \A j \in DOMAIN fed' : fed'[j] \in PacketType("wireguard")
        BY <1>1
      <3>2. \A q \in PacketType("wireguard") : q.rev \in BOOLEAN
        BY DEF PacketType
      <3> QED
        BY <3>1, <3>2
    <2> HIDE DEF after
    <2>4. matched <=> Match(fed', p.rev, p.receiver)
      <3> DEFINE packets == fed'
                 index == p.receiver
                 rev == p.rev
      <3>1. packets \in Seq(PacketType("wireguard")) /\ Remembers(Ages(after), packets) /\ rev \in BOOLEAN
            /\ \A j \in DOMAIN packets : packets[j].rev \in BOOLEAN
        BY <1>1, <1>4, <2>2, <2>3
      <3> HIDE DEF packets, index, rev
      <3>2. MatchReceiverIndex(after, rev, index) <=> Match(packets, rev, index)
        BY <3>1, WalkFinds
      <3> QED
        BY <3>2 DEF packets, index, rev
    <2> QED
      BY <2>1, <2>2, <2>4
  <1>7. CASE p.type = "bad"
    <2>1. stream' = [invalidCount |-> count + 1, ring |-> stream.ring, cell |-> stream.cell,
                     reported |-> reported, done |-> count + 1 >= WireGuardInvalidCountThreshold]
      <3>1. stream' = [stream EXCEPT !.invalidCount = @ + 1,
                                     !.done = count + 1 >= WireGuardInvalidCountThreshold]
        BY <1>2, <1>7 DEF WireGuardFeed
      <3> QED
        BY <1>3, <3>1
    <2>2. /\ over' = (count + 1 >= WireGuardInvalidCountThreshold) /\ reported' = reported
          /\ stream'.invalidCount = count + 1
          /\ stream'.ring = stream.ring /\ stream'.cell = stream.cell
          /\ stream' \in [invalidCount : Nat, ring : [Cells -> Cell], cell : Cells,
                          reported : {reported'}, done : {over'}]
      BY <1>2, <1>3, <2>1
    <2>3. n + 1 \in WGBad' /\ \A k \in 1..n : k \in WGBad' <=> k \in WGBad
      BY <1>1, <1>7 DEF WGBad
    <2>4. InARow(WGBad', n + 1, count + 1)
      BY <1>1, <1>3, <2>3, OneMoreBad
    <2>5. over' \in BOOLEAN /\ (over' <=> stream'.invalidCount >= WireGuardInvalidCountThreshold)
      <3>1. (count + 1 >= WireGuardInvalidCountThreshold) \in BOOLEAN
        OBVIOUS
      <3> QED
        BY <2>2, <3>1, Zenon
    <2>6. Told(fed', reported')
      BY <1>1, <1>7 DEF Told, Answers
    <2>7. Ages(stream') = Ages(after)
      BY <1>7, <2>2 DEF Ages, Younger, Sends
    <2>8. Remembers(Ages(stream'), fed')
      BY <1>6, <2>7
    <2>9. InARow(WGBad', Len(fed'), stream'.invalidCount)
      BY <1>1, <2>2, <2>4
    <2> QED
      BY <1>1, <2>2, <2>5, <2>6, <2>8, <2>9 DEF WireGuardInv
  <1>8. CASE p.type # "bad"
    <2> DEFINE answer == [sender_index |-> p.sender, receiver_index |-> p.receiver,
                          receiver_index_matched |-> matched]
               short == [receiver_index |-> p.receiver, receiver_index_matched |-> matched]
               says == CASE p.type = "handshake_initiation" ->
                               WireGuardMap(p.type, [sender_index |-> p.sender])
                         [] p.type = "handshake_response" ->
                               Merged(WireGuardMap(p.type, answer), after.reported)
                         [] OTHER ->
                               Merged(WireGuardMap(p.type, short), after.reported)
    <2>a. stream' = [after EXCEPT !.invalidCount = 0, !.reported = says]
      BY <1>2, <1>8 DEF WireGuardFeed
    <2> HIDE DEF after, says
    <2>1. /\ stream'.invalidCount = 0 /\ stream'.done = over /\ stream'.reported = says
          /\ stream'.ring = after.ring /\ stream'.cell = after.cell
          /\ stream' \in [invalidCount : Nat, ring : [Cells -> Cell], cell : Cells,
                          reported : {stream'.reported}, done : {over}]
      BY <1>6, <2>a
    <2>2. Answers(p.type) => (stream'.reported[p.type].receiver_index_matched <=> matched)
      <3> HIDE DEF matched
      <3>1. CASE p.type = "handshake_response"
        <4>1. says[p.type] = answer
          BY <3>1 DEF says, Merged, WireGuardMap
        <4> QED
          BY <2>1, <4>1
      <3>2. CASE p.type \in {"packet_data", "packet_cookie_reply"}
        <4>1. says[p.type] = short
          BY <3>2 DEF says, Merged, WireGuardMap
        <4> QED
          BY <2>1, <4>1
      <3> QED
        BY <1>4, <1>8, <3>1, <3>2 DEF Answers
    <2>3. Remembers(Ages(stream'), fed')
      <3>1. Ages(stream') = Ages(after)
        BY <2>1 DEF Ages, Younger
      <3> QED
        BY <1>6, <3>1
    <2>4. Told(fed', reported')
      <3>1. Answers(p.type) => (matched <=> Match(fed', p.rev, p.receiver))
        BY <1>6
      <3>2. fed'[Len(fed')] = p
        BY <1>1
      <3> HIDE DEF matched
      <3> QED
        BY <1>2, <2>2, <3>1, <3>2 DEF Told
    <2>5. n + 1 \notin WGBad'
      BY <1>1, <1>8 DEF WGBad
    <2>6. InARow(WGBad', Len(fed'), stream'.invalidCount)
      BY <1>1, <2>1, <2>5, OneMoreGood
    <2>7. over' = FALSE /\ ~(0 >= WireGuardInvalidCountThreshold)
      BY <1>2, <1>3, <2>1, RingAssumption
    <2>8. /\ over' \in BOOLEAN /\ (over' <=> stream'.invalidCount >= WireGuardInvalidCountThreshold)
          /\ stream' \in [invalidCount : Nat, ring : [Cells -> Cell], cell : Cells,
                          reported : {reported'}, done : {over'}]
      BY <1>2, <1>3, <2>1, <2>7
    <2> QED
      BY <1>1, <2>3, <2>4, <2>6, <2>8 DEF WireGuardInv
  <1> QED
    BY <1>7, <1>8

LEMMA WireGuardStart == ASSUME Init, Looks("wireguard") PROVE WireGuardInv
  <1>1. fed = <<>> /\ reported = Nothing /\ over = FALSE /\ stream = WireGuardStream
    BY Start DEF Looks, StreamOf
  <1>2. fed \in Seq(PacketType("wireguard")) /\ Len(fed) = 0 /\ DOMAIN fed = {}
    BY <1>1
  <1>3. /\ stream \in [invalidCount : Nat, ring : [Cells -> Cell], cell : Cells,
                       reported : {reported}, done : {over}]
        /\ stream.invalidCount = 0 /\ stream.cell = 0 /\ \A c \in Cells : ~stream.ring[c].set
    <2>1. 0 \in Cells /\ NoIndex \in Cell /\ ~NoIndex.set
      BY RingAssumption DEF Cells, Cell, NoIndex
    <2> QED
      BY <1>1, <2>1 DEF WireGuardStream, Nothing
  <1>4. Remembers(Ages(stream), fed)
    <2>1. Senders(fed) = {}
      BY <1>2 DEF Senders
    <2>2. ASSUME NEW k \in RingPlaces PROVE ~Ages(stream)[k].set
      <3>1. (stream.cell + k) % RememberedIndexCount \in Cells
        BY <1>3, CellBefore
      <3> QED
        BY <1>3, <3>1 DEF Ages, Younger
    <2> QED
      BY <2>1, <2>2 DEF Remembers
  <1>5. InARow(WGBad, Len(fed), stream.invalidCount)
    BY <1>2, <1>3 DEF InARow, WGBad
  <1>6. over <=> stream.invalidCount >= WireGuardInvalidCountThreshold
    BY <1>1, <1>3, RingAssumption
  <1>7. Told(fed, reported)
    BY <1>1 DEF Told
  <1> QED
    BY <1>1, <1>2, <1>3, <1>4, <1>5, <1>6, <1>7 DEF WireGuardInv

LEMMA WireGuardKept ==
    ASSUME Looks("wireguard") => WireGuardInv, [Next]_vars
    PROVE  (Looks("wireguard") => WireGuardInv)'
  <1> SUFFICES ASSUME Looks("wireguard") PROVE WireGuardInv'
    BY Stays DEF Looks
  <1>1. CASE UNCHANGED vars
    BY <1>1 DEF vars, WireGuardInv, WGBad
  <1>2. ASSUME NEW p \in PacketType("wireguard"), FeedPacket(p), fed' = Append(fed, p), ~over
        PROVE  WireGuardInv'
    BY <1>2, WireGuardStep
  <1> QED
    BY <1>1, <1>2, Steps DEF Looks

LEMMA WireGuardMeans == ASSUME WireGuardInv PROVE WireGuardTrue
  <1> DEFINE t == WireGuardInvalidCountThreshold
  <1>1. /\ Len(fed) \in Nat /\ DOMAIN fed = 1..Len(fed) /\ t \in Nat \ {0}
        /\ InARow(WGBad, Len(fed), stream.invalidCount)
    BY RingAssumption DEF WireGuardInv
  <1>2. over <=> Len(fed) >= t /\ \A k \in Len(fed) - t + 1 .. Len(fed) : k \in WGBad
    <2>1. over <=> stream.invalidCount >= t
      BY DEF WireGuardInv
    <2> HIDE DEF t
    <2> QED
      BY <1>1, <2>1, AtThreshold
  <1>3. ASSUME Len(fed) >= t, NEW k \in Len(fed) - t + 1 .. Len(fed)
        PROVE  k \in WGBad <=> fed[k].type = "bad"
    BY <1>1, <1>3 DEF WGBad
  <1>4. over <=> Len(fed) >= t /\ \A k \in Len(fed) - t + 1 .. Len(fed) : fed[k].type = "bad"
    BY <1>2, <1>3
  <1>5. fed # <<>> /\ Last(fed).type \notin {"bad", "handshake_initiation"} =>
           (reported[Last(fed).type].receiver_index_matched <=>
               Match(fed, Last(fed).rev, Last(fed).receiver))
    BY DEF WireGuardInv, Told, Answers, Last
  <1> QED
    BY <1>4, <1>5 DEF WireGuardTrue, OverIfBad, Match, Rank, Senders

-----------------------------------------------------------------------------
(***************************************************************************)
(* udpflow.  Counts, sums, runs and extremes of the history.               *)
(***************************************************************************)
Both == [tx : Nat, rx : Nat]

FlowState ==
    [packets : Both, bytes : Both, firstLen : Both, firstLens : Seq(Nat),
     minLen : Nat, maxLen : Nat, lenBuckets : [0..7 -> Nat],
     lastDirection : {"none", "tx", "rx"}, currentRun : Nat, maxRun : Nat, turns : Nat,
     started : Nat, lastSeen : Nat]

WayOf(rev) == IF rev THEN "rx" ELSE "tx"

LEMMA LargerIs ==
    ASSUME NEW a \in Nat, NEW b \in Nat
    PROVE  Larger(a, b) \in Nat /\ Larger(a, b) >= a /\ Larger(a, b) >= b /\ Larger(a, b) \in {a, b}
  BY DEF Larger

LEMMA FlowTypes ==
    ASSUME NEW s \in FlowState
    PROVE  /\ s.packets \in Both /\ s.bytes \in Both /\ s.firstLen \in Both
           /\ s.firstLens \in Seq(Nat) /\ s.minLen \in Nat /\ s.maxLen \in Nat
           /\ s.lenBuckets \in [0..7 -> Nat] /\ s.lastDirection \in {"none", "tx", "rx"}
           /\ s.currentRun \in Nat /\ s.maxRun \in Nat /\ s.turns \in Nat
           /\ s.started \in Nat /\ s.lastSeen \in Nat
  BY DEF FlowState

LEMMA DirectionFields ==
    ASSUME NEW s \in FlowState, NEW way \in {"tx", "rx"},
           NEW run, run = IF s.lastDirection = way THEN s.currentRun + 1 ELSE 1,
           NEW r, r = DirectionRun(s, way)
    PROVE  /\ r \in FlowState /\ run \in Nat
           /\ r.lastDirection = way /\ r.currentRun = run /\ r.maxRun = Larger(run, s.maxRun)
           /\ r.turns = IF s.lastDirection \in {"none", way} THEN s.turns ELSE s.turns + 1
           /\ r.packets = s.packets /\ r.bytes = s.bytes /\ r.firstLen = s.firstLen
           /\ r.firstLens = s.firstLens /\ r.minLen = s.minLen /\ r.maxLen = s.maxLen
           /\ r.lenBuckets = s.lenBuckets /\ r.started = s.started /\ r.lastSeen = s.lastSeen
  <1>0. /\ s.lastDirection \in {"none", "tx", "rx"} /\ s.currentRun \in Nat /\ s.maxRun \in Nat
        /\ s.turns \in Nat
    BY FlowTypes
  <1>1. run \in Nat
    BY <1>0
  <1>2. Larger(run, s.maxRun) \in Nat
    BY <1>0, <1>1, LargerIs
  <1> DEFINE turns == IF s.lastDirection \in {"none", way} THEN s.turns ELSE s.turns + 1
             longest == Larger(run, s.maxRun)
  <1>3. turns \in Nat
    BY <1>0
  <1>4. r = [s EXCEPT !.lastDirection = way, !.currentRun = run, !.maxRun = longest, !.turns = turns]
    BY DEF DirectionRun
  <1> HIDE DEF turns, longest
  <1>5. r \in FlowState
    BY <1>1, <1>2, <1>3, <1>4 DEF FlowState, longest
  <1>6. r.lastDirection = way /\ r.currentRun = run /\ r.maxRun = longest /\ r.turns = turns
    BY <1>4 DEF FlowState
  <1>7. /\ r.packets = s.packets /\ r.bytes = s.bytes /\ r.firstLen = s.firstLen
        /\ r.firstLens = s.firstLens /\ r.minLen = s.minLen /\ r.maxLen = s.maxLen
        /\ r.lenBuckets = s.lenBuckets /\ r.started = s.started /\ r.lastSeen = s.lastSeen
    BY <1>4 DEF FlowState
  <1> QED
    BY <1>1, <1>5, <1>6, <1>7 DEF turns, longest

\* LenBounds has 1024 in the sixth place.
LEMMA Bucket ==
    ASSUME NEW len \in Nat
    PROVE  LenBucket(len) \in 0..7 /\ (LenBucket(len) \in {6, 7} <=> len > 1024)
  <1> DEFINE B == {k \in DOMAIN LenBounds : LenBounds[k] < len}
  <1>1. /\ DOMAIN LenBounds = 1..7 /\ LenBounds[1] = 0 /\ LenBounds[2] = 64 /\ LenBounds[3] = 128
        /\ LenBounds[4] = 256 /\ LenBounds[5] = 512 /\ LenBounds[6] = 1024 /\ LenBounds[7] = 1200
    BY DEF LenBounds
  <1>2. \A n \in {5, 6, 7} : IsFiniteSet(1..n) /\ Cardinality(1..n) = n
    <2>1. ASSUME NEW n \in {5, 6, 7} PROVE IsFiniteSet(1..n) /\ Cardinality(1..n) = n
      <3>1. 1 \in Int /\ n \in Int
        OBVIOUS
      <3>2. IsFiniteSet(1..n) /\ Cardinality(1..n) = IF 1 > n THEN 0 ELSE n - 1 + 1
        BY <3>1, FS_Interval
      <3> QED
        BY <3>2
    <2> QED
      BY <2>1
  <1>3. B \subseteq 1..7 /\ IsFiniteSet(B) /\ Cardinality(B) \in Nat /\ Cardinality(B) <= 7
    <2>1. B \subseteq 1..7
      BY <1>1
    <2>2. IsFiniteSet(B) /\ Cardinality(B) <= Cardinality(1..7)
      BY <1>2, <2>1, FS_Subset
    <2> QED
      BY <1>2, <2>1, <2>2, FS_CardinalityType
  <1>4. ASSUME len > 1024 PROVE Cardinality(B) \in {6, 7}
    <2>1. 1..6 \subseteq B
      BY <1>1, <1>4
    <2>2. Cardinality(1..6) <= Cardinality(B)
      BY <1>3, <2>1, FS_Subset
    <2> QED
      BY <1>2, <1>3, <2>2
  <1>5. ASSUME ~(len > 1024) PROVE Cardinality(B) <= 5
    <2>1. \A k \in 1..7 : k \in 1..5 \/ k = 6 \/ k = 7
      OBVIOUS
    <2>2. B \subseteq 1..5
      BY <1>1, <1>5, <2>1
    <2>3. Cardinality(B) <= Cardinality(1..5)
      BY <1>2, <2>2, FS_Subset
    <2> QED
      BY <1>2, <2>3
  <1>6. LenBucket(len) = Cardinality(B)
    BY DEF LenBucket
  <1> HIDE DEF B
  <1> QED
    BY <1>3, <1>4, <1>5, <1>6

LEMMA FlowFields ==
    ASSUME NEW s \in FlowState, NEW p \in PacketType("udpflow"),
           NEW way, way = WayOf(p.rev), NEW run,
           run = IF s.lastDirection = way THEN s.currentRun + 1 ELSE 1,
           NEW t, t = UDPFlowFeed(s, p)
    PROVE  /\ t \in FlowState /\ run \in Nat
           /\ t.lastDirection = way /\ t.currentRun = run /\ t.maxRun = Larger(run, s.maxRun)
           /\ t.turns = IF s.lastDirection \in {"none", way} THEN s.turns ELSE s.turns + 1
           /\ t.packets = [s.packets EXCEPT ![way] = @ + 1]
           /\ t.bytes = [s.bytes EXCEPT ![way] = @ + p.len]
           /\ t.minLen = IF s.minLen = 0 \/ p.len < s.minLen THEN p.len ELSE s.minLen
           /\ t.maxLen = Larger(p.len, s.maxLen)
           /\ t.lenBuckets = [s.lenBuckets EXCEPT ![LenBucket(p.len)] = @ + 1]
           /\ t.started = (IF PacketCount(s) = 0 THEN p.time ELSE s.started) /\ t.lastSeen = p.time
  <1> DEFINE r == DirectionRun(s, way)
             started == IF PacketCount(s) = 0 THEN p.time ELSE r.started
             packets == [r.packets EXCEPT ![way] = @ + 1]
             bytes == [r.bytes EXCEPT ![way] = @ + p.len]
             firstLens == IF PacketCount(s) < 4 THEN Append(r.firstLens, p.len) ELSE r.firstLens
             firstLen == [r.firstLen EXCEPT ![way] = IF @ = 0 THEN p.len ELSE @]
             minLen == IF r.minLen = 0 \/ p.len < r.minLen THEN p.len ELSE r.minLen
             maxLen == Larger(p.len, r.maxLen)
             lenBuckets == [r.lenBuckets EXCEPT ![LenBucket(p.len)] = @ + 1]
  <1>1. p.rev \in BOOLEAN /\ p.len \in Nat /\ p.time \in Nat /\ way \in {"tx", "rx"}
    BY DEF PacketType, WayOf
  <1>2. t = [r EXCEPT !.started = started, !.lastSeen = p.time, !.packets = packets, !.bytes = bytes,
                      !.firstLens = firstLens, !.firstLen = firstLen, !.minLen = minLen,
                      !.maxLen = maxLen, !.lenBuckets = lenBuckets]
    BY DEF UDPFlowFeed, WayOf
  <1> HIDE DEF r
  <1>3. /\ r \in FlowState /\ run \in Nat
        /\ r.lastDirection = way /\ r.currentRun = run /\ r.maxRun = Larger(run, s.maxRun)
        /\ r.turns = IF s.lastDirection \in {"none", way} THEN s.turns ELSE s.turns + 1
        /\ r.packets = s.packets /\ r.bytes = s.bytes /\ r.firstLen = s.firstLen
        /\ r.firstLens = s.firstLens /\ r.minLen = s.minLen /\ r.maxLen = s.maxLen
        /\ r.lenBuckets = s.lenBuckets /\ r.started = s.started /\ r.lastSeen = s.lastSeen
    BY <1>1, DirectionFields DEF r
  <1>4. /\ packets \in Both /\ bytes \in Both /\ firstLen \in Both
        /\ firstLens \in Seq(Nat) /\ minLen \in Nat /\ started \in Nat
    <2>1. /\ r.packets \in Both /\ r.bytes \in Both /\ r.firstLen \in Both
          /\ r.firstLens \in Seq(Nat) /\ r.minLen \in Nat /\ r.started \in Nat
      BY <1>3, FlowTypes
    <2>2. ASSUME NEW b \in Both, NEW n \in Nat PROVE [b EXCEPT ![way] = n] \in Both /\ b[way] \in Nat
      BY <1>1 DEF Both
    <2>c. ASSUME NEW b \in Both, NEW n \in Nat PROVE [b EXCEPT ![way] = @ + n] \in Both
      <3>1. CASE way = "tx"
        BY <3>1 DEF Both
      <3>2. CASE way = "rx"
        BY <3>2 DEF Both
      <3> QED
        BY <1>1, <3>1, <3>2
    <2>3. packets \in Both
      <3>1. 1 \in Nat
        OBVIOUS
      <3> QED
        BY <2>1, <2>c, <3>1
    <2>4. bytes \in Both
      BY <1>1, <2>1, <2>c
    <2>5. firstLen \in Both
      BY <1>1, <2>1, <2>2
    <2>6. firstLens \in Seq(Nat)
      BY <1>1, <2>1
    <2>7. minLen \in Nat /\ started \in Nat
      BY <1>1, <2>1
    <2> QED
      BY <2>3, <2>4, <2>5, <2>6, <2>7
  <1>5. maxLen \in Nat /\ lenBuckets \in [0..7 -> Nat]
    <2>1. r.maxLen \in Nat /\ r.lenBuckets \in [0..7 -> Nat] /\ LenBucket(p.len) \in 0..7
      <3>1. r.maxLen \in Nat /\ r.lenBuckets \in [0..7 -> Nat]
        BY <1>3, FlowTypes
      <3>2. LenBucket(p.len) \in 0..7
        BY <1>1, Bucket
      <3> QED
        BY <3>1, <3>2
    <2>2. maxLen \in Nat
      BY <1>1, <2>1, LargerIs
    <2>3. lenBuckets \in [0..7 -> Nat]
      BY <2>1
    <2> QED
      BY <2>2, <2>3
  <1>6. /\ packets = [s.packets EXCEPT ![way] = @ + 1]
        /\ bytes = [s.bytes EXCEPT ![way] = @ + p.len]
        /\ minLen = IF s.minLen = 0 \/ p.len < s.minLen THEN p.len ELSE s.minLen
        /\ maxLen = Larger(p.len, s.maxLen)
        /\ lenBuckets = [s.lenBuckets EXCEPT ![LenBucket(p.len)] = @ + 1]
        /\ started = (IF PacketCount(s) = 0 THEN p.time ELSE s.started)
    BY <1>3
  <1> HIDE DEF started, packets, bytes, firstLens, firstLen, minLen, maxLen, lenBuckets
  <1>7. t \in FlowState
    <2> DEFINE r1 == [r EXCEPT !.started = started, !.lastSeen = p.time, !.packets = packets]
               r2 == [r1 EXCEPT !.bytes = bytes, !.firstLens = firstLens, !.firstLen = firstLen]
               r3 == [r2 EXCEPT !.minLen = minLen, !.maxLen = maxLen, !.lenBuckets = lenBuckets]
    <2>1. r \in FlowState /\ p.time \in Nat
      BY <1>1, <1>3
    <2>2. r1 \in FlowState
      BY <1>4, <2>1 DEF FlowState
    <2>3. t = r3
      BY <1>2
    <2> HIDE DEF r1
    <2>4. r2 \in FlowState
      BY <1>4, <2>2 DEF FlowState
    <2> HIDE DEF r2
    <2>5. r3 \in FlowState
      BY <1>4, <1>5, <2>4 DEF FlowState
    <2> QED
      BY <2>3, <2>5
  <1>8. /\ t.lastDirection = r.lastDirection /\ t.currentRun = r.currentRun /\ t.maxRun = r.maxRun
        /\ t.turns = r.turns
    BY <1>2, <1>3 DEF FlowState
  <1>9. /\ t.packets = packets /\ t.bytes = bytes /\ t.minLen = minLen /\ t.maxLen = maxLen
        /\ t.lenBuckets = lenBuckets /\ t.started = started /\ t.lastSeen = p.time
    BY <1>2, <1>3 DEF FlowState
  <1> QED
    BY <1>3, <1>6, <1>7, <1>8, <1>9

OfWay(packets, rev) == {k \in DOMAIN packets : packets[k].rev = rev}
TurnsOf(packets) == {k \in DOMAIN packets : k > 1 /\ packets[k].rev # packets[k - 1].rev}
LargeOf(packets) == {k \in DOMAIN packets : packets[k].len > 1024}
LengthsOf(packets) == [k \in DOMAIN packets |-> packets[k].len]
RunIn(packets, i, j) == i <= j /\ \A k \in i..j : packets[k].rev = packets[j].rev

FlowCounts(s, packets) ==
    /\ s.packets.tx = Cardinality(OfWay(packets, FALSE))
    /\ s.packets.rx = Cardinality(OfWay(packets, TRUE))
    /\ s.packets.tx + s.packets.rx = Len(packets)

FlowSums(s, packets) ==
    /\ s.bytes.tx = SumFunctionOnSet(LengthsOf(packets), OfWay(packets, FALSE))
    /\ s.bytes.rx = SumFunctionOnSet(LengthsOf(packets), OfWay(packets, TRUE))

FlowTurns(s, packets) == s.turns = Cardinality(TurnsOf(packets))

\* The run the last packet is in.
FlowRun(s, packets) ==
    LET n == Len(packets)
    IN IF n = 0 THEN s.lastDirection = "none"
       ELSE /\ s.lastDirection = WayOf(packets[n].rev) /\ s.currentRun \in 1..n
            /\ \A k \in n - s.currentRun + 1 .. n : packets[k].rev = packets[n].rev
            /\ s.currentRun < n => packets[n - s.currentRun].rev # packets[n].rev

FlowMaxRun(s, packets) ==
    /\ packets = <<>> => s.maxRun = 0
    /\ \A i, j \in DOMAIN packets : RunIn(packets, i, j) => j - i + 1 <= s.maxRun
    /\ packets # <<>> => \E i, j \in DOMAIN packets : RunIn(packets, i, j) /\ j - i + 1 = s.maxRun

\* The packets behind the last empty one.
SinceOf(packets) == {k \in DOMAIN packets : \A j \in k..Len(packets) : packets[j].len # 0}

FlowSizes(s, packets) ==
    /\ \A k \in DOMAIN packets : packets[k].len <= s.maxLen
    /\ SinceOf(packets) = {} => s.minLen = 0
    /\ SinceOf(packets) # {} => \E k \in SinceOf(packets) : s.minLen = packets[k].len
    /\ \A k \in SinceOf(packets) : s.minLen <= packets[k].len

FlowLarge(s, packets) == s.lenBuckets[6] + s.lenBuckets[7] = Cardinality(LargeOf(packets))

FlowTimes(s, packets) ==
    packets # <<>> => s.started = packets[1].time /\ s.lastSeen = packets[Len(packets)].time

\* A set of numbers up to n and n + 1.
LEMMA Grows ==
    ASSUME NEW n \in Nat, NEW A \in SUBSET (1..n)
    PROVE  /\ IsFiniteSet(A) /\ Cardinality(A) \in Nat /\ n + 1 \notin A
           /\ Cardinality(A \cup {n + 1}) = Cardinality(A) + 1
  <1>1. IsFiniteSet(1..n)
    BY FS_Interval
  <1>2. IsFiniteSet(A)
    BY <1>1, FS_Subset
  <1>3. n + 1 \notin A
    OBVIOUS
  <1> QED
    BY <1>2, <1>3, FS_CardinalityType, FS_AddElement

LEMMA WaysIn ==
    ASSUME NEW T, NEW f \in Seq(T), NEW rev \in BOOLEAN
    PROVE  OfWay(f, rev) \in SUBSET (1..Len(f)) /\ Len(f) \in Nat
  BY DEF OfWay

LEMMA WayGrows ==
    ASSUME NEW T, NEW f \in Seq(T), NEW p \in T
    PROVE  OfWay(Append(f, p), p.rev) = OfWay(f, p.rev) \cup {Len(f) + 1}
  <1>1. /\ Len(f) \in Nat /\ DOMAIN f = 1..Len(f) /\ DOMAIN Append(f, p) = 1..Len(f) + 1
        /\ Append(f, p)[Len(f) + 1] = p /\ \A k \in 1..Len(f) : Append(f, p)[k] = f[k]
    BY OneMore
  <1> DEFINE g == Append(f, p)
             n == Len(f)
  <1> HIDE DEF g, n
  <1> QED
    BY <1>1 DEF OfWay, g, n

LEMMA WayStays ==
    ASSUME NEW T, NEW f \in Seq(T), NEW p \in T,
           NEW rev \in BOOLEAN, rev # p.rev
    PROVE  OfWay(Append(f, p), rev) = OfWay(f, rev)
  <1>1. /\ Len(f) \in Nat /\ DOMAIN f = 1..Len(f) /\ DOMAIN Append(f, p) = 1..Len(f) + 1
        /\ Append(f, p)[Len(f) + 1] = p /\ \A k \in 1..Len(f) : Append(f, p)[k] = f[k]
    BY OneMore
  <1> QED
    BY <1>1 DEF OfWay

LEMMA LargeIn ==
    ASSUME NEW f \in Seq(PacketType("udpflow"))
    PROVE  LargeOf(f) \in SUBSET (1..Len(f)) /\ Len(f) \in Nat
  BY DEF LargeOf

LEMMA LargeGrows ==
    ASSUME NEW f \in Seq(PacketType("udpflow")), NEW p \in PacketType("udpflow")
    PROVE  LargeOf(Append(f, p)) = IF p.len > 1024 THEN LargeOf(f) \cup {Len(f) + 1} ELSE LargeOf(f)
  <1>1. /\ Len(f) \in Nat /\ DOMAIN f = 1..Len(f) /\ DOMAIN Append(f, p) = 1..Len(f) + 1
        /\ Append(f, p)[Len(f) + 1] = p /\ \A k \in 1..Len(f) : Append(f, p)[k] = f[k]
    BY OneMore
  <1> DEFINE Big(q) == q.len > 1024
  <1>2. /\ LargeOf(f) = {k \in DOMAIN f : Big(f[k])}
        /\ LargeOf(Append(f, p)) = {k \in DOMAIN Append(f, p) : Big(Append(f, p)[k])}
    BY DEF LargeOf
  <1> HIDE DEF Big
  <1>3. CASE Big(p)
    <2>1. LargeOf(Append(f, p)) = LargeOf(f) \cup {Len(f) + 1}
      BY <1>1, <1>2, <1>3
    <2> QED
      BY <1>3, <2>1 DEF Big
  <1>4. CASE ~Big(p)
    <2>1. LargeOf(Append(f, p)) = LargeOf(f)
      BY <1>1, <1>2, <1>4
    <2> QED
      BY <1>4, <2>1 DEF Big
  <1> QED
    BY <1>3, <1>4

LEMMA CountsMore ==
    ASSUME NEW f \in Seq(PacketType("udpflow")), NEW p \in PacketType("udpflow"),
           NEW s \in FlowState, FlowCounts(s, f),
           NEW t, t.packets = [s.packets EXCEPT ![WayOf(p.rev)] = @ + 1]
    PROVE  FlowCounts(t, Append(f, p))
  <1>0. Len(f) \in Nat /\ Len(Append(f, p)) = Len(f) + 1 /\ s.packets \in Both /\ p.rev \in BOOLEAN
    BY OneMore, FlowTypes DEF PacketType
  <1>a. ASSUME NEW rev \in BOOLEAN
        PROVE  Cardinality(OfWay(Append(f, p), rev)) =
                  IF p.rev = rev THEN Cardinality(OfWay(f, rev)) + 1 ELSE Cardinality(OfWay(f, rev))
    <2>1. CASE p.rev = rev
      <3>1. OfWay(f, rev) \in SUBSET (1..Len(f)) /\ Len(f) \in Nat
        BY WaysIn
      <3>2. OfWay(Append(f, p), rev) = OfWay(f, rev) \cup {Len(f) + 1}
        BY <2>1, WayGrows
      <3>3. Cardinality(OfWay(f, rev) \cup {Len(f) + 1}) = Cardinality(OfWay(f, rev)) + 1
        BY <3>1, Grows
      <3> QED
        BY <2>1, <3>2, <3>3
    <2>2. CASE p.rev # rev
      BY <2>2, WayStays
    <2> QED
      BY <2>1, <2>2
  <1>b. /\ s.packets.tx \in Nat /\ s.packets.rx \in Nat
        /\ s.packets.tx = Cardinality(OfWay(f, FALSE)) /\ s.packets.rx = Cardinality(OfWay(f, TRUE))
        /\ s.packets.tx + s.packets.rx = Len(f)
    BY <1>0 DEF Both, FlowCounts
  <1>1. CASE p.rev = TRUE
    <2>1. /\ Cardinality(OfWay(Append(f, p), TRUE)) = Cardinality(OfWay(f, TRUE)) + 1
          /\ Cardinality(OfWay(Append(f, p), FALSE)) = Cardinality(OfWay(f, FALSE))
      BY <1>1, <1>a
    <2>2. t.packets.rx = s.packets.rx + 1 /\ t.packets.tx = s.packets.tx
      BY <1>0, <1>1 DEF WayOf, Both
    <2>3. t.packets.tx + t.packets.rx = Len(f) + 1
      <3> DEFINE tx == s.packets.tx
                 rx == s.packets.rx
      <3>1. tx \in Nat /\ rx \in Nat /\ tx + rx = Len(f)
        BY <1>b
      <3> HIDE DEF tx, rx
      <3>2. (tx + 1) + rx = Len(f) + 1 /\ tx + (rx + 1) = Len(f) + 1
        BY <3>1
      <3> QED
        BY <2>2, <3>2 DEF tx, rx
    <2>4. /\ t.packets.tx = Cardinality(OfWay(Append(f, p), FALSE))
          /\ t.packets.rx = Cardinality(OfWay(Append(f, p), TRUE))
      BY <1>b, <2>1, <2>2
    <2> QED
      BY <1>0, <2>3, <2>4 DEF FlowCounts
  <1>2. CASE p.rev = FALSE
    <2>1. /\ Cardinality(OfWay(Append(f, p), FALSE)) = Cardinality(OfWay(f, FALSE)) + 1
          /\ Cardinality(OfWay(Append(f, p), TRUE)) = Cardinality(OfWay(f, TRUE))
      BY <1>2, <1>a
    <2>2. t.packets.tx = s.packets.tx + 1 /\ t.packets.rx = s.packets.rx
      BY <1>0, <1>2 DEF WayOf, Both
    <2>3. t.packets.tx + t.packets.rx = Len(f) + 1
      <3> DEFINE tx == s.packets.tx
                 rx == s.packets.rx
      <3>1. tx \in Nat /\ rx \in Nat /\ tx + rx = Len(f)
        BY <1>b
      <3> HIDE DEF tx, rx
      <3>2. (tx + 1) + rx = Len(f) + 1 /\ tx + (rx + 1) = Len(f) + 1
        BY <3>1
      <3> QED
        BY <2>2, <3>2 DEF tx, rx
    <2>4. /\ t.packets.tx = Cardinality(OfWay(Append(f, p), FALSE))
          /\ t.packets.rx = Cardinality(OfWay(Append(f, p), TRUE))
      BY <1>b, <2>1, <2>2
    <2> QED
      BY <1>0, <2>3, <2>4 DEF FlowCounts
  <1> QED
    BY <1>0, <1>1, <1>2

\* Lengths of a set of packets stay with the next one behind them.
LEMMA LengthsIn ==
    ASSUME NEW f \in Seq(PacketType("udpflow")), NEW p \in PacketType("udpflow"),
           NEW k \in 1..Len(f)
    PROVE  LengthsOf(f)[k] \in Nat /\ LengthsOf(f)[k] = LengthsOf(Append(f, p))[k]
  <1>1. /\ Len(f) \in Nat /\ DOMAIN f = 1..Len(f) /\ DOMAIN Append(f, p) = 1..Len(f) + 1
        /\ \A i \in 1..Len(f) : Append(f, p)[i] = f[i]
    BY OneMore
  <1>2. f[k] \in PacketType("udpflow")
    BY <1>1
  <1>3. f[k].len \in Nat
    BY <1>2 DEF PacketType
  <1> QED
    BY <1>1, <1>3 DEF LengthsOf

LEMMA LengthLast ==
    ASSUME NEW f \in Seq(PacketType("udpflow")), NEW p \in PacketType("udpflow")
    PROVE  LengthsOf(Append(f, p))[Len(f) + 1] = p.len /\ p.len \in Nat
  <1>1. /\ Len(f) \in Nat /\ DOMAIN Append(f, p) = 1..Len(f) + 1 /\ Append(f, p)[Len(f) + 1] = p
    BY OneMore
  <1> QED
    BY <1>1 DEF LengthsOf, PacketType

LEMMA LengthsStay ==
    ASSUME NEW f \in Seq(PacketType("udpflow")), NEW p \in PacketType("udpflow"),
           NEW A \in SUBSET (1..Len(f))
    PROVE  SumFunctionOnSet(LengthsOf(Append(f, p)), A) = SumFunctionOnSet(LengthsOf(f), A)
  <1>1. Len(f) \in Nat
    OBVIOUS
  <1>2. IsFiniteSet(A)
    BY <1>1, Grows
  <1> DEFINE v == LengthsOf(f)
             w == LengthsOf(Append(f, p))
  <1>3. \A k \in A : v[k] \in Nat /\ v[k] = w[k]
    BY LengthsIn
  <1> HIDE DEF v, w
  <1>4. SumFunctionOnSet(v, A) = SumFunctionOnSet(w, A)
    BY <1>2, <1>3, SumSame
  <1> QED
    BY <1>4 DEF v, w

LEMMA LengthsGrow ==
    ASSUME NEW f \in Seq(PacketType("udpflow")), NEW p \in PacketType("udpflow"),
           NEW A \in SUBSET (1..Len(f))
    PROVE  SumFunctionOnSet(LengthsOf(Append(f, p)), A \cup {Len(f) + 1})
              = SumFunctionOnSet(LengthsOf(f), A) + p.len
  <1>1. Len(f) \in Nat
    OBVIOUS
  <1>2. IsFiniteSet(A) /\ Len(f) + 1 \notin A
    BY <1>1, Grows
  <1> DEFINE v == LengthsOf(f)
             w == LengthsOf(Append(f, p))
             x == Len(f) + 1
  <1>3. \A k \in A : v[k] \in Nat /\ v[k] = w[k]
    BY LengthsIn
  <1>5. w[x] = p.len /\ w[x] \in Nat
    BY LengthLast
  <1>6. IsFiniteSet(A) /\ x \notin A
    BY <1>2
  <1>7. w[x] \in Nat
    BY <1>5
  <1> HIDE DEF v, w, x
  <1>8. SumFunctionOnSet(w, A \cup {x}) = SumFunctionOnSet(v, A) + w[x]
    BY <1>3, <1>6, <1>7, SumAdd, Zenon
  <1> QED
    BY <1>5, <1>8 DEF v, w, x

LEMMA SumsMore ==
    ASSUME NEW f \in Seq(PacketType("udpflow")), NEW p \in PacketType("udpflow"),
           NEW s \in FlowState, FlowSums(s, f),
           NEW t, t.bytes = [s.bytes EXCEPT ![WayOf(p.rev)] = @ + p.len]
    PROVE  FlowSums(t, Append(f, p))
  <1>0. s.bytes \in Both /\ p.rev \in BOOLEAN
    BY FlowTypes DEF PacketType
  <1> DEFINE Total(g, rev) == SumFunctionOnSet(LengthsOf(g), OfWay(g, rev))
  <1>a. ASSUME NEW rev \in BOOLEAN
        PROVE  Total(Append(f, p), rev) = IF p.rev = rev THEN Total(f, rev) + p.len ELSE Total(f, rev)
    <2>0. OfWay(f, rev) \in SUBSET (1..Len(f))
      BY WaysIn
    <2>1. CASE p.rev = rev
      <3>1. OfWay(Append(f, p), rev) = OfWay(f, rev) \cup {Len(f) + 1}
        BY <2>1, WayGrows
      <3>2. SumFunctionOnSet(LengthsOf(Append(f, p)), OfWay(f, rev) \cup {Len(f) + 1})
              = SumFunctionOnSet(LengthsOf(f), OfWay(f, rev)) + p.len
        BY <2>0, LengthsGrow
      <3> QED
        BY <2>1, <3>1, <3>2
    <2>2. CASE p.rev # rev
      <3>1. OfWay(Append(f, p), rev) = OfWay(f, rev)
        BY <2>2, WayStays
      <3>2. SumFunctionOnSet(LengthsOf(Append(f, p)), OfWay(f, rev))
              = SumFunctionOnSet(LengthsOf(f), OfWay(f, rev))
        BY <2>0, LengthsStay
      <3> QED
        BY <2>2, <3>1, <3>2
    <2> QED
      BY <2>1, <2>2
  <1>b. s.bytes.tx = Total(f, FALSE) /\ s.bytes.rx = Total(f, TRUE)
    BY DEF FlowSums
  <1>c. t.bytes.tx = Total(Append(f, p), FALSE) /\ t.bytes.rx = Total(Append(f, p), TRUE)
    <2> HIDE DEF Total
    <2>1. CASE p.rev = TRUE
      <3>1. t.bytes.rx = s.bytes.rx + p.len /\ t.bytes.tx = s.bytes.tx
        BY <1>0, <2>1 DEF WayOf, Both
      <3>2. Total(Append(f, p), TRUE) = Total(f, TRUE) + p.len /\ Total(Append(f, p), FALSE) = Total(f, FALSE)
        BY <1>a, <2>1
      <3> QED
        BY <1>b, <3>1, <3>2
    <2>2. CASE p.rev = FALSE
      <3>1. t.bytes.tx = s.bytes.tx + p.len /\ t.bytes.rx = s.bytes.rx
        BY <1>0, <2>2 DEF WayOf, Both
      <3>2. Total(Append(f, p), FALSE) = Total(f, FALSE) + p.len /\ Total(Append(f, p), TRUE) = Total(f, TRUE)
        BY <1>a, <2>2
      <3> QED
        BY <1>b, <3>1, <3>2
    <2> QED
      BY <1>0, <2>1, <2>2
  <1> QED
    BY <1>c DEF FlowSums

LEMMA LargeMore ==
    ASSUME NEW f \in Seq(PacketType("udpflow")), NEW p \in PacketType("udpflow"),
           NEW s \in FlowState, FlowLarge(s, f),
           NEW t, t.lenBuckets = [s.lenBuckets EXCEPT ![LenBucket(p.len)] = @ + 1]
    PROVE  FlowLarge(t, Append(f, p))
  <1> DEFINE b == LenBucket(p.len)
  <1>1. s.lenBuckets \in [0..7 -> Nat] /\ p.len \in Nat
    BY FlowTypes DEF PacketType
  <1>2. b \in 0..7 /\ (b \in {6, 7} <=> p.len > 1024)
    BY <1>1, Bucket
  <1>3. LargeOf(Append(f, p)) = IF p.len > 1024 THEN LargeOf(f) \cup {Len(f) + 1} ELSE LargeOf(f)
    BY LargeGrows
  <1>4. LargeOf(f) \in SUBSET (1..Len(f)) /\ Len(f) \in Nat
    BY LargeIn
  <1>5. Cardinality(LargeOf(f) \cup {Len(f) + 1}) = Cardinality(LargeOf(f)) + 1
    BY <1>4, Grows
  <1> HIDE DEF b
  <1>6. t.lenBuckets = [s.lenBuckets EXCEPT ![b] = @ + 1]
    BY DEF b
  <1> DEFINE six == s.lenBuckets[6]
             seven == s.lenBuckets[7]
  <1>7. six \in Nat /\ seven \in Nat
    BY <1>1
  <1>8. /\ b = 6 => t.lenBuckets[6] = six + 1 /\ t.lenBuckets[7] = seven
        /\ b = 7 => t.lenBuckets[6] = six /\ t.lenBuckets[7] = seven + 1
        /\ b \notin {6, 7} => t.lenBuckets[6] = six /\ t.lenBuckets[7] = seven
    <2>1. ASSUME NEW k \in 0..7 PROVE t.lenBuckets[k] = IF k = b THEN s.lenBuckets[k] + 1 ELSE s.lenBuckets[k]
      BY <1>1, <1>2, <1>6
    <2>2. 6 \in 0..7 /\ 7 \in 0..7
      OBVIOUS
    <2> QED
      BY <2>1, <2>2
  <1>9. six + seven = Cardinality(LargeOf(f))
    BY DEF FlowLarge
  <1> HIDE DEF six, seven
  <1>10. CASE p.len > 1024
    <2>1. t.lenBuckets[6] + t.lenBuckets[7] = (six + seven) + 1
      BY <1>2, <1>7, <1>8, <1>10
    <2> QED
      BY <1>3, <1>5, <1>9, <1>10, <2>1 DEF FlowLarge
  <1>11. CASE ~(p.len > 1024)
    <2>1. t.lenBuckets[6] + t.lenBuckets[7] = six + seven
      BY <1>2, <1>8, <1>11
    <2> QED
      BY <1>3, <1>9, <1>11, <2>1 DEF FlowLarge
  <1> QED
    BY <1>10, <1>11

LEMMA TurnsMore ==
    ASSUME NEW f \in Seq(PacketType("udpflow")), NEW p \in PacketType("udpflow"),
           NEW s \in FlowState, FlowTurns(s, f), FlowRun(s, f),
           NEW t, t.turns = IF s.lastDirection \in {"none", WayOf(p.rev)} THEN s.turns ELSE s.turns + 1
    PROVE  FlowTurns(t, Append(f, p))
  <1> DEFINE n == Len(f)
             g == Append(f, p)
  <1>1. /\ n \in Nat /\ DOMAIN f = 1..n /\ DOMAIN g = 1..n + 1
        /\ g[n + 1] = p /\ \A k \in 1..n : g[k] = f[k]
    BY OneMore
  <1>2. TurnsOf(f) \in SUBSET (1..n)
    BY <1>1 DEF TurnsOf
  <1>a. ASSUME NEW k \in 1..n PROVE k \in TurnsOf(g) <=> k \in TurnsOf(f)
    <2>1. k \in 1..n + 1 /\ (k > 1 => k - 1 \in 1..n)
      BY <1>1
    <2> HIDE DEF n, g
    <2> QED
      BY <1>1, <2>1 DEF TurnsOf
  <1>3. Cardinality(TurnsOf(f) \cup {n + 1}) = Cardinality(TurnsOf(f)) + 1
    BY <1>1, <1>2, Grows
  <1>4. TurnsOf(g) \in SUBSET (1..n + 1)
    BY <1>1 DEF TurnsOf
  <1>b. \A k \in 1..n + 1 : k \in 1..n \/ k = n + 1
    BY <1>1
  <1>c. \A k \in 1..n : k \in 1..n + 1
    BY <1>1
  <1>6. n + 1 \in TurnsOf(g) <=> s.lastDirection \notin {"none", WayOf(p.rev)}
    <2>1. CASE n = 0
      BY <1>1, <2>1 DEF TurnsOf, FlowRun
    <2>2. CASE n # 0
      <3>1. f[n] \in PacketType("udpflow") /\ n \in 1..n /\ (n + 1) - 1 = n
        BY <1>1, <2>2
      <3>2. f[n].rev \in BOOLEAN /\ p.rev \in BOOLEAN
        BY <3>1 DEF PacketType
      <3>3. n + 1 \in TurnsOf(g) <=> p.rev # f[n].rev
        BY <1>1, <2>2, <3>1 DEF TurnsOf
      <3>4. s.lastDirection = WayOf(f[n].rev)
        BY <2>2 DEF FlowRun
      <3> QED
        BY <3>2, <3>3, <3>4 DEF WayOf
    <2> QED
      BY <2>1, <2>2
  <1>7. CASE n + 1 \in TurnsOf(g)
    <2>1. TurnsOf(g) = TurnsOf(f) \cup {n + 1}
      <3> HIDE DEF n, g
      <3> QED
        BY <1>2, <1>4, <1>7, <1>a, <1>b, <1>c
    <2>2. t.turns = s.turns + 1
      BY <1>6, <1>7
    <2> QED
      BY <1>3, <2>1, <2>2 DEF FlowTurns
  <1>8. CASE n + 1 \notin TurnsOf(g)
    <2>1. TurnsOf(g) = TurnsOf(f)
      <3> HIDE DEF n, g
      <3> QED
        BY <1>2, <1>4, <1>8, <1>a, <1>b, <1>c
    <2>2. t.turns = s.turns
      BY <1>6, <1>8
    <2> QED
      BY <2>1, <2>2 DEF FlowTurns
  <1> QED
    BY <1>7, <1>8

\* The packets of f are those of Append(f, p) but the last.
LEMMA OneMoreFlow ==
    ASSUME NEW f \in Seq(PacketType("udpflow")), NEW p \in PacketType("udpflow"),
           NEW n, n = Len(f), NEW g, g = Append(f, p)
    PROVE  /\ n \in Nat /\ Len(g) = n + 1 /\ DOMAIN f = 1..n /\ DOMAIN g = 1..n + 1
           /\ g[n + 1] = p /\ (\A k \in 1..n : g[k] = f[k])
           /\ (f = <<>> <=> n = 0) /\ g # <<>> /\ (\A k \in 1..n + 1 : k \in 1..n \/ k = n + 1)
           /\ (\A k \in 1..n : k \in 1..n + 1) /\ n + 1 \in 1..n + 1
  <1>1. /\ n \in Nat /\ Len(g) = n + 1 /\ DOMAIN f = 1..n /\ DOMAIN g = 1..n + 1
        /\ g[n + 1] = p /\ \A k \in 1..n : g[k] = f[k]
    BY OneMore
  <1>2. (f = <<>> <=> n = 0) /\ g # <<>>
    BY <1>1
  <1>3. /\ \A k \in 1..n + 1 : k \in 1..n \/ k = n + 1
        /\ (\A k \in 1..n : k \in 1..n + 1) /\ n + 1 \in 1..n + 1
    BY <1>1
  <1> QED
    BY <1>1, <1>2, <1>3

LEMMA FlowPackets ==
    ASSUME NEW f \in Seq(PacketType("udpflow")), NEW k \in 1..Len(f)
    PROVE  f[k] \in PacketType("udpflow") /\ f[k].rev \in BOOLEAN /\ f[k].len \in Nat /\ f[k].time \in Nat
  <1>1. f[k] \in PacketType("udpflow")
    OBVIOUS
  <1> QED
    BY <1>1 DEF PacketType

LEMMA RunMore ==
    ASSUME NEW f \in Seq(PacketType("udpflow")), NEW p \in PacketType("udpflow"),
           NEW s \in FlowState, FlowRun(s, f),
           NEW t, t.lastDirection = WayOf(p.rev),
           t.currentRun = IF s.lastDirection = WayOf(p.rev) THEN s.currentRun + 1 ELSE 1
    PROVE  FlowRun(t, Append(f, p))
  <1> DEFINE n == Len(f)
             g == Append(f, p)
             c == s.currentRun
  <1>1. /\ n \in Nat /\ Len(g) = n + 1 /\ DOMAIN f = 1..n /\ DOMAIN g = 1..n + 1
        /\ g[n + 1] = p /\ \A k \in 1..n : g[k] = f[k]
    BY OneMore
  <1>2. p.rev \in BOOLEAN
    BY DEF PacketType
  <1>3. CASE n # 0 /\ p.rev = f[n].rev
    <2>1. /\ s.lastDirection = WayOf(p.rev) /\ c \in 1..n
          /\ \A k \in n - c + 1 .. n : f[k].rev = f[n].rev
          /\ c < n => f[n - c].rev # f[n].rev
      BY <1>3 DEF FlowRun
    <2>2. t.currentRun = c + 1
      BY <2>1
    <2>3. (n + 1) - (c + 1) = n - c /\ (n - c) + 1 = n - c + 1 /\ c \in Nat /\ c <= n
      BY <1>1, <2>1
    <2> HIDE DEF c, n, g
    <2>4. ASSUME NEW k \in (n + 1) - (c + 1) + 1 .. n + 1 PROVE g[k].rev = g[n + 1].rev
      <3>1. k = n + 1 \/ (k \in n - c + 1 .. n /\ k \in 1..n)
        BY <1>1, <2>3
      <3> QED
        BY <1>1, <1>3, <2>1, <3>1
    <2>5. ASSUME c + 1 < n + 1 PROVE g[(n + 1) - (c + 1)].rev # g[n + 1].rev
      <3>1. c < n /\ n - c \in 1..n
        BY <1>1, <2>1, <2>5
      <3> QED
        BY <1>1, <1>3, <2>1, <2>3, <3>1
    <2>6. c + 1 \in 1..n + 1 /\ n + 1 # 0
      BY <1>1, <2>1
    <2> QED
      BY <1>1, <2>2, <2>4, <2>5, <2>6 DEF FlowRun, g
  <1>4. CASE ~(n # 0 /\ p.rev = f[n].rev)
    <2>1. s.lastDirection # WayOf(p.rev)
      <3>1. CASE n = 0
        BY <3>1 DEF FlowRun, WayOf
      <3>2. CASE n # 0
        <4>1. s.lastDirection = WayOf(f[n].rev) /\ n \in 1..Len(f)
          BY <1>1, <3>2 DEF FlowRun
        <4>2. f[n].rev \in BOOLEAN
          BY <4>1, FlowPackets
        <4> QED
          BY <1>2, <1>4, <3>2, <4>1, <4>2 DEF WayOf
      <3> QED
        BY <3>1, <3>2
    <2>2. t.currentRun = 1
      BY <2>1
    <2> HIDE DEF n, g
    <2>3. 1 < n + 1 => g[(n + 1) - 1].rev # g[n + 1].rev
      <3> SUFFICES ASSUME 1 < n + 1 PROVE g[n].rev # g[n + 1].rev
        BY <1>1
      <3>1. n \in 1..n /\ n # 0
        BY <1>1
      <3> QED
        BY <1>1, <1>4, <3>1
    <2>4. 1 \in 1..n + 1 /\ n + 1 # 0 /\ \A k \in (n + 1) - 1 + 1 .. n + 1 : k = n + 1
      BY <1>1
    <2> QED
      BY <1>1, <2>2, <2>3, <2>4 DEF FlowRun, g
  <1> QED
    BY <1>3, <1>4

LEMMA MaxRunMore ==
    ASSUME NEW f \in Seq(PacketType("udpflow")), NEW p \in PacketType("udpflow"),
           NEW s \in FlowState, FlowMaxRun(s, f),
           NEW t, FlowRun(t, Append(f, p)), t.maxRun = Larger(t.currentRun, s.maxRun)
    PROVE  FlowMaxRun(t, Append(f, p))
  <1> DEFINE n == Len(f)
             g == Append(f, p)
             c == t.currentRun
  <1>1. /\ n \in Nat /\ Len(g) = n + 1 /\ DOMAIN f = 1..n /\ DOMAIN g = 1..n + 1
        /\ g[n + 1] = p /\ (\A k \in 1..n : g[k] = f[k])
        /\ (f = <<>> <=> n = 0) /\ g # <<>> /\ (\A k \in 1..n + 1 : k \in 1..n \/ k = n + 1)
        /\ (\A k \in 1..n : k \in 1..n + 1) /\ n + 1 \in 1..n + 1
    BY OneMoreFlow
  <1>2. n + 1 # 0
    BY <1>1
  <1>3. /\ c \in 1..n + 1
        /\ \A k \in (n + 1) - c + 1 .. n + 1 : g[k].rev = g[n + 1].rev
        /\ c < n + 1 => g[(n + 1) - c].rev # g[n + 1].rev
    BY <1>1, <1>2 DEF FlowRun
  <1>4. s.maxRun \in Nat /\ c \in Nat
    BY <1>1, <1>3, FlowTypes
  <1>5. t.maxRun \in Nat /\ t.maxRun >= c /\ t.maxRun >= s.maxRun /\ t.maxRun \in {c, s.maxRun}
    BY <1>4, LargerIs
  <1>6. ASSUME NEW i \in 1..n, NEW j \in 1..n
        PROVE  RunIn(f, i, j) <=> RunIn(g, i, j)
    <2>1. \A k \in i..j : k \in 1..n
      BY <1>1
    <2> HIDE DEF n, g
    <2> QED
      BY <1>1, <2>1 DEF RunIn
  <1> HIDE DEF n, g, c
  <1>7. ASSUME NEW i \in DOMAIN g, NEW j \in DOMAIN g, RunIn(g, i, j)
        PROVE  j - i + 1 <= t.maxRun
    <2>0. i \in 1..n + 1 /\ j \in 1..n + 1 /\ i <= j
      BY <1>1, <1>7 DEF RunIn
    <2>1. CASE j = n + 1
      <3>1. ~(i <= (n + 1) - c /\ c < n + 1)
        <4> SUFFICES ASSUME i <= (n + 1) - c, c < n + 1 PROVE FALSE
          OBVIOUS
        <4>1. (n + 1) - c \in i..j
          BY <1>1, <1>3, <2>0, <2>1
        <4>2. g[(n + 1) - c].rev = g[n + 1].rev
          BY <1>7, <2>1, <4>1 DEF RunIn
        <4> QED
          BY <1>3, <4>2
      <3>2. j - i + 1 <= c
        BY <1>1, <1>3, <2>0, <2>1, <3>1
      <3> QED
        BY <1>1, <1>4, <1>5, <2>0, <3>2
    <2>2. CASE j # n + 1
      <3>1. i \in 1..n /\ j \in 1..n
        BY <1>1, <2>0, <2>2
      <3>2. j - i + 1 <= s.maxRun
        BY <1>1, <1>6, <1>7, <3>1 DEF FlowMaxRun
      <3> QED
        BY <1>1, <1>4, <1>5, <3>1, <3>2
    <2> QED
      BY <2>1, <2>2
  <1>8. \E i, j \in DOMAIN g : RunIn(g, i, j) /\ j - i + 1 = t.maxRun
    <2>1. CASE t.maxRun = c
      <3> DEFINE i == (n + 1) - c + 1
                 j == n + 1
      <3>1. i \in 1..n + 1 /\ j \in 1..n + 1 /\ i <= j /\ j - i + 1 = c
        BY <1>1, <1>3
      <3>2. RunIn(g, i, j)
        BY <1>3, <3>1 DEF RunIn
      <3> HIDE DEF i, j
      <3> QED
        BY <1>1, <2>1, <3>1, <3>2
    <2>2. CASE t.maxRun # c
      <3>1. t.maxRun = s.maxRun
        BY <1>5, <2>2
      <3>2. f # <<>>
        BY <1>3, <1>4, <1>5, <2>2 DEF FlowMaxRun
      <3>3. PICK i \in DOMAIN f, j \in DOMAIN f : RunIn(f, i, j) /\ j - i + 1 = s.maxRun
        BY <3>2 DEF FlowMaxRun
      <3>4. i \in DOMAIN g /\ j \in DOMAIN g /\ RunIn(g, i, j)
        BY <1>1, <1>6, <3>3
      <3> QED
        BY <3>1, <3>3, <3>4
    <2> QED
      BY <2>1, <2>2
  <1> QED
    BY <1>1, <1>7, <1>8 DEF FlowMaxRun, g

LEMMA SizesMore ==
    ASSUME NEW f \in Seq(PacketType("udpflow")), NEW p \in PacketType("udpflow"),
           NEW s \in FlowState, FlowSizes(s, f),
           NEW t, t.minLen = IF s.minLen = 0 \/ p.len < s.minLen THEN p.len ELSE s.minLen,
           t.maxLen = Larger(p.len, s.maxLen)
    PROVE  FlowSizes(t, Append(f, p))
  <1> DEFINE n == Len(f)
             g == Append(f, p)
  <1>1. /\ n \in Nat /\ Len(g) = n + 1 /\ DOMAIN f = 1..n /\ DOMAIN g = 1..n + 1
        /\ g[n + 1] = p /\ (\A k \in 1..n : g[k] = f[k])
        /\ (f = <<>> <=> n = 0) /\ g # <<>> /\ (\A k \in 1..n + 1 : k \in 1..n \/ k = n + 1)
        /\ (\A k \in 1..n : k \in 1..n + 1) /\ n + 1 \in 1..n + 1
    BY OneMoreFlow
  <1>2. p.len \in Nat /\ s.minLen \in Nat /\ s.maxLen \in Nat /\ \A k \in 1..n : f[k].len \in Nat
    BY FlowTypes, FlowPackets DEF PacketType
  <1>3. t.maxLen \in Nat /\ t.maxLen >= p.len /\ t.maxLen >= s.maxLen
    BY <1>2, LargerIs
  <1> HIDE DEF n, g
  <1>4. ASSUME NEW k \in DOMAIN g PROVE g[k].len <= t.maxLen
    <2>1. CASE k = n + 1
      BY <1>1, <1>2, <1>3, <2>1
    <2>2. CASE k \in 1..n
      <3>1. f[k].len <= s.maxLen
        BY <1>1, <2>2 DEF FlowSizes
      <3> QED
        BY <1>1, <1>2, <1>3, <2>2, <3>1
    <2> QED
      BY <1>1, <2>1, <2>2
  <1>5. ASSUME p.len = 0
        PROVE  SinceOf(g) = {} /\ t.minLen = 0
    <2>1. SinceOf(g) = {}
      BY <1>1, <1>5 DEF SinceOf
    <2> QED
      BY <1>2, <1>5, <2>1
  <1>6. ASSUME p.len # 0
        PROVE  SinceOf(g) = SinceOf(f) \cup {n + 1}
    <2>1. ASSUME NEW k \in 1..n PROVE k \in SinceOf(g) <=> k \in SinceOf(f)
      <3>1. \A j : j \in k..n + 1 <=> j \in k..n \/ j = n + 1
        BY <1>1
      <3>2. \A j \in k..n : j \in 1..n
        BY <1>1
      <3>3. \A j \in k..n : g[j] = f[j]
        BY <1>1, <3>2
      <3>4. (\A j \in k..n + 1 : g[j].len # 0) <=> (\A j \in k..n : f[j].len # 0)
        BY <1>1, <1>6, <3>1, <3>3
      <3> QED
        BY <1>1, <3>4 DEF SinceOf, n
    <2>2. n + 1 \in SinceOf(g)
      <3>1. \A j \in n + 1..n + 1 : j = n + 1
        BY <1>1
      <3> QED
        BY <1>1, <1>6, <3>1 DEF SinceOf
    <2>3. SinceOf(g) \subseteq 1..n + 1 /\ SinceOf(f) \subseteq 1..n
      BY <1>1 DEF SinceOf
    <2> QED
      BY <1>1, <2>1, <2>2, <2>3
  <1>7. ASSUME p.len # 0
        PROVE  /\ \E k \in SinceOf(g) : t.minLen = g[k].len
               /\ \A k \in SinceOf(g) : t.minLen <= g[k].len
    <2>0. SinceOf(f) \subseteq 1..n
      BY <1>1 DEF SinceOf
    <2>1. CASE SinceOf(f) = {}
      <3>1. t.minLen = p.len
        BY <2>1 DEF FlowSizes
      <3>2. SinceOf(g) = {n + 1}
        BY <1>6, <1>7, <2>1
      <3> QED
        BY <1>1, <1>2, <3>1, <3>2
    <2>2. CASE SinceOf(f) # {}
      <3>1. PICK i \in SinceOf(f) : s.minLen = f[i].len
        BY <2>2 DEF FlowSizes
      <3>2. \A k \in SinceOf(f) : s.minLen <= f[k].len
        BY DEF FlowSizes
      <3>3. s.minLen # 0
        <4>1. i \in i..n
          BY <1>1, <2>0
        <4>2. f[i].len # 0
          BY <4>1 DEF SinceOf, n
        <4> QED
          BY <3>1, <4>2
      <3>4. \A k \in SinceOf(f) : g[k] = f[k] /\ f[k].len \in Nat
        BY <1>1, <1>2, <2>0
      <3>5. CASE p.len < s.minLen
        <4>1. t.minLen = p.len
          BY <3>5
        <4>2. \A k \in SinceOf(f) : p.len <= f[k].len
          BY <1>2, <3>2, <3>4, <3>5
        <4> QED
          BY <1>1, <1>2, <1>6, <1>7, <3>4, <4>1, <4>2
      <3>6. CASE ~(p.len < s.minLen)
        <4>1. t.minLen = s.minLen /\ s.minLen <= p.len
          BY <1>2, <3>3, <3>6
        <4> QED
          BY <1>1, <1>6, <1>7, <3>1, <3>2, <3>4, <4>1
      <3> QED
        BY <3>5, <3>6
    <2> QED
      BY <2>1, <2>2
  <1> QED
    BY <1>4, <1>5, <1>6, <1>7 DEF FlowSizes, g

LEMMA TimesMore ==
    ASSUME NEW f \in Seq(PacketType("udpflow")), NEW p \in PacketType("udpflow"),
           NEW s \in FlowState, FlowTimes(s, f), FlowCounts(s, f),
           NEW t, t.started = (IF PacketCount(s) = 0 THEN p.time ELSE s.started), t.lastSeen = p.time
    PROVE  FlowTimes(t, Append(f, p))
  <1> DEFINE n == Len(f)
             g == Append(f, p)
  <1>1. /\ n \in Nat /\ Len(g) = n + 1 /\ DOMAIN f = 1..n /\ DOMAIN g = 1..n + 1
        /\ g[n + 1] = p /\ (\A k \in 1..n : g[k] = f[k])
        /\ (f = <<>> <=> n = 0) /\ g # <<>> /\ (\A k \in 1..n + 1 : k \in 1..n \/ k = n + 1)
        /\ (\A k \in 1..n : k \in 1..n + 1) /\ n + 1 \in 1..n + 1
    BY OneMoreFlow
  <1>2. PacketCount(s) = n
    BY DEF FlowCounts, PacketCount
  <1> HIDE DEF n, g
  <1>3. CASE n = 0
    <2>1. t.started = p.time /\ g[1] = p
      BY <1>1, <1>2, <1>3
    <2> QED
      BY <1>1, <2>1 DEF FlowTimes, g
  <1>4. CASE n # 0
    <2>1. 1 \in 1..n
      BY <1>1, <1>4
    <2>2. t.started = s.started /\ g[1] = f[1] /\ s.started = f[1].time
      BY <1>1, <1>2, <1>4, <2>1 DEF FlowTimes
    <2> QED
      BY <1>1, <2>2 DEF FlowTimes, g
  <1> QED
    BY <1>3, <1>4

FlowKnows(s, packets) ==
    /\ FlowCounts(s, packets) /\ FlowSums(s, packets) /\ FlowTurns(s, packets)
    /\ FlowRun(s, packets) /\ FlowMaxRun(s, packets) /\ FlowSizes(s, packets)
    /\ FlowLarge(s, packets) /\ FlowTimes(s, packets)

UDPFlowInv ==
    /\ fed \in Seq(PacketType("udpflow")) /\ stream \in FlowState
    /\ FlowKnows(stream, fed)
    /\ reported = IF fed = <<>> THEN Nothing ELSE UDPFlowProps(stream)

LEMMA UDPFlowStep ==
    ASSUME UDPFlowInv, NEW p \in PacketType("udpflow"), FeedPacket(p), analyzer = "udpflow",
           fed' = Append(fed, p)
    PROVE  UDPFlowInv'
  <1>1. stream' = UDPFlowFeed(stream, p) /\ reported' = UDPFlowProps(stream')
    BY DEF FeedPacket
  <1>2. fed \in Seq(PacketType("udpflow")) /\ stream \in FlowState
    BY DEF UDPFlowInv
  <1> DEFINE s == stream
             f == fed
             t == stream'
             way == WayOf(p.rev)
             run == IF s.lastDirection = way THEN s.currentRun + 1 ELSE 1
  <1>3. /\ t \in FlowState
        /\ t.lastDirection = way /\ t.currentRun = run /\ t.maxRun = Larger(run, s.maxRun)
        /\ t.turns = IF s.lastDirection \in {"none", way} THEN s.turns ELSE s.turns + 1
        /\ t.packets = [s.packets EXCEPT ![way] = @ + 1]
        /\ t.bytes = [s.bytes EXCEPT ![way] = @ + p.len]
        /\ t.minLen = IF s.minLen = 0 \/ p.len < s.minLen THEN p.len ELSE s.minLen
        /\ t.maxLen = Larger(p.len, s.maxLen)
        /\ t.lenBuckets = [s.lenBuckets EXCEPT ![LenBucket(p.len)] = @ + 1]
        /\ t.started = (IF PacketCount(s) = 0 THEN p.time ELSE s.started) /\ t.lastSeen = p.time
    BY <1>1, <1>2, FlowFields
  <1>4. /\ FlowCounts(s, f) /\ FlowSums(s, f) /\ FlowTurns(s, f) /\ FlowRun(s, f)
        /\ FlowMaxRun(s, f) /\ FlowSizes(s, f) /\ FlowLarge(s, f) /\ FlowTimes(s, f)
    BY DEF UDPFlowInv, FlowKnows
  <1>5. f \in Seq(PacketType("udpflow")) /\ s \in FlowState
    BY <1>2
  <1> HIDE DEF s, f, t
  <1>6. FlowCounts(t, Append(f, p))
    BY <1>3, <1>4, <1>5, CountsMore
  <1>7. FlowSums(t, Append(f, p))
    BY <1>3, <1>4, <1>5, SumsMore
  <1>8. FlowTurns(t, Append(f, p))
    BY <1>3, <1>4, <1>5, TurnsMore
  <1>9. FlowRun(t, Append(f, p))
    BY <1>3, <1>4, <1>5, RunMore
  <1>10. FlowMaxRun(t, Append(f, p))
    BY <1>3, <1>4, <1>5, <1>9, MaxRunMore
  <1>11. FlowSizes(t, Append(f, p))
    BY <1>3, <1>4, <1>5, SizesMore
  <1>12. FlowLarge(t, Append(f, p))
    BY <1>3, <1>4, <1>5, LargeMore
  <1>13. FlowTimes(t, Append(f, p))
    BY <1>3, <1>4, <1>5, TimesMore
  <1>14. FlowKnows(t, Append(f, p))
    BY <1>6, <1>7, <1>8, <1>9, <1>10, <1>11, <1>12, <1>13 DEF FlowKnows
  <1>15. Append(f, p) \in Seq(PacketType("udpflow")) /\ Append(f, p) # <<>>
    BY <1>5
  <1> QED
    BY <1>1, <1>3, <1>14, <1>15 DEF UDPFlowInv, t, f

LEMMA UDPFlowStart == ASSUME Init, Looks("udpflow") PROVE UDPFlowInv
  <1>1. fed = <<>> /\ reported = Nothing /\ stream = UDPFlowStream
    BY Start DEF Looks, StreamOf
  <1>2. fed \in Seq(PacketType("udpflow")) /\ Len(fed) = 0 /\ DOMAIN fed = {}
    BY <1>1
  <1>3. stream \in FlowState
    BY <1>1 DEF UDPFlowStream, FlowState, Both
  <1>4. /\ OfWay(fed, TRUE) = {} /\ OfWay(fed, FALSE) = {} /\ TurnsOf(fed) = {} /\ LargeOf(fed) = {}
        /\ Cardinality({}) = 0
    BY <1>2, FS_EmptySet DEF OfWay, TurnsOf, LargeOf
  <1>5. FlowCounts(stream, fed) /\ FlowTurns(stream, fed) /\ FlowLarge(stream, fed)
    <2>1. /\ stream.packets.tx = 0 /\ stream.packets.rx = 0 /\ stream.turns = 0
          /\ stream.lenBuckets = [b \in 0..7 |-> 0]
      BY <1>1 DEF UDPFlowStream
    <2>2. stream.lenBuckets[6] = 0 /\ stream.lenBuckets[7] = 0
      BY <2>1
    <2>3. FlowCounts(stream, fed)
      <3>1. stream.packets.tx + stream.packets.rx = Len(fed)
        BY <1>2, <2>1
      <3>2. /\ stream.packets.tx = Cardinality(OfWay(fed, FALSE))
            /\ stream.packets.rx = Cardinality(OfWay(fed, TRUE))
        BY <1>4, <2>1
      <3> QED
        BY <3>1, <3>2 DEF FlowCounts
    <2>4. FlowTurns(stream, fed)
      BY <1>4, <2>1 DEF FlowTurns
    <2>5. FlowLarge(stream, fed)
      BY <1>4, <2>2 DEF FlowLarge
    <2> QED
      BY <2>3, <2>4, <2>5
  <1>6. FlowSums(stream, fed)
    BY <1>1, <1>4, SumOfNone DEF FlowSums, UDPFlowStream
  <1>7. FlowRun(stream, fed) /\ FlowMaxRun(stream, fed) /\ FlowSizes(stream, fed) /\ FlowTimes(stream, fed)
    BY <1>1, <1>2 DEF FlowRun, FlowMaxRun, FlowSizes, SinceOf, FlowTimes, UDPFlowStream
  <1> QED
    BY <1>1, <1>2, <1>3, <1>5, <1>6, <1>7 DEF UDPFlowInv, FlowKnows

LEMMA UDPFlowKept ==
    ASSUME Looks("udpflow") => UDPFlowInv, [Next]_vars
    PROVE  (Looks("udpflow") => UDPFlowInv)'
  <1> SUFFICES ASSUME Looks("udpflow") PROVE UDPFlowInv'
    BY Stays DEF Looks
  <1>1. CASE UNCHANGED vars
    BY <1>1 DEF vars, UDPFlowInv
  <1>2. ASSUME NEW p \in PacketType("udpflow"), FeedPacket(p), fed' = Append(fed, p)
        PROVE  UDPFlowInv'
    BY <1>2, UDPFlowStep DEF Looks
  <1> QED
    BY <1>1, <1>2, Steps DEF Looks

LEMMA UDPFlowMeans == ASSUME UDPFlowInv PROVE UDPFlowTrue
  <1> DEFINE All == DOMAIN fed
             Way(rev) == {k \in All : fed[k].rev = rev}
             turns == {k \in All : k > 1 /\ fed[k].rev # fed[k - 1].rev}
             Run_(i, j) == i <= j /\ \A k \in i..j : fed[k].rev = fed[j].rev
             sizes == {fed[k].len : k \in All}
             since == {k \in All : \A j \in k..Len(fed) : fed[j].len # 0}
             Large == {k \in All : fed[k].len > 1024}
  <1>0. /\ FlowCounts(stream, fed) /\ FlowSums(stream, fed) /\ FlowTurns(stream, fed)
        /\ FlowMaxRun(stream, fed) /\ FlowSizes(stream, fed)
        /\ FlowLarge(stream, fed) /\ FlowTimes(stream, fed)
        /\ stream \in FlowState /\ fed \in Seq(PacketType("udpflow"))
    BY DEF UDPFlowInv, FlowKnows
  <1>1. reported # Nothing => fed # <<>> /\ reported = UDPFlowProps(stream)
    BY DEF UDPFlowInv
  <1>2. reported # Nothing => reported.packet_count = Len(fed) /\ reported.large = Cardinality(Large)
    <2>1. PacketCount(stream) = Len(fed)
      BY <1>0 DEF FlowCounts, PacketCount
    <2>2. stream.lenBuckets[6] + stream.lenBuckets[7] = Cardinality(Large)
      BY <1>0 DEF FlowLarge, LargeOf
    <2>3. ASSUME reported # Nothing
          PROVE  /\ reported.packet_count = PacketCount(stream)
                 /\ reported.large = stream.lenBuckets[6] + stream.lenBuckets[7]
      BY <1>1, <2>3 DEF UDPFlowProps
    <2> QED
      BY <2>1, <2>2, <2>3
  <1>3. reported # Nothing =>
             reported.long_lived <=> Last(fed).time - fed[1].time >= LongLivedThreshold
    <2> SUFFICES ASSUME reported # Nothing
                 PROVE reported.long_lived <=> Last(fed).time - fed[1].time >= LongLivedThreshold
      OBVIOUS
    <2>1. stream.started = fed[1].time /\ stream.lastSeen = Last(fed).time
      BY <1>0, <1>1 DEF FlowTimes, Last
    <2>2. reported.long_lived = (stream.lastSeen - stream.started >= LongLivedThreshold)
      BY <1>1 DEF UDPFlowProps
    <2> QED
      BY <2>1, <2>2
  <1>4. stream.packets = [tx |-> Cardinality(Way(FALSE)), rx |-> Cardinality(Way(TRUE))]
    <2>1. stream.packets \in Both
      BY <1>0, FlowTypes
    <2>2. stream.packets.tx = Cardinality(Way(FALSE)) /\ stream.packets.rx = Cardinality(Way(TRUE))
      BY <1>0 DEF FlowCounts, OfWay
    <2> HIDE DEF Way
    <2> QED
      BY <2>1, <2>2 DEF Both
  <1>5. stream.bytes = [tx |-> SumFunctionOnSet(Lengths, Way(FALSE)),
                        rx |-> SumFunctionOnSet(Lengths, Way(TRUE))]
    <2>1. stream.bytes \in Both
      BY <1>0, FlowTypes
    <2>2. /\ stream.bytes.tx = SumFunctionOnSet(Lengths, Way(FALSE))
          /\ stream.bytes.rx = SumFunctionOnSet(Lengths, Way(TRUE))
      BY <1>0 DEF FlowSums, OfWay, LengthsOf, Lengths
    <2> HIDE DEF Way
    <2> QED
      BY <2>1, <2>2 DEF Both
  <1>6. stream.turns = Cardinality(turns)
    BY <1>0 DEF FlowTurns, TurnsOf
  <1>7. \A i, j \in All : Run_(i, j) => j - i + 1 <= stream.maxRun
    BY <1>0 DEF FlowMaxRun, RunIn
  <1>8. fed # <<>> => \E i, j \in All : Run_(i, j) /\ j - i + 1 = stream.maxRun
    BY <1>0 DEF FlowMaxRun, RunIn
  <1>9. \A n \in sizes : n <= stream.maxLen
    BY <1>0 DEF FlowSizes
  <1>10. /\ since = {} => stream.minLen = 0
         /\ since # {} => \E k \in since : stream.minLen = fed[k].len
         /\ \A k \in since : stream.minLen <= fed[k].len
    BY <1>0 DEF FlowSizes, SinceOf
  <1> QED
    BY <1>2, <1>3, <1>4, <1>5, <1>6, <1>7, <1>8, <1>9, <1>10, Zenon DEF UDPFlowTrue

-----------------------------------------------------------------------------
(***************************************************************************)
(* Trojan.  The lengths of the turns from the first Change Cipher Spec on. *)
(***************************************************************************)
CCSOf(packets) == {k \in DOMAIN packets : ~packets[k].rev /\ packets[k].form = "ccs"}
FirstCCS(packets) == CHOOSE k \in CCSOf(packets) : \A j \in CCSOf(packets) : k <= j
ChangesTo(packets, k) ==
    {j \in (FirstCCS(packets) + 1)..k : packets[j].rev # packets[j - 1].rev}
TurnAt(packets, k) == 1 + Cardinality(ChangesTo(packets, k))
CountedOf(packets) == IF CCSOf(packets) = {} THEN {} ELSE FirstCCS(packets)..Len(packets)
InTurn(packets, n) == {k \in CountedOf(packets) : TurnAt(packets, k) = n}
TurnLength(packets, n) == SumFunctionOnSet(LengthsOf(packets), InTurn(packets, n))

TrojanState(said) ==
    [first : {FALSE}, count : BOOLEAN, rev : BOOLEAN, seq : [1..4 -> Nat], index : 1..4,
     reported : {said}, done : BOOLEAN]

TrojanKnows(s, packets) ==
    /\ s.count <=> CCSOf(packets) # {}
    /\ CCSOf(packets) = {} => ~s.done /\ s.index = 1 /\ s.rev = FALSE /\ s.seq = [i \in 1..4 |-> 0]
    /\ CCSOf(packets) # {} /\ ~s.done =>
          /\ s.index = TurnAt(packets, Len(packets)) /\ s.rev = packets[Len(packets)].rev
          /\ \A i \in 1..4 : s.seq[i] = TurnLength(packets, i)
    /\ CCSOf(packets) # {} /\ s.done =>
          /\ TurnAt(packets, Len(packets)) = 5
          /\ s.reported.seq = [i \in 1..4 |-> TurnLength(packets, i)]

TrojanInv ==
    /\ fed \in Seq(PacketType("trojan")) /\ (gap => over)
    /\ gap \/ /\ stream \in TrojanState(reported) /\ (stream.done <=> over)
              /\ TrojanKnows(stream, fed)

LEMMA FirstCCSIs ==
    ASSUME NEW f \in Seq(PacketType("trojan")), CCSOf(f) # {}
    PROVE  /\ FirstCCS(f) \in CCSOf(f) /\ (\A j \in CCSOf(f) : FirstCCS(f) <= j)
           /\ FirstCCS(f) \in 1..Len(f)
  <1>1. CCSOf(f) \in SUBSET Nat /\ CCSOf(f) \subseteq 1..Len(f)
    BY DEF CCSOf
  <1>2. \E k \in CCSOf(f) : \A j \in CCSOf(f) : k <= j
    BY <1>1, Smallest
  <1>3. FirstCCS(f) \in CCSOf(f) /\ \A j \in CCSOf(f) : FirstCCS(f) <= j
    BY <1>2 DEF FirstCCS
  <1> QED
    BY <1>1, <1>3

\* The one that is first.
LEMMA FirstCCSOnly ==
    ASSUME NEW f \in Seq(PacketType("trojan")), NEW m \in CCSOf(f), \A j \in CCSOf(f) : m <= j
    PROVE  FirstCCS(f) = m
  <1>1. FirstCCS(f) \in CCSOf(f) /\ FirstCCS(f) <= m /\ m <= FirstCCS(f)
    BY FirstCCSIs
  <1>2. CCSOf(f) \in SUBSET Nat
    BY DEF CCSOf
  <1> QED
    BY <1>1, <1>2

LEMMA ChangesIn ==
    ASSUME NEW f \in Seq(PacketType("trojan")), CCSOf(f) # {}, NEW k \in 1..Len(f)
    PROVE  ChangesTo(f, k) \in SUBSET (1..k) /\ TurnAt(f, k) \in Nat \ {0}
  <1>1. FirstCCS(f) \in 1..Len(f) /\ Len(f) \in Nat
    BY FirstCCSIs
  <1>2. ChangesTo(f, k) \in SUBSET (1..k) /\ k \in Nat
    BY <1>1 DEF ChangesTo
  <1>3. Cardinality(ChangesTo(f, k)) \in Nat
    BY <1>2, Grows
  <1> QED
    BY <1>2, <1>3 DEF TurnAt

\* Turns only grow.
LEMMA TurnsGrow ==
    ASSUME NEW f \in Seq(PacketType("trojan")), CCSOf(f) # {}, NEW k \in CountedOf(f)
    PROVE  TurnAt(f, k) <= TurnAt(f, Len(f)) /\ k \in 1..Len(f)
  <1>1. FirstCCS(f) \in 1..Len(f) /\ Len(f) \in Nat
    BY FirstCCSIs
  <1>2. k \in FirstCCS(f)..Len(f) /\ k \in 1..Len(f) /\ Len(f) \in 1..Len(f)
    BY <1>1 DEF CountedOf
  <1>3. ChangesTo(f, k) \subseteq ChangesTo(f, Len(f))
    BY <1>1, <1>2 DEF ChangesTo
  <1>4. ChangesTo(f, Len(f)) \in SUBSET (1..Len(f))
    BY <1>2, ChangesIn
  <1>5. IsFiniteSet(ChangesTo(f, Len(f)))
    BY <1>1, <1>4, Grows
  <1>6. Cardinality(ChangesTo(f, k)) <= Cardinality(ChangesTo(f, Len(f)))
    BY <1>3, <1>5, FS_Subset
  <1>7. TurnAt(f, k) \in Nat /\ TurnAt(f, Len(f)) \in Nat
    BY <1>2, ChangesIn
  <1>8. Cardinality(ChangesTo(f, k)) \in Nat /\ Cardinality(ChangesTo(f, Len(f))) \in Nat
    BY <1>3, <1>5, FS_Subset, FS_CardinalityType
  <1> QED
    BY <1>2, <1>6, <1>8 DEF TurnAt

LEMMA OneMoreTrojan ==
    ASSUME NEW f \in Seq(PacketType("trojan")), NEW p \in PacketType("trojan"),
           NEW n, n = Len(f), NEW g, g = Append(f, p)
    PROVE  /\ n \in Nat /\ Len(g) = n + 1 /\ DOMAIN f = 1..n /\ DOMAIN g = 1..n + 1
           /\ g[n + 1] = p /\ (\A k \in 1..n : g[k] = f[k])
           /\ (\A k \in 1..n + 1 : k \in 1..n \/ k = n + 1)
           /\ (\A k \in 1..n : k \in 1..n + 1 /\ k <= n + 1 /\ k # n + 1) /\ n + 1 \in 1..n + 1
  <1>1. /\ n \in Nat /\ Len(g) = n + 1 /\ DOMAIN f = 1..n /\ DOMAIN g = 1..n + 1
        /\ g[n + 1] = p /\ \A k \in 1..n : g[k] = f[k]
    BY OneMore
  <1>2. /\ \A k \in 1..n + 1 : k \in 1..n \/ k = n + 1
        /\ (\A k \in 1..n : k \in 1..n + 1 /\ k <= n + 1 /\ k # n + 1) /\ n + 1 \in 1..n + 1
    BY <1>1
  <1> QED
    BY <1>1, <1>2

LEMMA CCSMore ==
    ASSUME NEW f \in Seq(PacketType("trojan")), NEW p \in PacketType("trojan")
    PROVE  CCSOf(Append(f, p)) = IF ~p.rev /\ p.form = "ccs" THEN CCSOf(f) \cup {Len(f) + 1} ELSE CCSOf(f)
  <1> DEFINE n == Len(f)
             g == Append(f, p)
             Ccs(q) == ~q.rev /\ q.form = "ccs"
  <1>1. /\ n \in Nat /\ Len(g) = n + 1 /\ DOMAIN f = 1..n /\ DOMAIN g = 1..n + 1
        /\ g[n + 1] = p /\ (\A k \in 1..n : g[k] = f[k])
        /\ (\A k \in 1..n + 1 : k \in 1..n \/ k = n + 1)
        /\ (\A k \in 1..n : k \in 1..n + 1 /\ k <= n + 1 /\ k # n + 1) /\ n + 1 \in 1..n + 1
    BY OneMoreTrojan
  <1>2. CCSOf(f) = {k \in DOMAIN f : Ccs(f[k])} /\ CCSOf(g) = {k \in DOMAIN g : Ccs(g[k])}
    BY DEF CCSOf
  <1> HIDE DEF n, g, Ccs
  <1>3. CASE Ccs(p)
    <2>1. CCSOf(g) = CCSOf(f) \cup {n + 1}
      BY <1>1, <1>2, <1>3
    <2> QED
      BY <1>3, <2>1 DEF Ccs, n, g
  <1>4. CASE ~Ccs(p)
    <2>1. CCSOf(g) = CCSOf(f)
      BY <1>1, <1>2, <1>4
    <2> QED
      BY <1>4, <2>1 DEF Ccs, n, g
  <1> QED
    BY <1>3, <1>4

\* What another packet does to the turns that are counted already.
LEMMA TurnsMoreTrojan ==
    ASSUME NEW f \in Seq(PacketType("trojan")), NEW p \in PacketType("trojan"), CCSOf(f) # {}
    PROVE  /\ CCSOf(Append(f, p)) # {} /\ FirstCCS(Append(f, p)) = FirstCCS(f)
           /\ CountedOf(Append(f, p)) = CountedOf(f) \cup {Len(f) + 1}
           /\ \A k \in CountedOf(f) : TurnAt(Append(f, p), k) = TurnAt(f, k)
           /\ TurnAt(Append(f, p), Len(f) + 1) =
                 IF p.rev = f[Len(f)].rev THEN TurnAt(f, Len(f)) ELSE TurnAt(f, Len(f)) + 1
  <1> DEFINE n == Len(f)
             g == Append(f, p)
             m == FirstCCS(f)
  <1>1. /\ n \in Nat /\ Len(g) = n + 1 /\ DOMAIN f = 1..n /\ DOMAIN g = 1..n + 1
        /\ g[n + 1] = p /\ (\A k \in 1..n : g[k] = f[k])
        /\ (\A k \in 1..n + 1 : k \in 1..n \/ k = n + 1)
        /\ (\A k \in 1..n : k \in 1..n + 1 /\ k <= n + 1 /\ k # n + 1) /\ n + 1 \in 1..n + 1
    BY OneMoreTrojan
  <1>2. m \in CCSOf(f) /\ (\A j \in CCSOf(f) : m <= j) /\ m \in 1..n
    BY FirstCCSIs
  <1>3. m \in CCSOf(g) /\ \A j \in CCSOf(g) : m <= j
    <2>1. CCSOf(g) = CCSOf(f) \cup {n + 1} \/ CCSOf(g) = CCSOf(f)
      BY CCSMore
    <2> QED
      BY <1>1, <1>2, <2>1
  <1>4. g \in Seq(PacketType("trojan"))
    OBVIOUS
  <1>5. CCSOf(g) # {} /\ FirstCCS(g) = m
    BY <1>3, <1>4, FirstCCSOnly
  <1>6. CountedOf(g) = CountedOf(f) \cup {n + 1}
    <2>1. CountedOf(f) = m..n /\ CountedOf(g) = m..n + 1
      BY <1>1, <1>5 DEF CountedOf
    <2> QED
      BY <1>1, <1>2, <2>1
  <1>7. ASSUME NEW k \in 1..n PROVE ChangesTo(g, k) = ChangesTo(f, k)
    <2>1. \A j \in (m + 1)..k : g[j] = f[j] /\ g[j - 1] = f[j - 1]
      <3>1. ASSUME NEW j \in (m + 1)..k PROVE j \in 1..n /\ j - 1 \in 1..n
        BY <1>1, <1>2
      <3> HIDE DEF n, g, m
      <3> QED
        BY <1>1, <3>1
    <2> QED
      BY <1>5, <2>1 DEF ChangesTo
  <1>8. ASSUME NEW k \in CountedOf(f) PROVE TurnAt(g, k) = TurnAt(f, k)
    <2>1. k \in 1..n
      BY TurnsGrow
    <2> HIDE DEF n, g
    <2> QED
      BY <1>7, <2>1 DEF TurnAt
  <1>9. ChangesTo(f, n) \in SUBSET (1..n)
    <2>1. n \in 1..n
      BY <1>1, <1>2
    <2> QED
      BY <2>1, ChangesIn
  <1>10. Cardinality(ChangesTo(f, n)) \in Nat
         /\ Cardinality(ChangesTo(f, n) \cup {n + 1}) = Cardinality(ChangesTo(f, n)) + 1
    BY <1>1, <1>9, Grows
  <1>11. ChangesTo(g, n + 1) = IF p.rev = f[n].rev THEN ChangesTo(f, n) ELSE ChangesTo(f, n) \cup {n + 1}
    <2>0. n \in 1..n /\ g[n] = f[n] /\ (n + 1) - 1 = n /\ n + 1 \in (m + 1)..(n + 1)
      <3>1. m \in 1..n /\ n \in Nat
        BY <1>1, <1>2
      <3> HIDE DEF m, n
      <3>2. n \in 1..n /\ (n + 1) - 1 = n /\ n + 1 \in (m + 1)..(n + 1)
        BY <3>1
      <3> QED
        BY <1>1, <3>2
    <2>1. ASSUME NEW j \in (m + 1)..(n + 1) PROVE j \in (m + 1)..n \/ j = n + 1
      <3>1. m \in Nat /\ n \in Nat
        BY <1>1, <1>2
      <3> HIDE DEF m, n
      <3> QED
        BY <2>1, <3>1
    <2>2. \A j \in (m + 1)..n : j \in (m + 1)..(n + 1) /\ j # n + 1
      <3>1. m \in Nat /\ n \in Nat
        BY <1>1, <1>2
      <3> HIDE DEF m, n
      <3> QED
        BY <3>1
    <2>3. ChangesTo(g, n) = ChangesTo(f, n)
      BY <1>7, <2>0
    <2>4. /\ ChangesTo(g, n + 1) = {j \in (m + 1)..(n + 1) : g[j].rev # g[j - 1].rev}
          /\ ChangesTo(g, n) = {j \in (m + 1)..n : g[j].rev # g[j - 1].rev}
      BY <1>5 DEF ChangesTo
    <2> HIDE DEF n, g, m
    <2>5. CASE p.rev = f[n].rev
      <3>1. ~(g[n + 1].rev # g[(n + 1) - 1].rev)
        BY <1>1, <2>0, <2>5
      <3>2. ChangesTo(g, n + 1) = ChangesTo(g, n)
        BY <2>1, <2>2, <2>4, <3>1
      <3> QED
        BY <2>3, <2>5, <3>2
    <2>6. CASE p.rev # f[n].rev
      <3>1. g[n + 1].rev # g[(n + 1) - 1].rev
        BY <1>1, <2>0, <2>6
      <3>2. ChangesTo(g, n + 1) = ChangesTo(g, n) \cup {n + 1}
        BY <2>0, <2>1, <2>2, <2>4, <3>1
      <3> QED
        BY <2>3, <2>6, <3>2
    <2> QED
      BY <2>5, <2>6
  <1>12. TurnAt(g, n + 1) = IF p.rev = f[n].rev THEN TurnAt(f, n) ELSE TurnAt(f, n) + 1
    <2> DEFINE c == Cardinality(ChangesTo(f, n))
    <2>1. c \in Nat
      BY <1>10
    <2>2. TurnAt(f, n) = 1 + c
      BY DEF TurnAt
    <2>3. CASE p.rev = f[n].rev
      BY <1>11, <2>3 DEF TurnAt
    <2>4. CASE p.rev # f[n].rev
      <3>1. TurnAt(g, n + 1) = 1 + (c + 1)
        BY <1>10, <1>11, <2>4 DEF TurnAt
      <3> HIDE DEF c
      <3> QED
        BY <2>1, <2>2, <2>4, <3>1
    <2> QED
      BY <2>3, <2>4
  <1> QED
    BY <1>5, <1>6, <1>8, <1>12

LEMMA TurnLengthsMore ==
    ASSUME NEW f \in Seq(PacketType("trojan")), NEW p \in PacketType("trojan"), CCSOf(f) # {},
           NEW i \in 1..5
    PROVE  TurnLength(Append(f, p), i) =
              IF TurnAt(Append(f, p), Len(f) + 1) = i THEN TurnLength(f, i) + p.len ELSE TurnLength(f, i)
  <1> DEFINE n == Len(f)
             g == Append(f, p)
             v == LengthsOf(f)
             w == LengthsOf(g)
             A == InTurn(f, i)
             x == n + 1
  <1>1. /\ n \in Nat /\ Len(g) = n + 1 /\ DOMAIN f = 1..n /\ DOMAIN g = 1..n + 1
        /\ g[n + 1] = p /\ (\A k \in 1..n : g[k] = f[k])
        /\ (\A k \in 1..n : k \in 1..n + 1 /\ k <= n + 1 /\ k # n + 1) /\ n + 1 \in 1..n + 1
    BY OneMoreTrojan
  <1>2. /\ CountedOf(g) = CountedOf(f) \cup {n + 1}
        /\ \A k \in CountedOf(f) : TurnAt(g, k) = TurnAt(f, k)
    BY TurnsMoreTrojan
  <1>3. \A k \in A : k \in 1..n
    BY TurnsGrow DEF InTurn
  <1>4. ASSUME NEW k \in 1..n PROVE v[k] \in Nat /\ v[k] = w[k]
    <2>1. f[k] \in PacketType("trojan")
      BY <1>1
    <2>2. f[k].len \in Nat
      BY <2>1 DEF PacketType
    <2> QED
      BY <1>1, <2>2 DEF LengthsOf
  <1>5. \A k \in A : v[k] \in Nat /\ v[k] = w[k]
    BY <1>3, <1>4
  <1>6. w[x] = p.len
    BY <1>1 DEF LengthsOf
  <1>7. w[x] \in Nat
    BY <1>6 DEF PacketType
  <1>8. IsFiniteSet(A)
    <2>1. A \in SUBSET (1..n)
      BY <1>3
    <2> QED
      BY <1>1, <2>1, Grows
  <1>9. x \notin A
    BY <1>1, <1>3
  <1>10. InTurn(g, i) = IF TurnAt(g, x) = i THEN A \cup {x} ELSE A
    <2> HIDE DEF n, g, v, w
    <2>1. CASE TurnAt(g, x) = i
      <3>1. InTurn(g, i) = A \cup {x}
        BY <1>2, <2>1 DEF InTurn
      <3> QED
        BY <2>1, <3>1
    <2>2. CASE TurnAt(g, x) # i
      <3>1. InTurn(g, i) = A
        BY <1>2, <2>2 DEF InTurn
      <3> QED
        BY <2>2, <3>1
    <2> QED
      BY <2>1, <2>2
  <1> HIDE DEF n, g, v, w, A, x
  <1>11. SumFunctionOnSet(w, A \cup {x}) = SumFunctionOnSet(v, A) + w[x]
    BY <1>5, <1>7, <1>8, <1>9, SumAdd, Zenon
  <1>12. SumFunctionOnSet(v, A) = SumFunctionOnSet(w, A)
    BY <1>5, <1>8, SumSame, Zenon
  <1>13. TurnLength(g, i) = IF TurnAt(g, x) = i THEN SumFunctionOnSet(v, A) + p.len ELSE SumFunctionOnSet(v, A)
    BY <1>6, <1>10, <1>11, <1>12 DEF TurnLength, w
  <1> QED
    BY <1>13 DEF TurnLength, n, g, v, A, x

LEMMA TrojanFields ==
    ASSUME NEW said, NEW s \in TrojanState(said), NEW p \in PacketType("trojan"), ~s.done,
           NEW t, t = TrojanFeed(s, p)
    PROVE  /\ t \in TrojanState(t.reported) /\ t.count = (s.count \/ (~p.rev /\ p.form = "ccs"))
           /\ ~t.count => ~t.done /\ t.index = s.index /\ t.rev = s.rev /\ t.seq = s.seq
           /\ t.count /\ p.rev = s.rev =>
                 ~t.done /\ t.index = s.index /\ t.rev = s.rev /\ t.seq = [s.seq EXCEPT ![s.index] = @ + p.len]
           /\ t.count /\ p.rev # s.rev /\ s.index = 4 => t.done /\ t.reported.seq = s.seq
           /\ t.count /\ p.rev # s.rev /\ s.index # 4 =>
                 /\ ~t.done /\ t.index = s.index + 1 /\ t.rev = p.rev
                 /\ t.seq = [s.seq EXCEPT ![s.index + 1] = @ + p.len]
  <1> DEFINE count == s.count \/ (~p.rev /\ p.form = "ccs")
             r == [s EXCEPT !.first = FALSE, !.count = count]
             Turned ==
               /\ t \in TrojanState(t.reported) /\ t.count = count
               /\ ~count => ~t.done /\ t.index = s.index /\ t.rev = s.rev /\ t.seq = s.seq
               /\ count /\ p.rev = s.rev =>
                     ~t.done /\ t.index = s.index /\ t.rev = s.rev /\ t.seq = [s.seq EXCEPT ![s.index] = @ + p.len]
               /\ count /\ p.rev # s.rev /\ s.index = 4 => t.done /\ t.reported.seq = s.seq
               /\ count /\ p.rev # s.rev /\ s.index # 4 =>
                     /\ ~t.done /\ t.index = s.index + 1 /\ t.rev = p.rev
                     /\ t.seq = [s.seq EXCEPT ![s.index + 1] = @ + p.len]
  <1>1. p.rev \in BOOLEAN /\ p.len \in Nat
    BY DEF PacketType
  <1>2. /\ s.first = FALSE /\ s.count \in BOOLEAN /\ s.rev \in BOOLEAN /\ s.seq \in [1..4 -> Nat]
        /\ s.index \in 1..4 /\ s.reported = said /\ s.done = FALSE
    BY DEF TrojanState
  <1>3. count \in BOOLEAN
    BY <1>1, <1>2
  <1>4. r = [first |-> FALSE, count |-> count, rev |-> s.rev, seq |-> s.seq, index |-> s.index,
             reported |-> said, done |-> FALSE]
    <2>1. ASSUME NEW c \in BOOLEAN, NEW e, e = [s EXCEPT !.first = FALSE, !.count = c]
          PROVE  /\ e \in TrojanState(said)
                 /\ e.first = FALSE /\ e.count = c /\ e.rev = s.rev /\ e.seq = s.seq
                 /\ e.index = s.index /\ e.reported = said /\ e.done = FALSE
      BY <1>2, <2>1 DEF TrojanState
    <2>2. /\ r \in TrojanState(said)
          /\ r.first = FALSE /\ r.count = count /\ r.rev = s.rev /\ r.seq = s.seq
          /\ r.index = s.index /\ r.reported = said /\ r.done = FALSE
      BY <1>3, <2>1
    <2> HIDE DEF r
    <2> QED
      BY <2>2 DEF TrojanState
  <1>5. t = IF ~r.count THEN r
            ELSE IF p.rev = r.rev THEN [r EXCEPT !.seq[r.index] = @ + p.len]
            ELSE IF r.index = 4
            THEN [r EXCEPT !.done = TRUE, !.reported = [seq |-> r.seq, yes |-> IsTrojanSeq(r.seq)]]
            ELSE [r EXCEPT !.index = @ + 1, !.seq[r.index + 1] = @ + p.len, !.rev = p.rev]
    BY <1>2 DEF TrojanFeed
  <1> HIDE DEF r, count
  <1>6. ASSUME ~count PROVE Turned
    <2>1. t = r
      BY <1>4, <1>5, <1>6
    <2> QED
      <3>0. count = FALSE
        BY <1>3, <1>6
      <3>1. t = [first |-> FALSE, count |-> FALSE, rev |-> s.rev, seq |-> s.seq, index |-> s.index,
                 reported |-> said, done |-> FALSE]
        BY <1>4, <2>1, <3>0
      <3>2. t \in TrojanState(t.reported)
        BY <1>2, <3>1 DEF TrojanState
      <3>3. t.count = FALSE /\ t.done = FALSE /\ t.index = s.index /\ t.rev = s.rev /\ t.seq = s.seq
        BY <3>1
      <3> QED
        BY <3>0, <3>2, <3>3
  <1>7. ASSUME count /\ p.rev = s.rev PROVE Turned
    <2> DEFINE seq == [s.seq EXCEPT ![s.index] = @ + p.len]
    <2>1. seq \in [1..4 -> Nat]
      BY <1>1, <1>2
    <2>2. t = [r EXCEPT !.seq = seq]
      BY <1>4, <1>5, <1>7
    <2> HIDE DEF seq
    <2>3. t = [first |-> FALSE, count |-> TRUE, rev |-> s.rev, seq |-> seq, index |-> s.index,
               reported |-> said, done |-> FALSE]
      BY <1>4, <1>7, <2>2
    <2>4. t \in TrojanState(t.reported)
      BY <1>2, <2>1, <2>3 DEF TrojanState
    <2>5. t.count = TRUE /\ t.done = FALSE /\ t.index = s.index /\ t.rev = s.rev /\ t.seq = seq
      BY <2>3
    <2> QED
      BY <1>7, <2>4, <2>5 DEF seq
  <1>8. ASSUME count /\ p.rev # s.rev /\ s.index = 4 PROVE Turned
    <2> DEFINE say == [seq |-> r.seq, yes |-> IsTrojanSeq(r.seq)]
    <2>1. say.seq = s.seq
      BY <1>4
    <2>2. t = [r EXCEPT !.done = TRUE, !.reported = say]
      BY <1>4, <1>5, <1>8
    <2> HIDE DEF say
    <2>3. t = [first |-> FALSE, count |-> TRUE, rev |-> s.rev, seq |-> s.seq, index |-> s.index,
               reported |-> say, done |-> TRUE]
      BY <1>4, <1>8, <2>2
    <2>4. t \in TrojanState(t.reported)
      BY <1>2, <2>3 DEF TrojanState
    <2>5. t.count = TRUE /\ t.done = TRUE /\ t.reported = say
      BY <2>3
    <2> QED
      BY <1>8, <2>1, <2>4, <2>5
  <1>9. ASSUME count /\ p.rev # s.rev /\ s.index # 4 PROVE Turned
    <2> DEFINE seq == [s.seq EXCEPT ![s.index + 1] = @ + p.len]
    <2>1. s.index + 1 \in 1..4
      BY <1>2, <1>9
    <2>2. seq \in [1..4 -> Nat]
      BY <1>1, <1>2, <2>1
    <2>3. t = [r EXCEPT !.index = s.index + 1, !.seq = seq, !.rev = p.rev]
      BY <1>4, <1>5, <1>9
    <2> HIDE DEF seq
    <2>4. t = [first |-> FALSE, count |-> TRUE, rev |-> p.rev, seq |-> seq, index |-> s.index + 1,
               reported |-> said, done |-> FALSE]
      BY <1>4, <1>9, <2>3
    <2>5. t \in TrojanState(t.reported)
      BY <1>1, <2>1, <2>2, <2>4 DEF TrojanState
    <2>6. /\ t.count = TRUE /\ t.done = FALSE /\ t.index = s.index + 1 /\ t.rev = p.rev
          /\ t.seq = seq
      BY <2>4
    <2> QED
      BY <1>9, <2>5, <2>6 DEF seq
  <1>10. Turned
    <2> HIDE DEF Turned
    <2> QED
      BY <1>3, <1>6, <1>7, <1>8, <1>9
  <1> QED
    BY <1>3, <1>10 DEF count

\* The first Change Cipher Spec starts the first turn.
LEMMA FirstTurn ==
    ASSUME NEW f \in Seq(PacketType("trojan")), NEW p \in PacketType("trojan"), CCSOf(f) = {},
           ~p.rev, p.form = "ccs", NEW i \in 1..4
    PROVE  /\ CCSOf(Append(f, p)) # {} /\ TurnAt(Append(f, p), Len(f) + 1) = 1
           /\ TurnLength(Append(f, p), i) = IF i = 1 THEN p.len ELSE 0
  <1> DEFINE n == Len(f)
             g == Append(f, p)
             w == LengthsOf(g)
             x == n + 1
  <1>1. /\ n \in Nat /\ Len(g) = n + 1 /\ DOMAIN f = 1..n /\ DOMAIN g = 1..n + 1
        /\ g[n + 1] = p /\ n + 1 \in 1..n + 1
    BY OneMoreTrojan
  <1>2. CCSOf(g) = {x}
    BY CCSMore
  <1>3. FirstCCS(g) = x
    <2>1. x \in CCSOf(g) /\ \A j \in CCSOf(g) : x <= j
      BY <1>1, <1>2
    <2>2. g \in Seq(PacketType("trojan"))
      OBVIOUS
    <2> HIDE DEF g, x
    <2> QED
      BY <2>1, <2>2, FirstCCSOnly
  <1>4. ChangesTo(g, x) = {} /\ CountedOf(g) = {x}
    <2>1. (x + 1)..x = {} /\ x..x = {x} /\ Len(g) = x /\ CCSOf(g) # {}
      BY <1>1, <1>2
    <2> HIDE DEF g, x
    <2> QED
      BY <1>3, <2>1 DEF ChangesTo, CountedOf
  <1>5. TurnAt(g, x) = 1
    <2>1. Cardinality(ChangesTo(g, x)) = 0
      BY <1>4, FS_EmptySet
    <2> QED
      BY <2>1 DEF TurnAt
  <1>6. w[x] = p.len /\ w[x] \in Nat
    BY <1>1 DEF LengthsOf, PacketType
  <1> HIDE DEF n, g, w, x
  <1>7. SumFunctionOnSet(w, {} \cup {x}) = SumFunctionOnSet(w, {}) + w[x]
    <2>1. IsFiniteSet({}) /\ x \notin {} /\ \A k \in {} : w[k] \in Nat /\ w[k] = w[k]
      BY FS_EmptySet
    <2>2. w[x] \in Nat
      BY <1>6
    <2> QED
      BY <2>1, <2>2, SumAdd, Zenon
  <1>8. SumFunctionOnSet(w, {x}) = p.len
    <2>1. SumFunctionOnSet(w, {}) = 0
      BY SumOfNone
    <2>2. {} \cup {x} = {x} /\ 0 + p.len = p.len
      BY <1>6
    <2> QED
      BY <1>6, <1>7, <2>1, <2>2
  <1>9. InTurn(g, i) = IF i = 1 THEN {x} ELSE {}
    BY <1>4, <1>5 DEF InTurn
  <1>10. TurnLength(g, i) = IF i = 1 THEN p.len ELSE 0
    <2>1. CASE i = 1
      BY <1>8, <1>9, <2>1 DEF TurnLength, w
    <2>2. CASE i # 1
      BY <1>9, <2>2, SumOfNone DEF TurnLength, w
    <2> QED
      BY <2>1, <2>2
  <1> QED
    BY <1>2, <1>5, <1>10 DEF n, g, x

LEMMA TrojanMore ==
    ASSUME NEW f \in Seq(PacketType("trojan")), NEW p \in PacketType("trojan"),
           NEW said, NEW s \in TrojanState(said), TrojanKnows(s, f), ~s.done,
           NEW t, t = TrojanFeed(s, p)
    PROVE  TrojanKnows(t, Append(f, p))
  <1> DEFINE n == Len(f)
             g == Append(f, p)
  <1>1. /\ n \in Nat /\ Len(g) = n + 1 /\ DOMAIN f = 1..n /\ DOMAIN g = 1..n + 1
        /\ g[n + 1] = p /\ n + 1 \in 1..n + 1
    BY OneMoreTrojan
  <1>2. /\ t \in TrojanState(t.reported) /\ t.count = (s.count \/ (~p.rev /\ p.form = "ccs"))
        /\ ~t.count => ~t.done /\ t.index = s.index /\ t.rev = s.rev /\ t.seq = s.seq
        /\ t.count /\ p.rev = s.rev =>
              ~t.done /\ t.index = s.index /\ t.rev = s.rev /\ t.seq = [s.seq EXCEPT ![s.index] = @ + p.len]
        /\ t.count /\ p.rev # s.rev /\ s.index = 4 => t.done /\ t.reported.seq = s.seq
        /\ t.count /\ p.rev # s.rev /\ s.index # 4 =>
              /\ ~t.done /\ t.index = s.index + 1 /\ t.rev = p.rev
              /\ t.seq = [s.seq EXCEPT ![s.index + 1] = @ + p.len]
    BY TrojanFields
  <1>3. p.len \in Nat /\ s.seq \in [1..4 -> Nat] /\ s.index \in 1..4 /\ p.rev \in BOOLEAN
    BY DEF PacketType, TrojanState
  <1>5. ASSUME NEW a \in 1..4, NEW i \in 1..4
        PROVE  [s.seq EXCEPT ![a] = @ + p.len][i] = IF i = a THEN s.seq[i] + p.len ELSE s.seq[i]
    <2>1. ASSUME NEW q \in [1..4 -> Nat], NEW m \in Nat
          PROVE  [q EXCEPT ![a] = @ + m][i] = IF i = a THEN q[i] + m ELSE q[i]
      OBVIOUS
    <2> QED
      BY <1>3, <2>1
  <1>6. CASE CCSOf(f) # {}
    <2>1. /\ s.index = TurnAt(f, n) /\ s.rev = f[n].rev /\ t.count
          /\ \A i \in 1..4 : s.seq[i] = TurnLength(f, i)
      BY <1>2, <1>6 DEF TrojanKnows
    <2>2. /\ CCSOf(g) # {}
          /\ TurnAt(g, n + 1) = IF p.rev = f[n].rev THEN TurnAt(f, n) ELSE TurnAt(f, n) + 1
      BY <1>6, TurnsMoreTrojan
    <2>3. \A i \in 1..4 : TurnLength(g, i) =
             IF TurnAt(g, n + 1) = i THEN TurnLength(f, i) + p.len ELSE TurnLength(f, i)
      <3>1. \A i \in 1..4 : i \in 1..5
        OBVIOUS
      <3> QED
        BY <1>6, <3>1, TurnLengthsMore
    <2> HIDE DEF n, g
    <2>4. CASE p.rev = s.rev
      <3>1. TurnAt(g, n + 1) = s.index
        BY <2>1, <2>2, <2>4
      <3>2. ~t.done /\ t.index = s.index /\ t.rev = s.rev /\ t.seq = [s.seq EXCEPT ![s.index] = @ + p.len]
        BY <1>2, <2>1, <2>4
      <3>3. ASSUME NEW i \in 1..4 PROVE t.seq[i] = TurnLength(g, i)
        <4>1. t.seq[i] = IF i = s.index THEN s.seq[i] + p.len ELSE s.seq[i]
          BY <1>3, <1>5, <3>2
        <4> QED
          BY <2>1, <2>3, <3>1, <4>1
      <3> QED
        BY <1>1, <1>2, <2>1, <2>2, <2>4, <3>1, <3>2, <3>3 DEF TrojanKnows, g
    <2>5. CASE p.rev # s.rev /\ s.index = 4
      <3>1. TurnAt(g, n + 1) = 5
        BY <2>1, <2>2, <2>5
      <3>2. t.done /\ t.reported.seq = s.seq
        BY <1>2, <2>1, <2>5
      <3>3. ASSUME NEW i \in 1..4 PROVE s.seq[i] = TurnLength(g, i)
        BY <2>1, <2>3, <3>1
      <3>4. t.reported.seq = [i \in 1..4 |-> TurnLength(g, i)]
        BY <1>3, <3>2, <3>3
      <3> QED
        BY <1>1, <1>2, <2>1, <2>2, <3>1, <3>2, <3>4 DEF TrojanKnows, g
    <2>6. CASE p.rev # s.rev /\ s.index # 4
      <3>0. s.index + 1 \in 1..4
        BY <1>3, <2>6
      <3>1. TurnAt(g, n + 1) = s.index + 1
        BY <2>1, <2>2, <2>6
      <3>2. /\ ~t.done /\ t.index = s.index + 1 /\ t.rev = p.rev
            /\ t.seq = [s.seq EXCEPT ![s.index + 1] = @ + p.len]
        BY <1>2, <2>1, <2>6
      <3>3. ASSUME NEW i \in 1..4 PROVE t.seq[i] = TurnLength(g, i)
        BY <1>5, <2>1, <2>3, <3>0, <3>1, <3>2
      <3> QED
        BY <1>1, <1>2, <2>1, <2>2, <3>1, <3>2, <3>3 DEF TrojanKnows, g
    <2> QED
      BY <2>4, <2>5, <2>6
  <1>7. CASE CCSOf(f) = {} /\ ~p.rev /\ p.form = "ccs"
    <2>1. t.count /\ s.index = 1 /\ s.rev = FALSE /\ s.seq = [i \in 1..4 |-> 0] /\ p.rev = s.rev
      BY <1>2, <1>3, <1>7 DEF TrojanKnows
    <2>2. CCSOf(g) # {} /\ TurnAt(g, n + 1) = 1
      <3>1. 1 \in 1..4
        OBVIOUS
      <3> QED
        BY <1>7, <3>1, FirstTurn
    <2>3. \A i \in 1..4 : TurnLength(g, i) = IF i = 1 THEN p.len ELSE 0
      BY <1>7, FirstTurn
    <2> HIDE DEF n, g
    <2>4. ~t.done /\ t.index = 1 /\ t.rev = s.rev /\ t.seq = [s.seq EXCEPT ![1] = @ + p.len]
      BY <1>2, <2>1
    <2>5. ASSUME NEW i \in 1..4 PROVE t.seq[i] = TurnLength(g, i)
      <3>1. t.seq[i] = IF i = 1 THEN s.seq[i] + p.len ELSE s.seq[i]
        BY <1>5, <2>4
      <3>2. s.seq[i] = 0
        BY <2>1
      <3> QED
        BY <1>3, <2>3, <3>1, <3>2
    <2> QED
      BY <1>1, <1>2, <2>1, <2>2, <2>4, <2>5 DEF TrojanKnows, g
  <1>8. CASE CCSOf(f) = {} /\ ~(~p.rev /\ p.form = "ccs")
    <2>1. ~t.count /\ s.index = 1 /\ s.rev = FALSE /\ s.seq = [i \in 1..4 |-> 0]
      BY <1>2, <1>8 DEF TrojanKnows
    <2>2. CCSOf(g) = {}
      BY <1>8, CCSMore
    <2> HIDE DEF n, g
    <2> QED
      BY <1>2, <2>1, <2>2 DEF TrojanKnows, g
  <1> QED
    BY <1>6, <1>7, <1>8

LEMMA TrojanStart == ASSUME Init, Looks("trojan") PROVE TrojanInv
  <1>1. fed = <<>> /\ reported = Nothing /\ over = FALSE /\ gap = FALSE /\ stream = TrojanStream
    BY Start DEF Looks, StreamOf
  <1>2. fed \in Seq(PacketType("trojan")) /\ Len(fed) = 0 /\ DOMAIN fed = {}
    BY <1>1
  <1>3. CCSOf(fed) = {}
    BY <1>2 DEF CCSOf
  <1>4. <<0, 0, 0, 0>> = [i \in 1..4 |-> 0]
    OBVIOUS
  <1>5. stream = [first |-> FALSE, count |-> FALSE, rev |-> FALSE, seq |-> [i \in 1..4 |-> 0], index |-> 1,
                  reported |-> reported, done |-> FALSE]
    BY <1>1, <1>4 DEF TrojanStream, Nothing
  <1>6. stream \in TrojanState(reported)
    BY <1>5 DEF TrojanState
  <1>7. TrojanKnows(stream, fed)
    BY <1>3, <1>5 DEF TrojanKnows
  <1>8. stream.done = FALSE
    BY <1>5
  <1> QED
    BY <1>1, <1>2, <1>6, <1>7, <1>8 DEF TrojanInv

LEMMA TrojanKept ==
    ASSUME Looks("trojan") => TrojanInv, [Next]_vars
    PROVE  (Looks("trojan") => TrojanInv)'
  <1> SUFFICES ASSUME Looks("trojan") PROVE TrojanInv'
    BY Stays DEF Looks
  <1>1. CASE UNCHANGED vars
    BY <1>1 DEF vars, TrojanInv
  <1>2. CASE FeedSkip
    BY <1>2 DEF FeedSkip, TrojanInv
  <1>3. ASSUME NEW p \in PacketType("trojan"), FeedPacket(p), fed' = Append(fed, p), ~over
        PROVE  TrojanInv'
    <2>1. /\ stream' = TrojanFeed(stream, p) /\ reported' = stream'.reported /\ over' = stream'.done
          /\ gap' = gap
      BY <1>3 DEF FeedPacket, Looks
    <2>2. /\ fed \in Seq(PacketType("trojan")) /\ ~gap /\ stream \in TrojanState(reported)
          /\ ~stream.done /\ TrojanKnows(stream, fed)
      BY <1>3 DEF TrojanInv
    <2>3. TrojanKnows(stream', fed')
      BY <1>3, <2>1, <2>2, TrojanMore
    <2>4. stream' \in TrojanState(stream'.reported)
      BY <2>1, <2>2, TrojanFields
    <2>5. fed' \in Seq(PacketType("trojan"))
      BY <1>3, <2>2
    <2> QED
      BY <2>1, <2>2, <2>3, <2>4, <2>5 DEF TrojanInv
  <1> QED
    BY <1>1, <1>2, <1>3, Steps DEF Looks

LEMMA TrojanMeans == ASSUME TrojanInv PROVE TrojanTrue
  <1> SUFFICES ASSUME ~gap PROVE TrojanTrue
    BY DEF TrojanTrue
  <1> DEFINE Count(k) == 1 + Cardinality({j \in (FirstCCS(fed) + 1)..k : fed[j].rev # fed[j - 1].rev})
             counted == IF CCSOf(fed) = {} THEN {} ELSE FirstCCS(fed)..Len(fed)
  <1>1. /\ fed \in Seq(PacketType("trojan")) /\ stream \in TrojanState(reported)
        /\ (stream.done <=> over) /\ TrojanKnows(stream, fed) /\ reported = stream.reported
    BY DEF TrojanInv, TrojanState
  <1>2. \A k : Count(k) = TurnAt(fed, k)
    BY DEF TurnAt, ChangesTo
  <1>3. counted = CountedOf(fed)
    BY DEF CountedOf
  <1> HIDE DEF Count, counted
  <1>4. over <=> \E k \in counted : Count(k) = 5
    <2>1. ASSUME over PROVE \E k \in counted : Count(k) = 5
      <3>1. CCSOf(fed) # {} /\ TurnAt(fed, Len(fed)) = 5
        BY <1>1, <2>1 DEF TrojanKnows
      <3>2. Len(fed) \in counted
        <4>1. FirstCCS(fed) \in 1..Len(fed) /\ Len(fed) \in Nat
          BY <1>1, <3>1, FirstCCSIs
        <4> QED
          BY <3>1, <4>1 DEF counted
      <3> QED
        BY <1>2, <3>1, <3>2
    <2>2. ASSUME ~over, NEW k \in counted PROVE Count(k) # 5
      <3>1. CCSOf(fed) # {} /\ k \in CountedOf(fed)
        BY <1>3, <2>2 DEF CountedOf
      <3>2. stream.index = TurnAt(fed, Len(fed)) /\ stream.index \in 1..4
        BY <1>1, <2>2, <3>1 DEF TrojanKnows, TrojanState
      <3>3. TurnAt(fed, k) <= TurnAt(fed, Len(fed))
        BY <1>1, <3>1, TurnsGrow
      <3> QED
        BY <1>2, <3>2, <3>3
    <2> QED
      BY <2>1, <2>2
  <1>5. over => reported.seq = [n \in 1..4 |->
                    SumFunctionOnSet(Lengths, {k \in counted : Count(k) = n})]
    <2>1. over => reported.seq = [i \in 1..4 |-> TurnLength(fed, i)]
      <3>1. over => CCSOf(fed) # {}
        BY <1>1 DEF TrojanKnows
      <3> QED
        BY <1>1, <3>1 DEF TrojanKnows
    <2>2. ASSUME NEW n \in 1..4
          PROVE  TurnLength(fed, n) = SumFunctionOnSet(Lengths, {k \in counted : Count(k) = n})
      <3>1. {k \in counted : Count(k) = n} = InTurn(fed, n)
        BY <1>2, <1>3 DEF InTurn
      <3>2. Lengths = LengthsOf(fed)
        BY DEF Lengths, LengthsOf
      <3> QED
        BY <3>1, <3>2 DEF TurnLength
    <2> QED
      BY <2>1, <2>2
  <1> QED
    BY <1>4, <1>5, Zenon DEF TrojanTrue, Count, counted, CCSOf, FirstCCS

-----------------------------------------------------------------------------
(* Folds over a finite set that take away a member of their choice *)

Folded(g, base, pick, step, D) ==
    g = [s \in SUBSET D |-> IF s = {} THEN base ELSE step[<<g[s \ {pick[s]}], pick[s]>>]]

LEMMA FoldExists ==
    ASSUME NEW D, IsFiniteSet(D), NEW S, NEW base \in S,
           NEW pick, \A s \in SUBSET D : s # {} => pick[s] \in s,
           NEW step \in [S \X D -> S]
    PROVE  \E g \in [SUBSET D -> S] : Folded(g, base, pick, step, D)
  <1> DEFINE F == [SUBSET D -> S]
             Body(f, s) == IF s = {} THEN base ELSE step[<<f[s \ {pick[s]}], pick[s]>>]
             \* f folds the sets of at most n members.
             Fits(f, n) == \A s \in SUBSET D : Cardinality(s) <= n => f[s] = Body(f, s)
  <1>1. \A s \in SUBSET D : Cardinality(s) \in Nat /\ Cardinality(s) <= Cardinality(D) /\ IsFiniteSet(s)
    BY FS_Subset, FS_CardinalityType
  <1>0. ASSUME NEW s \in SUBSET D, s # {}
        PROVE  /\ pick[s] \in D /\ s \ {pick[s]} \in SUBSET D
               /\ Cardinality(s \ {pick[s]}) = Cardinality(s) - 1
    <2>1. pick[s] \in s /\ IsFiniteSet(s)
      BY <1>0, <1>1
    <2>2. Cardinality(s \ {pick[s]}) = Cardinality(s) - 1
      BY <2>1, FS_RemoveElement
    <2> QED
      BY <2>1, <2>2
  <1>2. ASSUME NEW f \in F, NEW s \in SUBSET D
        PROVE  Body(f, s) \in S
    <2>1. CASE s = {}
      BY <2>1
    <2>2. CASE s # {}
      <3>1. pick[s] \in D /\ f[s \ {pick[s]}] \in S
        BY <1>0, <2>2
      <3> QED
        BY <2>2, <3>1
    <2> QED
      BY <2>1, <2>2
  <1>3. \A s \in SUBSET D : Cardinality(s) = 0 => s = {}
    BY <1>1, FS_EmptySet
  <1>4. ASSUME NEW n \in Nat \ {0}, NEW f \in F, Fits(f, n - 1)
        PROVE  \E h \in F : Fits(h, n)
    <2> DEFINE h == [s \in SUBSET D |-> IF Cardinality(s) = n THEN Body(f, s) ELSE f[s]]
    <2>1. h \in F
      BY <1>2
    <2>2. ASSUME NEW s \in SUBSET D, Cardinality(s) <= n
          PROVE  h[s] = Body(f, s) /\ Body(h, s) = Body(f, s)
      <3>1. h[s] = Body(f, s)
        <4>1. Cardinality(s) = n \/ Cardinality(s) <= n - 1
          BY <1>1, <2>2
        <4> QED
          BY <1>4, <4>1
      <3>2. CASE s = {}
        <4> HIDE DEF h
        <4>1. Body(h, s) = base /\ Body(f, s) = base
          BY <3>2
        <4> QED
          BY <3>1, <4>1
      <3>3. CASE s # {}
        <4>1. s \ {pick[s]} \in SUBSET D /\ Cardinality(s \ {pick[s]}) # n
          <5>1. /\ s \ {pick[s]} \in SUBSET D
                /\ Cardinality(s \ {pick[s]}) = Cardinality(s) - 1
            BY <1>0, <3>3
          <5> QED
            BY <1>1, <2>2, <5>1
        <4>2. h[s \ {pick[s]}] = f[s \ {pick[s]}]
          BY <4>1
        <4> HIDE DEF h
        <4> QED
          BY <3>1, <3>3, <4>2
      <3> QED
        BY <3>1, <3>2, <3>3
    <2> HIDE DEF h, Body
    <2>3. Fits(h, n)
      BY <2>2
    <2> QED
      BY <2>1, <2>3
  <1> DEFINE I == {n \in Nat : \E f \in F : Fits(f, n)}
  <1>5. 0 \in I
    <2> DEFINE f == [s \in SUBSET D |-> base]
    <2>1. f \in F
      OBVIOUS
    <2>2. ASSUME NEW s \in SUBSET D, Cardinality(s) <= 0 PROVE f[s] = Body(f, s)
      <3>1. s = {}
        BY <1>1, <1>3, <2>2
      <3> QED
        BY <3>1
    <2> HIDE DEF f, F, Body
    <2> QED
      BY <2>1, <2>2
  <1>6. ASSUME NEW n \in Nat, n \in I PROVE n + 1 \in I
    <2>1. n + 1 \in Nat \ {0} /\ (n + 1) - 1 = n
      OBVIOUS
    <2>2. PICK f \in F : Fits(f, n)
      BY <1>6
    <2> HIDE DEF F, Fits
    <2>3. \E h \in F : Fits(h, n + 1)
      BY <1>4, <2>1, <2>2
    <2> QED
      BY <2>1, <2>3
  <1>7. Nat \subseteq I
    <2> HIDE DEF I
    <2> QED
      BY <1>5, <1>6, Induction
  <1>8. PICK g \in F : Fits(g, Cardinality(D))
    <2>1. Cardinality(D) \in I
      BY <1>7, FS_CardinalityType
    <2> HIDE DEF F, Fits
    <2> QED
      BY <2>1
  <1>9. \A s \in SUBSET D : g[s] = Body(g, s)
    BY <1>1, <1>8
  <1>10. g = [s \in SUBSET D |-> IF s = {} THEN base ELSE step[<<g[s \ {pick[s]}], pick[s]>>]]
    BY <1>8, <1>9
  <1> QED
    BY <1>8, <1>10 DEF Folded

-----------------------------------------------------------------------------
(***************************************************************************)
(* FET.  The longest printable stretch, from a pass over the bytes.        *)
(***************************************************************************)
Stretches == [now : Nat, max : Nat]

\* max is the longest stretch of B among the first k.
Longest(B, k, max) ==
    /\ \A i, j \in 1..k : i <= j /\ (\A m \in i..j : m \in B) => j < i + max
    /\ max = 0 \/ \E i \in 1..k : i + max - 1 <= k /\ \A m \in i..i + max - 1 : m \in B

LEMMA LongestMore ==
    ASSUME NEW k \in Nat, NEW B, NEW max \in Nat, Longest(B, k, max),
           NEW now, InARow(B, k + 1, now), NEW most, most = Larger(now, max)
    PROVE  Longest(B, k + 1, most)
  <1>1. /\ now \in 0..k + 1 /\ now \in Nat
        /\ \A m \in (k + 1) - now + 1 .. k + 1 : m \in B
        /\ now < k + 1 => (k + 1) - now \notin B
    BY DEF InARow
  <1>2. most \in Nat /\ most >= now /\ most >= max /\ most \in {now, max}
    BY <1>1, LargerIs
  <1>3. ASSUME NEW i \in 1..k + 1, NEW j \in 1..k + 1, i <= j, \A m \in i..j : m \in B
        PROVE  j < i + most
    <2>1. CASE j = k + 1
      <3>1. ~(i <= (k + 1) - now /\ now < k + 1)
        <4> SUFFICES ASSUME i <= (k + 1) - now, now < k + 1 PROVE FALSE
          OBVIOUS
        <4>1. (k + 1) - now \in i..j
          BY <1>1, <2>1
        <4> QED
          BY <1>1, <1>3, <4>1
      <3> QED
        BY <1>1, <1>2, <2>1, <3>1
    <2>2. CASE j # k + 1
      <3>1. i \in 1..k /\ j \in 1..k
        BY <1>3, <2>2
      <3>2. j < i + max
        BY <1>3, <3>1 DEF Longest
      <3> QED
        BY <1>2, <3>1, <3>2
    <2> QED
      BY <2>1, <2>2
  <1>4. most = 0 \/ \E i \in 1..k + 1 : i + most - 1 <= k + 1 /\ \A m \in i..i + most - 1 : m \in B
    <2>1. CASE most = now /\ most # 0
      <3> DEFINE i == (k + 1) - now + 1
      <3>1. i \in 1..k + 1 /\ i + most - 1 = k + 1
        BY <1>1, <2>1
      <3>2. \A m \in i..k + 1 : m \in B
        BY <1>1
      <3> HIDE DEF i
      <3>3. i + most - 1 <= k + 1 /\ \A m \in i..i + most - 1 : m \in B
        BY <3>1, <3>2
      <3> QED
        BY <3>1, <3>3
    <2>2. CASE most = max /\ most # 0
      <3>1. PICK i \in 1..k : i + max - 1 <= k /\ \A m \in i..i + max - 1 : m \in B
        BY <2>2 DEF Longest
      <3>2. i \in 1..k + 1 /\ i + most - 1 <= k + 1 /\ \A m \in i..i + most - 1 : m \in B
        BY <2>2, <3>1
      <3> QED
        BY <3>2
    <2> QED
      BY <1>2, <2>1, <2>2
  <1> QED
    BY <1>3, <1>4 DEF Longest

\* One round of the pass.
NextStretch(run, byte) ==
    LET now == IF Printable(byte) THEN run.now + 1 ELSE 0
    IN [now |-> now, max |-> Larger(now, run.max)]

NoStretch == [now |-> 0, max |-> 0]

PassOver(g, data) ==
    g = [s \in SUBSET DOMAIN data |->
            IF s = {} THEN NoStretch
            ELSE LET x == Max(s) IN NextStretch(g[s \ {x}], data[x])]

LEMMA MaxIs ==
    ASSUME NEW s \in SUBSET Nat, NEW x \in s, \A y \in s : x >= y
    PROVE  Max(s) = x
  <1>1. Max(s) \in s /\ \A y \in s : Max(s) >= y
    BY DEF Max
  <1>2. Max(s) >= x /\ x >= Max(s) /\ Max(s) \in Nat /\ x \in Nat
    BY <1>1
  <1> QED
    BY <1>2

LEMMA MaxOf ==
    ASSUME NEW n \in Nat, NEW s \in SUBSET (1..n), s # {}
    PROVE  Max(s) \in s
  <1> DEFINE T == {n - y : y \in s}
  <1>0. ASSUME NEW y \in s PROVE y \in Nat /\ y \in 1..n /\ n - y \in Nat
    <2>1. y \in 1..n
      OBVIOUS
    <2> QED
      BY <2>1
  <1>1. T \in SUBSET Nat /\ T # {}
    BY <1>0
  <1>2. PICK t \in T : \A u \in T : t <= u
    BY <1>1, Smallest
  <1>3. PICK x \in s : t = n - x
    BY <1>2
  <1>4. ASSUME NEW y \in s PROVE x >= y
    <2>1. n - y \in T /\ n - x <= n - y
      BY <1>2, <1>3
    <2> HIDE DEF T
    <2>2. x \in Nat /\ y \in Nat
      BY <1>0, <1>3
    <2> QED
      BY <2>1, <2>2
  <1>5. s \in SUBSET Nat
    OBVIOUS
  <1> QED
    BY <1>3, <1>4, <1>5, MaxIs

LEMMA NextStretchType ==
    ASSUME NEW run \in Stretches, NEW byte
    PROVE  NextStretch(run, byte) \in Stretches
  <1>1. run.now \in Nat /\ run.max \in Nat
    BY DEF Stretches
  <1>2. (IF Printable(byte) THEN run.now + 1 ELSE 0) \in Nat
    BY <1>1
  <1>3. Larger(IF Printable(byte) THEN run.now + 1 ELSE 0, run.max) \in Nat
    BY <1>1, <1>2, LargerIs
  <1> QED
    BY <1>2, <1>3 DEF NextStretch, Stretches

LEMMA PassExists ==
    ASSUME NEW data \in Seq(0..255)
    PROVE  \E g \in [SUBSET DOMAIN data -> Stretches] : PassOver(g, data)
  <1> DEFINE D == DOMAIN data
             pick == [s \in SUBSET D |-> Max(s)]
             step == [q \in Stretches \X D |-> NextStretch(q[1], data[q[2]])]
  <1>1. D = 1..Len(data) /\ Len(data) \in Nat
    OBVIOUS
  <1>2. IsFiniteSet(D)
    BY <1>1, FS_Interval
  <1>3. NoStretch \in Stretches
    BY DEF NoStretch, Stretches
  <1>4. ASSUME NEW s \in SUBSET D, s # {} PROVE Max(s) \in s
    BY <1>1, <1>4, MaxOf
  <1>5. \A s \in SUBSET D : s # {} => pick[s] \in s
    BY <1>4
  <1>6. step \in [Stretches \X D -> Stretches]
    BY NextStretchType
  <1> HIDE DEF pick, step
  <1>7. PICK g \in [SUBSET D -> Stretches] : Folded(g, NoStretch, pick, step, D)
    BY <1>2, <1>3, <1>5, <1>6, FoldExists
  <1>8. ASSUME NEW s \in SUBSET D, s # {}
        PROVE  step[<<g[s \ {pick[s]}], pick[s]>>] = NextStretch(g[s \ {Max(s)}], data[Max(s)])
    <2>1. pick[s] = Max(s) /\ Max(s) \in D
      BY <1>4, <1>8 DEF pick
    <2>2. g[s \ {Max(s)}] \in Stretches
      BY <1>7
    <2> HIDE DEF D
    <2> QED
      BY <2>1, <2>2 DEF step
  <1>9. ASSUME NEW s \in SUBSET D
        PROVE  g[s] = IF s = {} THEN NoStretch ELSE LET x == Max(s) IN NextStretch(g[s \ {x}], data[x])
    <2>1. g[s] = IF s = {} THEN NoStretch ELSE step[<<g[s \ {pick[s]}], pick[s]>>]
      BY <1>7 DEF Folded
    <2> QED
      BY <1>8, <2>1
  <1>10. g = [s \in SUBSET D |-> g[s]]
    BY <1>7
  <1>11. PassOver(g, data)
    BY <1>9, <1>10 DEF PassOver
  <1> QED
    BY <1>7, <1>11

LEMMA PassIs ==
    ASSUME NEW data \in Seq(0..255)
    PROVE  \E g : PassOver(g, data) /\ ContiguousPrintable(data) = g[DOMAIN data].max
  <1> DEFINE Fits(g) ==
               g = [s \in SUBSET DOMAIN data |->
                      IF s = {} THEN [now |-> 0, max |-> 0]
                      ELSE LET x == Max(s)
                           IN LET now == IF Printable(data[x]) THEN g[s \ {x}].now + 1 ELSE 0
                              IN [now |-> now, max |-> Larger(now, g[s \ {x}].max)]]
             g == CHOOSE g : Fits(g)
  <1>1. ContiguousPrintable(data) = g[DOMAIN data].max
    BY DEF ContiguousPrintable, FoldLeft, MapThenFoldSet
  <1>2. \A f : PassOver(f, data) <=> Fits(f)
    BY DEF PassOver, NoStretch, NextStretch
  <1>3. \E f : Fits(f)
    <2> HIDE DEF Fits
    <2> QED
      BY <1>2, PassExists
  <1>4. Fits(g)
    <2> HIDE DEF Fits
    <2> QED
      BY <1>3
  <1> HIDE DEF Fits, g
  <1>5. PassOver(g, data)
    BY <1>2, <1>4
  <1> QED
    BY <1>1, <1>5

LEMMA LongestPrintable ==
    ASSUME NEW data \in Seq(0..255)
    PROVE  /\ ContiguousPrintable(data) \in Nat
           /\ Longest({k \in DOMAIN data : Printable(data[k])}, Len(data), ContiguousPrintable(data))
  <1> DEFINE B == {k \in DOMAIN data : Printable(data[k])}
             n == Len(data)
  <1>1. PICK g : PassOver(g, data) /\ ContiguousPrintable(data) = g[DOMAIN data].max
    BY PassIs
  <1>2. n \in Nat /\ DOMAIN data = 1..n
    OBVIOUS
  <1> DEFINE Fine(k) == /\ g[1..k] \in Stretches /\ InARow(B, k, g[1..k].now)
                        /\ Longest(B, k, g[1..k].max)
             I == {k \in Nat : k <= n => Fine(k)}
  <1>3. 0 \in I
    <2>1. 1..0 = {} /\ {} \in SUBSET DOMAIN data
      OBVIOUS
    <2>2. g[1..0] = NoStretch
      BY <1>1, <2>1 DEF PassOver
    <2> HIDE DEF B, n
    <2>3. NoStretch \in Stretches /\ NoStretch.now = 0 /\ NoStretch.max = 0
      BY DEF NoStretch, Stretches
    <2>4. InARow(B, 0, 0) /\ Longest(B, 0, 0)
      BY DEF InARow, Longest
    <2> QED
      BY <2>2, <2>3, <2>4
  <1>4. ASSUME NEW k \in Nat, k \in I PROVE k + 1 \in I
    <2> SUFFICES ASSUME k + 1 <= n PROVE Fine(k + 1)
      OBVIOUS
    <2>1. Fine(k)
      BY <1>2, <1>4
    <2> DEFINE run == g[1..k]
               next == g[1..k + 1]
    <2>2. next = NextStretch(run, data[k + 1])
      <3>1. 1..k + 1 \in SUBSET DOMAIN data /\ k + 1 \in 1..k + 1 /\ (1..k + 1) \ {k + 1} = 1..k
            /\ 1..k + 1 # {}
        <4>1. 1..k + 1 \in SUBSET (1..n)
          BY <1>2
        <4>2. k + 1 \in 1..k + 1 /\ 1..k + 1 # {}
          OBVIOUS
        <4>3. (1..k + 1) \ {k + 1} = 1..k
          OBVIOUS
        <4> QED
          BY <1>2, <4>1, <4>2, <4>3
      <3>2. Max(1..k + 1) = k + 1
        <4>1. 1..k + 1 \in SUBSET Nat /\ \A y \in 1..k + 1 : k + 1 >= y
          OBVIOUS
        <4> QED
          BY <3>1, <4>1, MaxIs
      <3> HIDE DEF n
      <3>3. next = NextStretch(g[(1..k + 1) \ {k + 1}], data[k + 1])
        BY <1>1, <3>1, <3>2 DEF PassOver
      <3> QED
        BY <3>1, <3>3
    <2>3. k + 1 \in B <=> Printable(data[k + 1])
      BY <1>2
    <2>4. /\ run \in Stretches /\ run.now \in Nat /\ run.max \in Nat
          /\ InARow(B, k, run.now) /\ Longest(B, k, run.max)
      BY <2>1 DEF Stretches
    <2> HIDE DEF B, n, run, next
    <2>5. next \in Stretches
      BY <2>2, <2>4, NextStretchType
    <2>6. InARow(B, k + 1, next.now)
      <3>1. CASE k + 1 \in B
        <4>1. next.now = run.now + 1
          BY <2>2, <2>3, <3>1 DEF NextStretch
        <4> QED
          BY <2>4, <3>1, <4>1, OneMoreBad
      <3>2. CASE k + 1 \notin B
        <4>1. next.now = 0
          BY <2>2, <2>3, <3>2 DEF NextStretch
        <4> QED
          BY <3>2, <4>1, OneMoreGood
      <3> QED
        BY <3>1, <3>2
    <2>7. next.max = Larger(next.now, run.max)
      BY <2>2 DEF NextStretch
    <2>8. Longest(B, k + 1, next.max)
      BY <2>4, <2>6, <2>7, LongestMore
    <2> QED
      BY <2>5, <2>6, <2>8 DEF next
  <1>5. Fine(n)
    <2> HIDE DEF I, Fine
    <2>1. Nat \subseteq I
      BY <1>3, <1>4, Induction
    <2> QED
      BY <1>2, <2>1 DEF I
  <1>6. ContiguousPrintable(data) = g[1..n].max
    BY <1>1, <1>2
  <1>7. g[1..n].max \in Nat
    BY <1>5 DEF Stretches
  <1> QED
    BY <1>5, <1>6, <1>7

FETSays(p) == [ex4 |-> ContiguousPrintable(p.data), yes |-> ~Exempt(p.data)]

FETInv ==
    /\ fed \in Seq(PacketType("fet")) /\ (gap => over)
    /\ gap \/ /\ over <=> fed # <<>>
              /\ over => reported = FETSays(fed[1])

LEMMA FETStart == ASSUME Init, Looks("fet") PROVE FETInv
  BY Start DEF FETInv

LEMMA FETKept ==
    ASSUME Looks("fet") => FETInv, [Next]_vars
    PROVE  (Looks("fet") => FETInv)'
  <1> SUFFICES ASSUME Looks("fet") PROVE FETInv'
    BY Stays DEF Looks
  <1>1. CASE UNCHANGED vars
    BY <1>1 DEF vars, FETInv
  <1>2. CASE FeedSkip
    BY <1>2 DEF FeedSkip, FETInv
  <1>3. ASSUME NEW p \in PacketType("fet"), FeedPacket(p), fed' = Append(fed, p), ~over
        PROVE  FETInv'
    <2>1. stream' = FETFeed(stream, p) /\ reported' = stream'.reported /\ over' = stream'.done /\ gap' = gap
      BY <1>3 DEF FeedPacket, Looks
    <2>2. fed \in Seq(PacketType("fet")) /\ fed = <<>> /\ ~gap
      BY <1>3 DEF FETInv
    <2>3. fed' \in Seq(PacketType("fet")) /\ fed' # <<>> /\ fed'[1] = p
      BY <1>3, <2>2
    <2>4. over' = TRUE /\ reported' = FETSays(p)
      BY <2>1 DEF FETFeed, FETSays
    <2> QED
      BY <2>1, <2>2, <2>3, <2>4 DEF FETInv
  <1> QED
    BY <1>1, <1>2, <1>3, Steps DEF Looks

LEMMA FETMeans == ASSUME FETInv PROVE FETTrue
  <1> SUFFICES ASSUME ~gap PROVE FETTrue
    BY DEF FETTrue
  <1> DEFINE data == fed[1].data
             Stretch(i, j) == \A k \in i..j : Printable(data[k])
             m == reported.ex4
  <1>1. over <=> fed # <<>>
    BY DEF FETInv
  <1>2. ASSUME over
        PROVE  /\ \A i, j \in DOMAIN data : Stretch(i, j) => j < i + m
               /\ m = 0 \/ \E i \in DOMAIN data : Stretch(i, i + m - 1)
               /\ reported.yes => m <= 20
    <2>1. data \in Seq(0..255)
      <3>1. fed[1] \in PacketType("fet")
        BY <1>1, <1>2 DEF FETInv
      <3> QED
        BY <3>1 DEF PacketType
    <2>2. m = ContiguousPrintable(data) /\ reported.yes = ~Exempt(data)
      BY <1>2 DEF FETInv, FETSays
    <2> DEFINE B == {k \in DOMAIN data : Printable(data[k])}
               n == Len(data)
    <2>3. m \in Nat /\ Longest(B, n, m)
      BY <2>1, <2>2, LongestPrintable
    <2>4. DOMAIN data = 1..n /\ n \in Nat
      BY <2>1
    <2>5. ASSUME NEW k \in 1..n PROVE k \in B <=> Printable(data[k])
      BY <2>4
    <2> HIDE DEF data, B, n, m
    <2>6. ASSUME NEW i \in 1..n, NEW j \in 1..n, Stretch(i, j) PROVE j < i + m
      <3>1. CASE i <= j
        <4>1. \A k \in i..j : k \in B
          <5>1. ASSUME NEW k \in i..j PROVE k \in 1..n /\ Printable(data[k])
            BY <2>4, <2>6
          <5> QED
            BY <2>5, <5>1
        <4> QED
          BY <2>3, <3>1, <4>1 DEF Longest
      <3>2. CASE ~(i <= j)
        BY <2>3, <2>4, <3>2
      <3> QED
        BY <3>1, <3>2
    <2>7. m = 0 \/ \E i \in 1..n : Stretch(i, i + m - 1)
      <3>1. ASSUME NEW i \in 1..n, i + m - 1 <= n, \A k \in i..i + m - 1 : k \in B
            PROVE  Stretch(i, i + m - 1)
        <4>1. ASSUME NEW k \in i..i + m - 1 PROVE k \in 1..n
          BY <2>3, <2>4, <3>1
        <4> QED
          BY <2>5, <3>1, <4>1
      <3> QED
        BY <2>3, <3>1 DEF Longest
    <2>8. reported.yes => m <= 20
      <3>1. reported.yes => ~(ContiguousPrintable(data) > 20)
        BY <2>2 DEF Exempt
      <3> QED
        BY <2>2, <2>3, <3>1
    <2> QED
      BY <2>4, <2>6, <2>7, <2>8
  <1> QED
    BY <1>1, <1>2 DEF FETTrue

-----------------------------------------------------------------------------
(***************************************************************************)
(* OpenVPN over UDP.  What a machine does with the packet of a Feed.       *)
(***************************************************************************)

\* A round of Run's loop.
Round(r, dir) ==
    IF r.says \in {"next", "reset"} /\ r.at[dir] <= Len(r.steps[dir]) THEN RunStep(r, dir) ELSE r

\* A loop that changes nothing any more after two rounds ends like that.
LEMMA RunSettles ==
    ASSUME NEW s, NEW dir, MaxRounds(s, dir) \in Nat, MaxRounds(s, dir) >= 2,
           NEW r0, r0 = Next_(s), NEW r1, r1 = Round(r0, dir), NEW r2, r2 = Round(r1, dir),
           Round(r2, dir) = r2
    PROVE  Run(s, dir) = r2
  <1> DEFINE Fits(f) ==
               f = [n \in Nat |->
                      IF n = 0 THEN Next_(s)
                      ELSE LET r == f[n - 1]
                           IN IF r.says \in {"next", "reset"} /\ r.at[dir] <= Len(r.steps[dir])
                              THEN RunStep(r, dir) ELSE r]
             g == CHOOSE f : Fits(f)
             h == [n \in Nat |-> IF n = 0 THEN r0 ELSE IF n = 1 THEN r1 ELSE r2]
  <1>1. Run(s, dir) = g[MaxRounds(s, dir)]
    BY DEF Run
  <1>2. ASSUME NEW f PROVE Fits(f) <=> f = [n \in Nat |-> IF n = 0 THEN r0 ELSE Round(f[n - 1], dir)]
    BY DEF Round
  <1> HIDE DEF Fits
  <1>3. Fits(h)
    <2>1. ASSUME NEW n \in Nat PROVE h[n] = IF n = 0 THEN r0 ELSE Round(h[n - 1], dir)
      <3>1. CASE n = 0
        BY <3>1
      <3>2. CASE n = 1
        <4>1. h[n] = r1 /\ h[n - 1] = r0
          BY <3>2
        <4> QED
          BY <3>2, <4>1
      <3>3. CASE n = 2
        <4>1. h[n] = r2 /\ h[n - 1] = r1
          BY <3>3
        <4> QED
          BY <3>3, <4>1
      <3>4. CASE n > 2
        <4>1. n - 1 \in Nat /\ n - 1 # 0 /\ n - 1 # 1 /\ n # 0 /\ n # 1
          BY <3>4
        <4>2. h[n] = r2 /\ h[n - 1] = r2
          BY <4>1
        <4> QED
          BY <3>4, <4>2
      <3> QED
        BY <3>1, <3>2, <3>3, <3>4
    <2>2. h = [n \in Nat |-> h[n]]
      OBVIOUS
    <2> HIDE DEF h
    <2>3. h = [n \in Nat |-> IF n = 0 THEN r0 ELSE Round(h[n - 1], dir)]
      BY <2>1, <2>2
    <2> QED
      BY <1>2, <2>3
  <1>4. Fits(g)
    BY <1>3
  <1> HIDE DEF g, h
  <1>5. \A n \in Nat : g[n] = IF n = 0 THEN r0 ELSE Round(g[n - 1], dir)
    BY <1>2, <1>4
  <1> DEFINE I == {n \in Nat : n >= 2 => g[n] = r2}
  <1>6. g[0] = r0 /\ g[1] = r1 /\ g[2] = r2
    <2>1. g[0] = r0
      BY <1>5
    <2>2. g[1] = r1
      <3>1. 1 \in Nat /\ 1 # 0 /\ 1 - 1 = 0
        OBVIOUS
      <3> QED
        BY <1>5, <2>1, <3>1
    <2>3. g[2] = r2
      <3>1. 2 \in Nat /\ 2 # 0 /\ 2 - 1 = 1
        OBVIOUS
      <3> QED
        BY <1>5, <2>2, <3>1
    <2> QED
      BY <2>1, <2>2, <2>3
  <1>7. 0 \in I
    OBVIOUS
  <1>8. ASSUME NEW n \in Nat, n \in I PROVE n + 1 \in I
    <2>1. CASE n + 1 = 2
      BY <1>6, <2>1
    <2>2. CASE n + 1 > 2
      <3>1. n >= 2 /\ n + 1 \in Nat /\ n + 1 # 0 /\ (n + 1) - 1 = n
        BY <2>2
      <3>2. g[n + 1] = Round(g[n], dir) /\ g[n] = r2
        BY <1>5, <1>8, <3>1
      <3> QED
        BY <3>1, <3>2
    <2> QED
      BY <2>1, <2>2
  <1>9. Nat \subseteq I
    <2> HIDE DEF I
    <2> QED
      BY <1>7, <1>8, Induction
  <1> QED
    BY <1>1, <1>9

Machines ==
    [req |-> <<"openvpn.clientReset", "openvpn.req">>, resp |-> <<"openvpn.serverReset", "openvpn.resp">>]

\* A stream of the analyzer.
OV(buf, at, says, cancelled, updated, done, mem) ==
    [analyzer |-> "openvpn_udp", buf |-> buf, steps |-> Machines, at |-> at, says |-> says,
     cancelled |-> cancelled, updated |-> updated, done |-> done,
     map |-> [dir \in Dirs |-> Nothing], mem |-> mem]

LEMMA OVFields ==
    ASSUME NEW buf, NEW at, NEW says, NEW cancelled, NEW updated, NEW done, NEW mem,
           NEW s, s = OV(buf, at, says, cancelled, updated, done, mem)
    PROVE  /\ s.analyzer = "openvpn_udp" /\ s.buf = buf /\ s.steps = Machines /\ s.at = at
           /\ s.says = says /\ s.cancelled = cancelled /\ s.updated = updated /\ s.done = done
           /\ s.mem = mem
  BY DEF OV

LEMMA OVSays ==
    ASSUME NEW buf, NEW at, NEW says, NEW cancelled, NEW updated, NEW done, NEW mem, NEW new,
           NEW s, s = OV(buf, at, says, cancelled, updated, done, mem)
    PROVE  [s EXCEPT !.says = new] = OV(buf, at, new, cancelled, updated, done, mem)
  BY DEF OV

LEMMA OVBuf ==
    ASSUME NEW buf, NEW at, NEW says, NEW cancelled, NEW updated, NEW done, NEW mem, NEW new,
           NEW s, s = OV(buf, at, says, cancelled, updated, done, mem)
    PROVE  [s EXCEPT !.buf = new] = OV(new, at, says, cancelled, updated, done, mem)
  BY DEF OV

LEMMA OVMem ==
    ASSUME NEW buf, NEW at, NEW says, NEW cancelled, NEW updated, NEW done, NEW mem, NEW new,
           NEW s, s = OV(buf, at, says, cancelled, updated, done, mem)
    PROVE  [s EXCEPT !.mem = new] = OV(buf, at, says, cancelled, updated, done, new)
  BY DEF OV

LEMMA OVAt ==
    ASSUME NEW buf, NEW at, NEW says, NEW cancelled, NEW updated, NEW done, NEW mem, NEW new,
           NEW s, s = OV(buf, at, says, cancelled, updated, done, mem)
    PROVE  [s EXCEPT !.at = new] = OV(buf, new, says, cancelled, updated, done, mem)
  BY DEF OV

LEMMA OVUpdated ==
    ASSUME NEW buf, NEW at, NEW says, NEW cancelled, NEW updated, NEW done, NEW mem, NEW new,
           NEW s, s = OV(buf, at, says, cancelled, updated, done, mem)
    PROVE  [s EXCEPT !.updated = new] = OV(buf, at, says, cancelled, new, done, mem)
  BY DEF OV

\* UDPPacket, given a packet with a valid opcode.
LEMMA OVPacket ==
    ASSUME NEW buf, NEW at, NEW says, NEW cancelled, NEW updated, NEW done, NEW mem, NEW dir,
           NEW s, s = OV(buf, at, says, cancelled, updated, done, mem)
    PROVE  buf[dir] # <<>> /\ ValidOpcode(Opcode(buf[dir][1])) =>
              UDPPacket(s, dir) =
                 OV([buf EXCEPT ![dir] = <<>>], at, "next", cancelled, updated, done,
                    [mem EXCEPT !.pkt = Opcode(buf[dir][1])])
  <1>1. s.buf = buf /\ s.mem = mem
    BY DEF OV
  <1>2. ASSUME buf[dir] # <<>>, ValidOpcode(Opcode(buf[dir][1]))
        PROVE  UDPPacket(s, dir) =
                  OV([buf EXCEPT ![dir] = <<>>], at, "next", cancelled, updated, done,
                     [mem EXCEPT !.pkt = Opcode(buf[dir][1])])
    <2> DEFINE opcode == Opcode(buf[dir][1])
               held == [buf EXCEPT ![dir] = <<>>]
               kept == [mem EXCEPT !.pkt = opcode]
               t == [s EXCEPT !.mem = kept, !.buf = held]
    <2>1. UDPPacket(s, dir) = [t EXCEPT !.says = "next"]
      BY <1>1, <1>2 DEF UDPPacket, Next_
    <2> DEFINE u == [s EXCEPT !.mem = kept]
    <2>2. t = [u EXCEPT !.buf = held]
      OBVIOUS
    <2> HIDE DEF kept, held, t
    <2>3. u = OV(buf, at, says, cancelled, updated, done, kept)
      BY OVMem
    <2> HIDE DEF u
    <2>4. t = OV(held, at, says, cancelled, updated, done, kept)
      BY <2>2, <2>3, OVBuf
    <2>5. [t EXCEPT !.says = "next"] = OV(held, at, "next", cancelled, updated, done, kept)
      BY <2>4, OVSays
    <2> QED
      BY <2>1, <2>5 DEF kept, held
  <1> QED
    BY <1>2

\* No packet stands in a buffer, or the one of this Feed; no flag is raised.
Empty == [dir \in Dirs |-> <<>>]
Holding(dir, byte) == [way \in Dirs |-> IF way = dir THEN <<byte>> ELSE <<>>]
Off == [dir \in Dirs |-> FALSE]
Mem(rx, tx, last, pkt) == [rx |-> rx, tx |-> tx, lastOpcode |-> last, pkt |-> pkt]

LEMMA Taken ==
    ASSUME NEW at, NEW says, NEW updated, NEW rx, NEW tx, NEW last, NEW pkt, NEW dir \in Dirs, NEW byte,
           NEW s, s = OV(Holding(dir, byte), at, says, Off, updated, Off, Mem(rx, tx, last, pkt)),
           NEW r, r = UDPPacket(s, dir)
    PROVE  /\ ~ValidOpcode(Opcode(byte)) =>
                 r = OV(Holding(dir, byte), at, "cancel", Off, updated, Off, Mem(rx, tx, last, pkt))
           /\ ValidOpcode(Opcode(byte)) =>
                 r = OV(Empty, at, "next", Off, updated, Off, Mem(rx, tx, last, Opcode(byte)))
  <1> DEFINE held == Holding(dir, byte)
             mem == Mem(rx, tx, last, pkt)
  <1>1. held[dir] = <<byte>> /\ held[dir] # <<>> /\ held[dir][1] = byte
    BY DEF Holding
  <1>2. [held EXCEPT ![dir] = <<>>] = Empty
    BY DEF Holding, Empty
  <1>3. [mem EXCEPT !.pkt = Opcode(byte)] = Mem(rx, tx, last, Opcode(byte))
    BY DEF Mem
  <1> HIDE DEF held, mem
  <1>4. /\ ~ValidOpcode(Opcode(held[dir][1])) =>
              UDPPacket(s, dir) = OV(held, at, "cancel", Off, updated, Off, mem)
        /\ ValidOpcode(Opcode(held[dir][1])) =>
              UDPPacket(s, dir) =
                 OV([held EXCEPT ![dir] = <<>>], at, "next", Off, updated, Off,
                    [mem EXCEPT !.pkt = Opcode(held[dir][1])])
    <2>1. s = OV(held, at, says, Off, updated, Off, mem)
      BY DEF held, mem
    <2>2. held[dir] # <<>> /\ ~ValidOpcode(Opcode(held[dir][1])) =>
             UDPPacket(s, dir) = OV(held, at, "cancel", Off, updated, Off, mem)
      <3>1. s.buf = held
        BY <2>1, OVFields
      <3>2. ASSUME held[dir] # <<>>, ~ValidOpcode(Opcode(held[dir][1]))
            PROVE  UDPPacket(s, dir) = [s EXCEPT !.says = "cancel"]
        BY <3>1, <3>2 DEF UDPPacket, Cancel
      <3>3. [s EXCEPT !.says = "cancel"] = OV(held, at, "cancel", Off, updated, Off, mem)
        BY <2>1, OVSays
      <3> QED
        BY <3>2, <3>3
    <2>3. held[dir] # <<>> /\ ValidOpcode(Opcode(held[dir][1])) =>
             UDPPacket(s, dir) =
                OV([held EXCEPT ![dir] = <<>>], at, "next", Off, updated, Off,
                   [mem EXCEPT !.pkt = Opcode(held[dir][1])])
      BY <2>1, OVPacket
    <2> QED
      BY <1>1, <2>2, <2>3
  <1>5. /\ ~ValidOpcode(Opcode(byte)) => r = OV(held, at, "cancel", Off, updated, Off, mem)
        /\ ValidOpcode(Opcode(byte)) =>
              r = OV(Empty, at, "next", Off, updated, Off, Mem(rx, tx, last, Opcode(byte)))
    BY <1>1, <1>2, <1>3, <1>4
  <1> QED
    BY <1>5 DEF held, mem

\* The parse function of each place of the two machines.
LEMMA OVStep ==
    ASSUME NEW buf, NEW at, NEW says, NEW cancelled, NEW updated, NEW done, NEW mem,
           NEW s, s = OV(buf, at, says, cancelled, updated, done, mem)
    PROVE  /\ at["req"] = 1 => RunStep(s, "req") = Moved(ClientReset(s, UDPPacket(s, "req")), "req")
           /\ at["req"] = 2 => RunStep(s, "req") = Moved(CountReq(s, UDPPacket(s, "req")), "req")
           /\ at["resp"] = 1 => RunStep(s, "resp") = Moved(ServerReset(s, UDPPacket(s, "resp")), "resp")
           /\ at["resp"] = 2 => RunStep(s, "resp") = Moved(CountResp(s, UDPPacket(s, "resp")), "resp")
  <1>1. s.analyzer = "openvpn_udp" /\ s.steps = Machines /\ s.at = at
    BY OVFields
  <1>2. /\ Machines["req"][1] = "openvpn.clientReset" /\ Machines["req"][2] = "openvpn.req"
        /\ Machines["resp"][1] = "openvpn.serverReset" /\ Machines["resp"][2] = "openvpn.resp"
    BY DEF Machines
  <1>3. ASSUME NEW step PROVE Parse(step, s) = OpenVPNParse(step, s)
    BY <1>1 DEF Parse
  <1>4. /\ OpenVPNParse("openvpn.clientReset", s) = ClientReset(s, UDPPacket(s, "req"))
        /\ OpenVPNParse("openvpn.req", s) = CountReq(s, UDPPacket(s, "req"))
        /\ OpenVPNParse("openvpn.serverReset", s) = ServerReset(s, UDPPacket(s, "resp"))
        /\ OpenVPNParse("openvpn.resp", s) = CountResp(s, UDPPacket(s, "resp"))
    BY <1>1 DEF OpenVPNParse
  <1>5. ASSUME NEW dir PROVE RunStep(s, dir) = Moved(Parse(Machines[dir][at[dir]], s), dir)
    BY <1>1 DEF RunStep
  <1> QED
    BY <1>2, <1>3, <1>4, <1>5

\* What Run's loop does after each of them.
LEMMA OVPaused ==
    ASSUME NEW buf, NEW at, NEW updated, NEW mem, NEW dir \in Dirs,
           NEW r, r = OV(buf, at, "pause", Off, updated, Off, mem)
    PROVE  Moved(r, dir) = r
  <1>1. r.says = "pause"
    BY OVFields
  <1> QED
    BY <1>1 DEF Moved

GivenUp(r, dir) == r.says = "cancel" /\ r.cancelled[dir] = TRUE
Stops(r) == \E buf, at, updated, mem : r = OV(buf, at, "cancel", Off, updated, Off, mem)

LEMMA OVCancels ==
    ASSUME NEW r, Stops(r), NEW dir \in Dirs
    PROVE  GivenUp(Moved(r, dir), dir)
  <1>1. PICK buf, at, updated, mem : r = OV(buf, at, "cancel", Off, updated, Off, mem)
    BY DEF Stops
  <1>2. r.says = "cancel"
    BY <1>1, OVFields
  <1>3. Moved(r, dir) = [r EXCEPT !.cancelled[dir] = TRUE]
    BY <1>2 DEF Moved
  <1> QED
    BY <1>1, <1>3 DEF OV, Off, GivenUp

\* The machine of a direction goes on with a packet at its place n, where last
\* is the last reset.
Accepts(dir, n, last, opcode) ==
    IF n = 2 THEN opcode \in Following
    ELSE IF dir = "req" THEN opcode \in ClientResets
    ELSE last \in ClientResets /\ opcode \in ServerResets

\* A stream with the packet of this Feed in its buffer.
Holds(s, at, rx, tx, last, dir, byte) ==
    \E says, pkt : s = OV(Holding(dir, byte), at, says, Off, Off, Off, Mem(rx, tx, last, pkt))

\* The machine of a direction is a step further.
Further(at, dir) == [at EXCEPT ![dir] = @ + 1]

\* What is counted with a packet.
Counted(rx, tx, last, dir, opcode) ==
    IF dir = "req" THEN Mem(rx, tx + 1, last, opcode) ELSE Mem(rx + 1, tx, last, opcode)

LEMMA ResetStep ==
    ASSUME NEW s, NEW at \in [Dirs -> {1, 2}], NEW rx, NEW tx, NEW last, NEW dir \in Dirs, NEW byte,
           at[dir] = 1, Holds(s, at, rx, tx, last, dir, byte)
    PROVE  /\ Accepts(dir, 1, last, Opcode(byte)) =>
                 RunStep(s, dir) = OV(Empty, Further(at, dir), "next", Off, Off, Off,
                                      Mem(rx, tx, Opcode(byte), Opcode(byte)))
           /\ ~Accepts(dir, 1, last, Opcode(byte)) => GivenUp(RunStep(s, dir), dir)
  <1>0. PICK says, pkt : s = OV(Holding(dir, byte), at, says, Off, Off, Off, Mem(rx, tx, last, pkt))
    BY DEF Holds
  <1> DEFINE opcode == Opcode(byte)
  <1> DEFINE p == UDPPacket(s, dir)
             mem == Mem(rx, tx, last, pkt)
             got == Mem(rx, tx, last, opcode)
             reset == Mem(rx, tx, opcode, opcode)
             out == IF dir = "req" THEN ClientReset(s, p) ELSE ServerReset(s, p)
  <1>1. RunStep(s, dir) = Moved(out, dir)
    BY <1>0, OVStep DEF Dirs
  <1>2. s.mem = mem /\ mem.lastOpcode = last
    BY <1>0 DEF OV, Mem
  <1>3. ~ValidOpcode(opcode) => p = OV(Holding(dir, byte), at, "cancel", Off, Off, Off, mem)
    BY <1>0, Taken
  <1>4. ValidOpcode(opcode) => p = OV(Empty, at, "next", Off, Off, Off, got)
    BY <1>0, Taken
  <1> HIDE DEF p
  <1>5. ASSUME Accepts(dir, 1, last, opcode)
        PROVE  out = OV(Empty, at, "next", Off, Off, Off, reset)
    <2>1. ValidOpcode(opcode)
      BY <1>5 DEF Accepts, ValidOpcode
    <2>2. p = OV(Empty, at, "next", Off, Off, Off, got)
      BY <1>4, <2>1
    <2>3. p.says = "next" /\ p.mem = got /\ got.pkt = opcode
      BY <2>2 DEF OV, Mem
    <2>4. out = [p EXCEPT !.mem.lastOpcode = opcode]
      BY <1>2, <1>5, <2>3 DEF Accepts, ClientReset, ServerReset
    <2> QED
      BY <2>2, <2>4 DEF OV, Mem
  <1>6. ASSUME ~Accepts(dir, 1, last, opcode)
        PROVE  Stops(out)
    <2>1. CASE dir = "resp" /\ last \notin ClientResets
      <3>1. out = [s EXCEPT !.says = "cancel"]
        BY <1>2, <2>1 DEF ServerReset, Cancel
      <3> QED
        BY <1>0, <3>1 DEF OV, Stops
    <2>2. CASE ~(dir = "resp" /\ last \notin ClientResets) /\ ~ValidOpcode(opcode)
      <3>1. p = OV(Holding(dir, byte), at, "cancel", Off, Off, Off, mem)
        BY <1>3, <2>2
      <3>2. p.says = "cancel"
        BY <3>1, OVFields
      <3>3. out = p
        BY <1>2, <2>2, <3>2 DEF ClientReset, ServerReset, Dirs
      <3> QED
        BY <3>1, <3>3 DEF Stops
    <2>3. CASE ~(dir = "resp" /\ last \notin ClientResets) /\ ValidOpcode(opcode)
      <3>1. p = OV(Empty, at, "next", Off, Off, Off, got)
        BY <1>4, <2>3
      <3>2. p.says = "next" /\ p.mem = got /\ got.pkt = opcode
        BY <3>1 DEF OV, Mem
      <3>3. out = [p EXCEPT !.says = "cancel"]
        BY <1>2, <1>6, <2>3, <3>2 DEF Accepts, ClientReset, ServerReset, Cancel, Dirs
      <3> QED
        BY <3>1, <3>3 DEF OV, Stops
    <2> QED
      BY <2>1, <2>2, <2>3
  <1> HIDE DEF out, reset
  <1>7. Accepts(dir, 1, last, opcode) =>
           Moved(out, dir) = OV(Empty, Further(at, dir), "next", Off, Off, Off, reset)
    <2>1. ASSUME Accepts(dir, 1, last, opcode)
          PROVE  Moved(out, dir) =
                    OV(Empty, Further(at, dir), "next", Off, Off, Off, reset)
      <3>1. out = OV(Empty, at, "next", Off, Off, Off, reset)
        BY <1>5, <2>1
      <3> QED
        <4> DEFINE moved == [at EXCEPT ![dir] = @ + 1]
        <4>1. out.says = "next" /\ out.at = at
          BY <3>1, OVFields
        <4>2. Moved(out, dir) = [out EXCEPT !.at = moved]
          BY <4>1 DEF Moved
        <4> HIDE DEF moved
        <4>3. Moved(out, dir) = OV(Empty, moved, "next", Off, Off, Off, reset)
          BY <3>1, <4>2, OVAt
        <4> QED
          BY <4>3 DEF moved, Further
    <2> QED
      BY <2>1
  <1>8. ~Accepts(dir, 1, last, opcode) => GivenUp(Moved(out, dir), dir)
    BY <1>6, OVCancels
  <1> QED
    BY <1>1, <1>7, <1>8 DEF reset

LEMMA CountStep ==
    ASSUME NEW s, NEW at \in [Dirs -> {1, 2}], NEW rx, NEW tx, NEW last, NEW dir \in Dirs, NEW byte,
           at[dir] = 2, Holds(s, at, rx, tx, last, dir, byte)
    PROVE  /\ Accepts(dir, 2, last, Opcode(byte)) =>
                 RunStep(s, dir) =
                    OV(Empty, at, "pause", Off, [Off EXCEPT ![dir] = TRUE], Off,
                       Counted(rx, tx, last, dir, Opcode(byte)))
           /\ ~Accepts(dir, 2, last, Opcode(byte)) => GivenUp(RunStep(s, dir), dir)
  <1>0. PICK says, pkt : s = OV(Holding(dir, byte), at, says, Off, Off, Off, Mem(rx, tx, last, pkt))
    BY DEF Holds
  <1> DEFINE opcode == Opcode(byte)
  <1> DEFINE p == UDPPacket(s, dir)
             mem == Mem(rx, tx, last, pkt)
             got == Mem(rx, tx, last, opcode)
             more == Counted(rx, tx, last, dir, opcode)
             out == IF dir = "req" THEN CountReq(s, p) ELSE CountResp(s, p)
             told == [Off EXCEPT ![dir] = TRUE]
  <1>1. RunStep(s, dir) = Moved(out, dir)
    BY <1>0, OVStep DEF Dirs
  <1>3. ~ValidOpcode(opcode) => p = OV(Holding(dir, byte), at, "cancel", Off, Off, Off, mem)
    BY <1>0, Taken
  <1>4. ValidOpcode(opcode) => p = OV(Empty, at, "next", Off, Off, Off, got)
    BY <1>0, Taken
  <1> HIDE DEF p
  <1>5. ASSUME Accepts(dir, 2, last, opcode)
        PROVE  out = OV(Empty, at, "pause", Off, told, Off, more)
    <2>1. ValidOpcode(opcode)
      BY <1>5 DEF Accepts, ValidOpcode
    <2>2. p = OV(Empty, at, "next", Off, Off, Off, got)
      BY <1>4, <2>1
    <2>3. p.says = "next" /\ p.mem = got /\ got.pkt = opcode
      BY <2>2 DEF OV, Mem
    <2> DEFINE p1 == [p EXCEPT !.mem = more]
               p2 == [p1 EXCEPT !.updated = told]
    <2>4. out = [p2 EXCEPT !.says = "pause"]
      <3>1. p.updated = Off
        BY <2>2, OVFields
      <3>2. CASE dir = "req"
        <4>1. more = [got EXCEPT !.tx = @ + 1] /\ told = [Off EXCEPT !["req"] = TRUE]
          BY <3>2 DEF Mem, Counted
        <4>2. out = [[p EXCEPT !.mem.tx = @ + 1, !.updated["req"] = TRUE] EXCEPT !.says = "pause"]
          BY <1>5, <2>3, <3>2 DEF Accepts, CountReq, Pause
        <4> HIDE DEF more, told, got
        <4> QED
          BY <2>3, <3>1, <4>1, <4>2
      <3>3. CASE dir = "resp"
        <4>1. more = [got EXCEPT !.rx = @ + 1] /\ told = [Off EXCEPT !["resp"] = TRUE]
          BY <3>3 DEF Mem, Counted
        <4>2. out = [[p EXCEPT !.mem.rx = @ + 1, !.updated["resp"] = TRUE] EXCEPT !.says = "pause"]
          BY <1>5, <2>3, <3>3 DEF Accepts, CountResp, Pause
        <4> HIDE DEF more, told, got
        <4> QED
          BY <2>3, <3>1, <4>1, <4>2
      <3> QED
        BY <3>2, <3>3 DEF Dirs
    <2> HIDE DEF p1, p2, more, told, out
    <2>5. p1 = OV(Empty, at, "next", Off, Off, Off, more)
      BY <2>2, OVMem DEF p1
    <2>6. p2 = OV(Empty, at, "next", Off, told, Off, more)
      BY <2>5, OVUpdated DEF p2
    <2> QED
      BY <2>4, <2>6, OVSays
  <1>6. ASSUME ~Accepts(dir, 2, last, opcode)
        PROVE  Stops(out)
    <2>2. CASE ~ValidOpcode(opcode)
      <3>1. p = OV(Holding(dir, byte), at, "cancel", Off, Off, Off, mem)
        BY <1>3, <2>2
      <3>2. p.says = "cancel"
        BY <3>1, OVFields
      <3>3. out = p
        BY <2>2, <3>2 DEF CountReq, CountResp, Dirs
      <3> QED
        BY <3>1, <3>3 DEF Stops
    <2>3. CASE ValidOpcode(opcode)
      <3>1. p = OV(Empty, at, "next", Off, Off, Off, got)
        BY <1>4, <2>3
      <3>2. p.says = "next" /\ p.mem = got /\ got.pkt = opcode
        BY <3>1 DEF OV, Mem
      <3>3. out = [p EXCEPT !.says = "cancel"]
        BY <1>6, <2>3, <3>2 DEF Accepts, CountReq, CountResp, Cancel, Dirs
      <3> QED
        BY <3>1, <3>3 DEF OV, Stops
    <2> QED
      BY <2>2, <2>3
  <1> HIDE DEF out, more, told
  <1>7. Accepts(dir, 2, last, opcode) =>
           Moved(out, dir) = OV(Empty, at, "pause", Off, told, Off, more)
    BY <1>5, OVPaused
  <1>8. ~Accepts(dir, 2, last, opcode) => GivenUp(Moved(out, dir), dir)
    BY <1>6, OVCancels
  <1> QED
    BY <1>1, <1>7, <1>8 DEF more, told

\* A round: a parse function, unless the machine stands still.
LEMMA RoundRuns ==
    ASSUME NEW buf, NEW at \in [Dirs -> {1, 2}], NEW cancelled, NEW updated, NEW done, NEW mem,
           NEW dir \in Dirs,
           NEW s, s = OV(buf, at, "next", cancelled, updated, done, mem)
    PROVE  Round(s, dir) = RunStep(s, dir)
  <1>1. s.says = "next" /\ s.at = at /\ s.steps = Machines
    BY OVFields
  <1>2. Len(Machines[dir]) = 2 /\ at[dir] <= 2
    BY DEF Machines, Dirs
  <1> QED
    BY <1>1, <1>2 DEF Round

LEMMA RoundStands ==
    ASSUME NEW r, r.says \in {"pause", "cancel"}, NEW dir
    PROVE  Round(r, dir) = r
  BY DEF Round

LEMMA OVRounds ==
    ASSUME NEW at, NEW says, NEW updated, NEW mem, NEW dir \in Dirs, NEW byte,
           NEW s, s = OV(Holding(dir, byte), at, says, Off, updated, Off, mem)
    PROVE  MaxRounds(s, dir) = 7
  <1>1. s.buf = Holding(dir, byte) /\ s.steps = Machines
    BY OVFields
  <1>2. Len(Machines[dir]) = 2 /\ Len(Holding(dir, byte)[dir]) = 1
    BY DEF Machines, Dirs, Holding
  <1> QED
    BY <1>1, <1>2 DEF MaxRounds

LEMMA OVPauses ==
    ASSUME NEW at \in [Dirs -> {1, 2}], NEW says, NEW cancelled, NEW updated, NEW done, NEW mem,
           NEW dir \in Dirs, at[dir] = 2,
           NEW s, s = OV(Empty, at, says, cancelled, updated, done, mem)
    PROVE  RunStep(s, dir) = OV(Empty, at, "pause", cancelled, updated, done, mem)
  <1> DEFINE p == UDPPacket(s, dir)
             out == IF dir = "req" THEN CountReq(s, p) ELSE CountResp(s, p)
  <1>1. RunStep(s, dir) = Moved(out, dir)
    BY OVStep DEF Dirs
  <1>2. p = [s EXCEPT !.says = "pause"]
    <2>1. s.buf = Empty /\ Empty[dir] = <<>>
      BY OVFields DEF Empty
    <2> QED
      BY <2>1 DEF UDPPacket, Pause
  <1>3. p = OV(Empty, at, "pause", cancelled, updated, done, mem)
    BY <1>2, OVSays
  <1>4. p.says = "pause"
    BY <1>3, OVFields
  <1>5. out = p
    BY <1>4 DEF CountReq, CountResp
  <1> HIDE DEF p, out
  <1>6. Moved(p, dir) = p
    BY <1>4 DEF Moved
  <1> QED
    BY <1>1, <1>3, <1>5, <1>6

\* The first packet of a direction: the machine waits for the next.
LEMMA RunReset ==
    ASSUME NEW s, NEW at \in [Dirs -> {1, 2}], NEW rx, NEW tx, NEW last, NEW dir \in Dirs, NEW byte,
           at[dir] = 1, Holds(s, at, rx, tx, last, dir, byte)
    PROVE  /\ Accepts(dir, 1, last, Opcode(byte)) =>
                 Run(s, dir) = OV(Empty, Further(at, dir), "pause", Off, Off, Off,
                                  Mem(rx, tx, Opcode(byte), Opcode(byte)))
           /\ ~Accepts(dir, 1, last, Opcode(byte)) => GivenUp(Run(s, dir), dir)
  <1>0. PICK says, pkt : s = OV(Holding(dir, byte), at, says, Off, Off, Off, Mem(rx, tx, last, pkt))
    BY DEF Holds
  <1> DEFINE opcode == Opcode(byte)
             held == Holding(dir, byte)
             mem == Mem(rx, tx, last, pkt)
             reset == Mem(rx, tx, opcode, opcode)
             moved == Further(at, dir)
             r0 == Next_(s)
             r1 == Round(r0, dir)
             r2 == Round(r1, dir)
  <1>1. MaxRounds(s, dir) = 7
    BY <1>0, OVRounds
  <1>2. r0 = OV(held, at, "next", Off, Off, Off, mem)
    BY <1>0, OVSays DEF Next_
  <1>3. /\ Accepts(dir, 1, last, opcode) => RunStep(r0, dir) = OV(Empty, moved, "next", Off, Off, Off, reset)
        /\ ~Accepts(dir, 1, last, opcode) => GivenUp(RunStep(r0, dir), dir)
    <2> HIDE DEF r0
    <2>1. Holds(r0, at, rx, tx, last, dir, byte)
      BY <1>2 DEF Holds
    <2>2. Accepts(dir, 1, last, opcode) =>
             RunStep(r0, dir) = OV(Empty, Further(at, dir), "next", Off, Off, Off,
                                   Mem(rx, tx, opcode, opcode))
      BY <2>1, ResetStep
    <2>3. ~Accepts(dir, 1, last, opcode) => GivenUp(RunStep(r0, dir), dir)
      BY <2>1, ResetStep
    <2> QED
      BY <2>2, <2>3
  <1>4. moved \in [Dirs -> {1, 2}] /\ moved[dir] = 2
    BY DEF Further
  <1> HIDE DEF held, mem, reset, moved, r0
  <1>5. r1 = RunStep(r0, dir)
    BY <1>2, RoundRuns
  <1>6. ASSUME Accepts(dir, 1, last, opcode)
        PROVE  r2 = OV(Empty, moved, "pause", Off, Off, Off, reset)
    <2>1. r1 = OV(Empty, moved, "next", Off, Off, Off, reset)
      BY <1>3, <1>5, <1>6
    <2> HIDE DEF r1
    <2>2. r2 = RunStep(r1, dir)
      BY <1>4, <2>1, RoundRuns
    <2> HIDE DEF r2
    <2>3. RunStep(r1, dir) = OV(Empty, moved, "pause", Off, Off, Off, reset)
      BY <1>4, <2>1, OVPauses
    <2> QED
      BY <2>2, <2>3
  <1>7. ASSUME ~Accepts(dir, 1, last, opcode) PROVE GivenUp(r1, dir) /\ r2 = r1
    <2>1. GivenUp(r1, dir)
      BY <1>3, <1>5, <1>7
    <2> HIDE DEF r1
    <2> QED
      BY <2>1, RoundStands DEF GivenUp
  <1>8. r2.says \in {"pause", "cancel"}
    <2> HIDE DEF r1, r2
    <2>1. CASE Accepts(dir, 1, last, opcode)
      BY <1>6, <2>1, OVFields
    <2>2. CASE ~Accepts(dir, 1, last, opcode)
      BY <1>7, <2>2 DEF GivenUp
    <2> QED
      BY <2>1, <2>2
  <1>9. Run(s, dir) = r2
    <2>1. Round(r2, dir) = r2
      <3> HIDE DEF r2
      <3> QED
        BY <1>8, RoundStands
    <2>2. r0 = Next_(s) /\ r1 = Round(r0, dir) /\ r2 = Round(r1, dir)
      BY DEF r0
    <2>3. MaxRounds(s, dir) \in Nat /\ MaxRounds(s, dir) >= 2
      BY <1>1
    <2> HIDE DEF r1, r2
    <2> QED
      BY <2>1, <2>2, <2>3, RunSettles
  <1> HIDE DEF r1, r2
  <1> QED
    BY <1>6, <1>7, <1>9 DEF moved, reset

\* A packet behind the reset: it is counted.
LEMMA RunCount ==
    ASSUME NEW s, NEW at \in [Dirs -> {1, 2}], NEW rx, NEW tx, NEW last, NEW dir \in Dirs, NEW byte,
           at[dir] = 2, Holds(s, at, rx, tx, last, dir, byte)
    PROVE  /\ Accepts(dir, 2, last, Opcode(byte)) =>
                 Run(s, dir) = OV(Empty, at, "pause", Off, [Off EXCEPT ![dir] = TRUE], Off,
                                  Counted(rx, tx, last, dir, Opcode(byte)))
           /\ ~Accepts(dir, 2, last, Opcode(byte)) => GivenUp(Run(s, dir), dir)
  <1>0. PICK says, pkt : s = OV(Holding(dir, byte), at, says, Off, Off, Off, Mem(rx, tx, last, pkt))
    BY DEF Holds
  <1> DEFINE opcode == Opcode(byte)
             held == Holding(dir, byte)
             mem == Mem(rx, tx, last, pkt)
             more == Counted(rx, tx, last, dir, opcode)
             told == [Off EXCEPT ![dir] = TRUE]
             r0 == Next_(s)
             r1 == Round(r0, dir)
             r2 == Round(r1, dir)
  <1>1. MaxRounds(s, dir) = 7
    BY <1>0, OVRounds
  <1>2. r0 = OV(held, at, "next", Off, Off, Off, mem)
    BY <1>0, OVSays DEF Next_
  <1>3. /\ Accepts(dir, 2, last, opcode) => RunStep(r0, dir) = OV(Empty, at, "pause", Off, told, Off, more)
        /\ ~Accepts(dir, 2, last, opcode) => GivenUp(RunStep(r0, dir), dir)
    <2> HIDE DEF r0
    <2>2. Holds(r0, at, rx, tx, last, dir, byte)
      BY <1>2 DEF Holds
    <2>3. Accepts(dir, 2, last, opcode) =>
             RunStep(r0, dir) =
                OV(Empty, at, "pause", Off, [Off EXCEPT ![dir] = TRUE], Off,
                   Counted(rx, tx, last, dir, opcode))
      BY <2>2, CountStep
    <2>4. ~Accepts(dir, 2, last, opcode) => GivenUp(RunStep(r0, dir), dir)
      BY <2>2, CountStep
    <2> QED
      BY <2>3, <2>4
  <1> HIDE DEF held, mem, more, told, r0
  <1>5. r1 = RunStep(r0, dir)
    BY <1>2, RoundRuns
  <1>6. ASSUME Accepts(dir, 2, last, opcode)
        PROVE  r1 = OV(Empty, at, "pause", Off, told, Off, more)
    BY <1>3, <1>5, <1>6
  <1>7. ASSUME ~Accepts(dir, 2, last, opcode) PROVE GivenUp(r1, dir)
    BY <1>3, <1>5, <1>7
  <1>8. r1.says \in {"pause", "cancel"}
    <2> HIDE DEF r1
    <2>1. CASE Accepts(dir, 2, last, opcode)
      BY <1>6, <2>1, OVFields
    <2>2. CASE ~Accepts(dir, 2, last, opcode)
      BY <1>7, <2>2 DEF GivenUp
    <2> QED
      BY <2>1, <2>2
  <1>9. Run(s, dir) = r2 /\ r2 = r1
    <2>1. r2 = r1 /\ Round(r2, dir) = r2
      <3> HIDE DEF r1
      <3> QED
        BY <1>8, RoundStands
    <2>2. r0 = Next_(s) /\ r1 = Round(r0, dir) /\ r2 = Round(r1, dir)
      BY DEF r0
    <2>3. MaxRounds(s, dir) \in Nat /\ MaxRounds(s, dir) >= 2
      BY <1>1
    <2> HIDE DEF r1, r2
    <2> QED
      BY <2>1, <2>2, <2>3, RunSettles
  <1> HIDE DEF r1, r2
  <1> QED
    BY <1>6, <1>7, <1>9 DEF more, told

\* A stream between two Feeds.
Rests(s, at, rx, tx, last) ==
    \E says, pkt : s = OV(Empty, at, says, Off, Off, Off, Mem(rx, tx, last, pkt))

LEMMA OVDone ==
    ASSUME NEW buf, NEW at, NEW says, NEW cancelled, NEW updated, NEW done, NEW mem, NEW new,
           NEW s, s = OV(buf, at, says, cancelled, updated, done, mem)
    PROVE  [s EXCEPT !.done = new] = OV(buf, at, says, cancelled, updated, new, mem)
  BY DEF OV

\* A Feed puts its packet into the empty buffer.
LEMMA FeedHolds ==
    ASSUME NEW s, NEW at, NEW rx, NEW tx, NEW last, NEW dir \in Dirs, NEW byte,
           Rests(s, at, rx, tx, last)
    PROVE  Holds([Append_(WithoutPacket(s), dir, <<byte>>) EXCEPT !.updated[dir] = FALSE],
                 at, rx, tx, last, dir, byte)
  <1>1. PICK says, pkt : s = OV(Empty, at, says, Off, Off, Off, Mem(rx, tx, last, pkt))
    BY DEF Rests
  <1> DEFINE mem == Mem(rx, tx, last, pkt)
             held == Holding(dir, byte)
             w == WithoutPacket(s)
             a == Append_(w, dir, <<byte>>)
             u == [a EXCEPT !.updated[dir] = FALSE]
  <1>2. w = OV(Empty, at, says, Off, Off, Off, mem)
    BY <1>1, OVBuf DEF WithoutPacket, Empty
  <1> HIDE DEF w, mem
  <1>3. a = OV(held, at, says, Off, Off, Off, mem)
    <2>1. w.buf = Empty
      BY <1>2, OVFields
    <2>2. [Empty EXCEPT ![dir] = @ \o <<byte>>] = held
      <3>1. Empty[dir] \o <<byte>> = <<byte>>
        <4>1. Empty[dir] = <<>>
          BY DEF Empty
        <4> QED
          BY <4>1
      <3> QED
        BY <3>1 DEF Empty, Holding
    <2>3. a = [w EXCEPT !.buf = [w.buf EXCEPT ![dir] = @ \o <<byte>>]]
      BY DEF Append_
    <2>4. a = [w EXCEPT !.buf = held]
      BY <2>1, <2>2, <2>3
    <2> HIDE DEF a, held
    <2> QED
      BY <1>2, <2>4, OVBuf
  <1> HIDE DEF a, held
  <1>4. u = OV(held, at, says, Off, Off, Off, mem)
    <2>1. a.updated = Off
      BY <1>3, OVFields
    <2>2. u = [a EXCEPT !.updated = Off]
      <3>1. [Off EXCEPT ![dir] = FALSE] = Off
        BY DEF Off
      <3> QED
        BY <2>1, <3>1
    <2> HIDE DEF u
    <2> QED
      BY <1>3, <2>2, OVUpdated
  <1> HIDE DEF u
  <1>5. Holds(u, at, rx, tx, last, dir, byte)
    BY <1>4 DEF Holds, mem, held
  <1> QED
    BY <1>5 DEF u, a, w

Limited(rx, tx) == rx + tx > PktLimit

\* A Feed leaves a stream behind that rests, and is over at the limit only.
Leaves(r, dir, at, rx, tx, last) ==
    /\ Rests([r EXCEPT !.updated[dir] = FALSE], at, rx, tx, last)
    /\ OpenVPNOver(r, dir) <=> Limited(rx, tx)

\* What a Feed that is not refused leaves behind, and one that is.
LEMMA FeedRests ==
    ASSUME NEW at, NEW dir \in Dirs, NEW updated \in {Off, [Off EXCEPT ![dir] = TRUE]},
           NEW rx, NEW tx, NEW last, NEW pkt,
           NEW r, r = OV(Empty, at, "pause", Off, updated, Off, Mem(rx, tx, last, pkt))
    PROVE  Leaves(NoteDone(r, dir), dir, at, rx, tx, last)
  <1> DEFINE mem == Mem(rx, tx, last, pkt)
             d == NoteDone(r, dir)
             u == [d EXCEPT !.updated[dir] = FALSE]
  <1>1. r.says = "pause" /\ r.done = Off
    BY OVFields
  <1>2. [Off EXCEPT ![dir] = FALSE] = Off /\ [updated EXCEPT ![dir] = FALSE] = Off
    BY DEF Off
  <1>3. d = OV(Empty, at, "pause", Off, updated, Off, mem)
    <2>1. d = [r EXCEPT !.done = Off]
      BY <1>1, <1>2 DEF NoteDone
    <2> HIDE DEF d
    <2> QED
      BY <2>1, OVDone
  <1> HIDE DEF d, mem
  <1>4. u = OV(Empty, at, "pause", Off, Off, Off, mem)
    <2>1. d.updated = updated
      BY <1>3, OVFields
    <2>2. u = [d EXCEPT !.updated = Off]
      BY <1>2, <2>1
    <2> HIDE DEF u
    <2> QED
      BY <1>3, <2>2, OVUpdated
  <1>5. Rests(u, at, rx, tx, last)
    <2> HIDE DEF u
    <2> QED
      BY <1>4 DEF Rests, mem
  <1>6. OpenVPNOver(d, dir) <=> Limited(rx, tx)
    <2>1. d.cancelled = Off /\ d.done = Off /\ d.mem = mem /\ mem.rx = rx /\ mem.tx = tx
      BY <1>3, OVFields DEF mem, Mem
    <2>2. ~Over(d, dir)
      BY <2>1 DEF Over, Off, Dirs
    <2> QED
      BY <2>1, <2>2 DEF OpenVPNOver, Limited
  <1> QED
    BY <1>5, <1>6 DEF d, Leaves

LEMMA FeedStops ==
    ASSUME NEW dir, NEW r, GivenUp(r, dir)
    PROVE  OpenVPNOver(NoteDone(r, dir), dir)
  BY DEF GivenUp, NoteDone, OpenVPNOver, Over

\* What a Feed does to a stream that rests.
LEMMA FeedResets ==
    ASSUME NEW s, NEW at \in [Dirs -> {1, 2}], NEW rx, NEW tx, NEW last, NEW dir \in Dirs, NEW byte,
           Rests(s, at, rx, tx, last), at[dir] = 1, Accepts(dir, 1, last, Opcode(byte)),
           NEW r, r = FeedMachine(WithoutPacket(s), dir, <<byte>>)
    PROVE  Leaves(r, dir, Further(at, dir), rx, tx, Opcode(byte))
  <1> DEFINE x == [Append_(WithoutPacket(s), dir, <<byte>>) EXCEPT !.updated[dir] = FALSE]
             y == Run(x, dir)
             moved == Further(at, dir)
             opcode == Opcode(byte)
  <1>1. Holds(x, at, rx, tx, last, dir, byte)
    BY FeedHolds
  <1>2. r = NoteDone(y, dir)
    BY DEF FeedMachine
  <1> HIDE DEF x
  <1>3. y = OV(Empty, moved, "pause", Off, Off, Off, Mem(rx, tx, opcode, opcode))
    BY <1>1, RunReset
  <1> HIDE DEF y, moved, opcode
  <1>4. Off \in {Off, [Off EXCEPT ![dir] = TRUE]}
    OBVIOUS
  <1>5. Leaves(NoteDone(y, dir), dir, moved, rx, tx, opcode)
    BY <1>3, <1>4, FeedRests
  <1> QED
    BY <1>2, <1>5 DEF moved, opcode

LEMMA FeedCounts ==
    ASSUME NEW s, NEW at \in [Dirs -> {1, 2}], NEW rx, NEW tx, NEW last, NEW dir \in Dirs, NEW byte,
           Rests(s, at, rx, tx, last), at[dir] = 2, Accepts(dir, 2, last, Opcode(byte)),
           NEW r, r = FeedMachine(WithoutPacket(s), dir, <<byte>>),
           NEW rx2, rx2 = (IF dir = "req" THEN rx ELSE rx + 1),
           NEW tx2, tx2 = (IF dir = "req" THEN tx + 1 ELSE tx)
    PROVE  Leaves(r, dir, at, rx2, tx2, last)
  <1> DEFINE x == [Append_(WithoutPacket(s), dir, <<byte>>) EXCEPT !.updated[dir] = FALSE]
             y == Run(x, dir)
             told == [Off EXCEPT ![dir] = TRUE]
             opcode == Opcode(byte)
  <1>1. Holds(x, at, rx, tx, last, dir, byte)
    BY FeedHolds
  <1>2. r = NoteDone(y, dir)
    BY DEF FeedMachine
  <1> HIDE DEF x
  <1>3. y = OV(Empty, at, "pause", Off, told, Off, Counted(rx, tx, last, dir, opcode))
    BY <1>1, RunCount
  <1>4. Counted(rx, tx, last, dir, opcode) = Mem(rx2, tx2, last, opcode)
    BY DEF Counted
  <1> HIDE DEF y, opcode
  <1>5. told \in {Off, [Off EXCEPT ![dir] = TRUE]}
    OBVIOUS
  <1>6. Leaves(NoteDone(y, dir), dir, at, rx2, tx2, last)
    BY <1>3, <1>4, <1>5, FeedRests
  <1> QED
    BY <1>2, <1>6

LEMMA FeedRefuses ==
    ASSUME NEW s, NEW at \in [Dirs -> {1, 2}], NEW rx, NEW tx, NEW last, NEW dir \in Dirs, NEW byte,
           Rests(s, at, rx, tx, last), ~Accepts(dir, at[dir], last, Opcode(byte)),
           NEW r, r = FeedMachine(WithoutPacket(s), dir, <<byte>>)
    PROVE  OpenVPNOver(r, dir)
  <1> DEFINE x == [Append_(WithoutPacket(s), dir, <<byte>>) EXCEPT !.updated[dir] = FALSE]
             y == Run(x, dir)
  <1>1. Holds(x, at, rx, tx, last, dir, byte)
    BY FeedHolds
  <1>2. r = NoteDone(y, dir)
    BY DEF FeedMachine
  <1> HIDE DEF x
  <1>3. GivenUp(y, dir)
    <2>1. CASE at[dir] = 1
      BY <1>1, <2>1, RunReset
    <2>2. CASE at[dir] = 2
      BY <1>1, <2>2, RunCount
    <2>3. at[dir] \in {1, 2}
      OBVIOUS
    <2> QED
      BY <2>1, <2>2, <2>3
  <1> QED
    BY <1>2, <1>3, FeedStops

\* What the history says.  The first packet of a direction is a reset, the
\* client's comes first, others follow.
IsFirst(f, k) == \A j \in OfWay(f, f[k].rev) : k <= j
ResetsOf(rev) == IF rev THEN ServerResets ELSE ClientResets
IsRight(f, k) ==
    /\ Opcode(f[k].byte) \in IF IsFirst(f, k) THEN ResetsOf(f[k].rev) ELSE Following
    /\ f[k].rev => \E j \in OfWay(f, FALSE) : j < k
IsValid(f) == \A k \in DOMAIN f : IsRight(f, k)
BehindOf(f, rev) == IF OfWay(f, rev) = {} THEN 0 ELSE Cardinality(OfWay(f, rev)) - 1

DirOf(rev) == IF rev THEN "resp" ELSE "req"
AtOf(f) == [dir \in Dirs |-> IF OfWay(f, dir = "resp") = {} THEN 1 ELSE 2]

\* A packet changes nothing about those before it.
LEMMA RightStays ==
    ASSUME NEW T, NEW f \in Seq(T), NEW p \in T, NEW k \in 1..Len(f)
    PROVE  IsRight(Append(f, p), k) <=> IsRight(f, k)
  <1> DEFINE g == Append(f, p)
             n == Len(f)
  <1>1. /\ n \in Nat /\ DOMAIN f = 1..n /\ DOMAIN g = 1..n + 1
        /\ g[n + 1] = p /\ \A j \in 1..n : g[j] = f[j]
    BY OneMore
  <1>2. k \in 1..n
    OBVIOUS
  <1> HIDE DEF g, n
  <1>3. g[k] = f[k]
    BY <1>1, <1>2
  <1>4. ASSUME NEW rev
        PROVE  /\ OfWay(f, rev) \subseteq OfWay(g, rev)
               /\ OfWay(g, rev) \subseteq OfWay(f, rev) \cup {n + 1}
    <2>1. ASSUME NEW j \in OfWay(f, rev) PROVE j \in OfWay(g, rev)
      <3>1. j \in 1..n /\ f[j].rev = rev
        BY <1>1 DEF OfWay
      <3>2. j \in DOMAIN g /\ g[j] = f[j]
        BY <1>1, <3>1
      <3> QED
        BY <3>1, <3>2 DEF OfWay
    <2>2. ASSUME NEW j \in OfWay(g, rev), j # n + 1 PROVE j \in OfWay(f, rev)
      <3>1. j \in 1..n + 1 /\ g[j].rev = rev
        BY <1>1 DEF OfWay
      <3>2. j \in 1..n
        BY <1>1, <2>2, <3>1
      <3>3. j \in DOMAIN f /\ f[j] = g[j]
        BY <1>1, <3>2
      <3> QED
        BY <3>1, <3>3 DEF OfWay
    <2> QED
      BY <2>1, <2>2
  <1>5. IsFirst(g, k) <=> IsFirst(f, k)
    <2>1. k <= n + 1
      BY <1>1, <1>2
    <2> DEFINE A == OfWay(f, f[k].rev)
               B == OfWay(g, f[k].rev)
    <2>2. A \subseteq B /\ B \subseteq A \cup {n + 1}
      BY <1>4
    <2>3. (IsFirst(f, k) <=> \A j \in A : k <= j) /\ (IsFirst(g, k) <=> \A j \in B : k <= j)
      BY <1>3 DEF IsFirst
    <2> HIDE DEF A, B
    <2> QED
      BY <2>1, <2>2, <2>3
  <1>6. (\E j \in OfWay(g, FALSE) : j < k) <=> (\E j \in OfWay(f, FALSE) : j < k)
    <2>1. ~(n + 1 < k)
      BY <1>1, <1>2
    <2> DEFINE A == OfWay(f, FALSE)
               B == OfWay(g, FALSE)
    <2>2. A \subseteq B /\ B \subseteq A \cup {n + 1}
      BY <1>4
    <2> HIDE DEF A, B
    <2>3. (\E j \in B : j < k) <=> (\E j \in A : j < k)
      BY <2>1, <2>2
    <2> QED
      BY <2>3 DEF A, B
  <1> QED
    BY <1>3, <1>5, <1>6 DEF IsRight, g

LEMMA ValidMore ==
    ASSUME NEW T, NEW f \in Seq(T), NEW p \in T, IsValid(f)
    PROVE  IsValid(Append(f, p)) <=> IsRight(Append(f, p), Len(f) + 1)
  <1>1. /\ Len(f) \in Nat /\ DOMAIN f = 1..Len(f) /\ DOMAIN Append(f, p) = 1..Len(f) + 1
    BY OneMore
  <1>2. \A k \in 1..Len(f) : IsRight(Append(f, p), k)
    <2>1. \A k \in 1..Len(f) : IsRight(f, k)
      BY <1>1 DEF IsValid
    <2> QED
      BY <2>1, RightStays
  <1> QED
    BY <1>1, <1>2 DEF IsValid

\* The last reset is the client's as long as the server sent nothing.
LastReset(f, last) == OfWay(f, TRUE) = {} => (last \in ClientResets <=> OfWay(f, FALSE) # {})

LEMMA WhereAt ==
    ASSUME NEW f
    PROVE  /\ AtOf(f) \in [Dirs -> {1, 2}]
           /\ AtOf(f)["req"] = IF OfWay(f, FALSE) = {} THEN 1 ELSE 2
           /\ AtOf(f)["resp"] = IF OfWay(f, TRUE) = {} THEN 1 ELSE 2
  BY DEF AtOf, Dirs

\* The machine of its direction accepts a packet that is right.
LEMMA AcceptsRight ==
    ASSUME NEW f \in Seq(PacketType("openvpn_udp")), NEW p \in PacketType("openvpn_udp"),
           IsValid(f), NEW last, LastReset(f, last), NEW dir, dir = DirOf(p.rev)
    PROVE  IsRight(Append(f, p), Len(f) + 1) <=> Accepts(dir, AtOf(f)[dir], last, Opcode(p.byte))
  <1> DEFINE g == Append(f, p)
             n == Len(f)
             opcode == Opcode(p.byte)
  <1>1. /\ n \in Nat /\ DOMAIN f = 1..n /\ DOMAIN g = 1..n + 1
        /\ g[n + 1] = p /\ \A k \in 1..n : g[k] = f[k]
    BY OneMore
  <1>2. p.rev \in BOOLEAN
    BY DEF PacketType
  <1>3. \A rev \in BOOLEAN : OfWay(f, rev) \subseteq 1..n
    BY <1>1 DEF OfWay
  <1>4. OfWay(g, p.rev) = OfWay(f, p.rev) \cup {n + 1}
    BY WayGrows
  <1>5. p.rev # FALSE => OfWay(g, FALSE) = OfWay(f, FALSE)
    BY WayStays
  <1> HIDE DEF g, n, opcode
  <1>6. IsFirst(g, n + 1) <=> OfWay(f, p.rev) = {}
    <2>1. IsFirst(g, n + 1) <=> \A j \in OfWay(f, p.rev) \cup {n + 1} : n + 1 <= j
      BY <1>1, <1>4 DEF IsFirst
    <2>2. OfWay(f, p.rev) \subseteq 1..n
      BY <1>2, <1>3
    <2>3. \A j \in 1..n : ~(n + 1 <= j)
      BY <1>1
    <2>4. n + 1 <= n + 1
      BY <1>1
    <2> QED
      BY <2>1, <2>2, <2>3, <2>4
  <1>7. IsRight(g, n + 1) <=>
           /\ opcode \in IF OfWay(f, p.rev) = {} THEN ResetsOf(p.rev) ELSE Following
           /\ p.rev => \E j \in OfWay(g, FALSE) : j < n + 1
    BY <1>1, <1>6 DEF IsRight, opcode
  <1>8. CASE p.rev = FALSE
    <2>1. dir = "req" /\ AtOf(f)[dir] = IF OfWay(f, FALSE) = {} THEN 1 ELSE 2
      BY <1>8, WhereAt DEF DirOf
    <2>2. IsRight(g, n + 1) <=> opcode \in IF OfWay(f, FALSE) = {} THEN ClientResets ELSE Following
      BY <1>7, <1>8 DEF ResetsOf
    <2>3. Accepts(dir, AtOf(f)[dir], last, opcode) <=>
             opcode \in IF OfWay(f, FALSE) = {} THEN ClientResets ELSE Following
      <3>1. CASE OfWay(f, FALSE) = {}
        <4>1. AtOf(f)[dir] = 1
          BY <2>1, <3>1
        <4> QED
          BY <2>1, <3>1, <4>1 DEF Accepts
      <3>2. CASE OfWay(f, FALSE) # {}
        <4>1. AtOf(f)[dir] = 2
          BY <2>1, <3>2
        <4> QED
          BY <2>1, <3>2, <4>1 DEF Accepts
      <3> QED
        BY <3>1, <3>2
    <2> QED
      BY <2>2, <2>3 DEF g, n, opcode
  <1>9. CASE p.rev = TRUE
    <2>1. dir = "resp" /\ AtOf(f)[dir] = IF OfWay(f, TRUE) = {} THEN 1 ELSE 2
      BY <1>9, WhereAt DEF DirOf
    <2>2. (\E j \in OfWay(g, FALSE) : j < n + 1) <=> OfWay(f, FALSE) # {}
      <3>1. OfWay(g, FALSE) = OfWay(f, FALSE) /\ OfWay(f, FALSE) \subseteq 1..n
        BY <1>3, <1>5, <1>9
      <3>2. \A j \in 1..n : j < n + 1
        BY <1>1
      <3> QED
        BY <3>1, <3>2
    <2>3. IsRight(g, n + 1) <=>
             /\ opcode \in IF OfWay(f, TRUE) = {} THEN ServerResets ELSE Following
             /\ OfWay(f, FALSE) # {}
      BY <1>7, <1>9, <2>2 DEF ResetsOf
    <2>4. CASE OfWay(f, TRUE) = {}
      <3>1. last \in ClientResets <=> OfWay(f, FALSE) # {}
        BY <2>4 DEF LastReset
      <3>2. AtOf(f)[dir] = 1
        BY <2>1, <2>4
      <3>3. Accepts(dir, AtOf(f)[dir], last, opcode) <=> last \in ClientResets /\ opcode \in ServerResets
        <4>1. Accepts("resp", 1, last, opcode) <=> last \in ClientResets /\ opcode \in ServerResets
          BY DEF Accepts
        <4>2. dir = "resp"
          BY <2>1
        <4> QED
          BY <3>2, <4>1, <4>2
      <3>4. IsRight(g, n + 1) <=> opcode \in ServerResets /\ OfWay(f, FALSE) # {}
        BY <2>3, <2>4
      <3> QED
        BY <3>1, <3>3, <3>4 DEF g, n, opcode
    <2>5. CASE OfWay(f, TRUE) # {}
      <3>1. OfWay(f, FALSE) # {}
        <4>1. PICK k \in OfWay(f, TRUE) : TRUE
          BY <2>5
        <4>2. k \in DOMAIN f /\ f[k].rev = TRUE
          BY DEF OfWay
        <4>3. IsRight(f, k)
          BY <4>2 DEF IsValid
        <4> QED
          BY <4>2, <4>3 DEF IsRight
      <3> QED
        BY <2>1, <2>3, <2>5, <3>1 DEF Accepts, g, n, opcode
    <2> QED
      BY <2>4, <2>5
  <1> QED
    BY <1>2, <1>8, <1>9

\* The first packet of a direction moves its machine and is not counted, the
\* others are counted.
LEMMA FirstOfWay ==
    ASSUME NEW f \in Seq(PacketType("openvpn_udp")), NEW p \in PacketType("openvpn_udp"),
           NEW g, g = Append(f, p), OfWay(f, p.rev) = {}
    PROVE  /\ AtOf(g) = Further(AtOf(f), DirOf(p.rev))
           /\ BehindOf(g, TRUE) = BehindOf(f, TRUE) /\ BehindOf(g, FALSE) = BehindOf(f, FALSE)
           /\ OfWay(g, p.rev) # {} /\ \A rev \in BOOLEAN : rev # p.rev => OfWay(g, rev) = OfWay(f, rev)
  <1>1. p.rev \in BOOLEAN /\ Len(f) \in Nat
    BY DEF PacketType
  <1>2. OfWay(g, p.rev) = {Len(f) + 1}
    <2>1. OfWay(g, p.rev) = OfWay(f, p.rev) \cup {Len(f) + 1}
      BY WayGrows
    <2> QED
      BY <2>1
  <1>3. \A rev \in BOOLEAN : rev # p.rev => OfWay(g, rev) = OfWay(f, rev)
    BY WayStays
  <1>4. Cardinality({Len(f) + 1}) = 1
    BY <1>1, FS_Singleton
  <1>5. BehindOf(g, p.rev) = 0 /\ BehindOf(f, p.rev) = 0
    BY <1>2, <1>4 DEF BehindOf
  <1>6. \A rev \in BOOLEAN : rev # p.rev => BehindOf(g, rev) = BehindOf(f, rev)
    BY <1>3 DEF BehindOf
  <1>7. BehindOf(g, TRUE) = BehindOf(f, TRUE) /\ BehindOf(g, FALSE) = BehindOf(f, FALSE)
    BY <1>1, <1>5, <1>6
  <1>8. AtOf(g) = Further(AtOf(f), DirOf(p.rev))
    <2>1. CASE p.rev = TRUE
      <3>1. /\ OfWay(f, TRUE) = {} /\ OfWay(g, TRUE) # {} /\ OfWay(g, FALSE) = OfWay(f, FALSE)
            /\ DirOf(p.rev) = "resp"
        BY <1>2, <1>3, <2>1 DEF DirOf
      <3> DEFINE h == AtOf(f)
                 k == AtOf(g)
      <3>2. h \in [Dirs -> {1, 2}] /\ k \in [Dirs -> {1, 2}]
        BY WhereAt
      <3>3. h["resp"] = 1 /\ k["resp"] = 2 /\ k["req"] = h["req"]
        BY <3>1, WhereAt
      <3> HIDE DEF h, k
      <3>4. k = [h EXCEPT !["resp"] = @ + 1]
        BY <3>2, <3>3 DEF Dirs
      <3> QED
        BY <3>1, <3>4 DEF Further, h, k
    <2>2. CASE p.rev = FALSE
      <3>1. /\ OfWay(f, FALSE) = {} /\ OfWay(g, FALSE) # {} /\ OfWay(g, TRUE) = OfWay(f, TRUE)
            /\ DirOf(p.rev) = "req"
        BY <1>2, <1>3, <2>2 DEF DirOf
      <3> DEFINE h == AtOf(f)
                 k == AtOf(g)
      <3>2. h \in [Dirs -> {1, 2}] /\ k \in [Dirs -> {1, 2}]
        BY WhereAt
      <3>3. h["req"] = 1 /\ k["req"] = 2 /\ k["resp"] = h["resp"]
        BY <3>1, WhereAt
      <3> HIDE DEF h, k
      <3>4. k = [h EXCEPT !["req"] = @ + 1]
        BY <3>2, <3>3 DEF Dirs
      <3> QED
        BY <3>1, <3>4 DEF Further, h, k
    <2> QED
      BY <1>1, <2>1, <2>2
  <1> QED
    BY <1>2, <1>3, <1>7, <1>8

LEMMA NextOfWay ==
    ASSUME NEW f \in Seq(PacketType("openvpn_udp")), NEW p \in PacketType("openvpn_udp"),
           NEW g, g = Append(f, p), OfWay(f, p.rev) # {}
    PROVE  /\ AtOf(g) = AtOf(f)
           /\ BehindOf(g, TRUE) = IF p.rev THEN BehindOf(f, TRUE) + 1 ELSE BehindOf(f, TRUE)
           /\ BehindOf(g, FALSE) = IF p.rev THEN BehindOf(f, FALSE) ELSE BehindOf(f, FALSE) + 1
           /\ \A rev \in BOOLEAN : (OfWay(g, rev) = {} <=> OfWay(f, rev) = {})
  <1>1. p.rev \in BOOLEAN /\ Len(f) \in Nat
    BY DEF PacketType
  <1> DEFINE A == OfWay(f, p.rev)
             B == OfWay(g, p.rev)
             n == Len(f)
  <1>2. B = A \cup {n + 1}
    BY WayGrows
  <1>3. \A rev \in BOOLEAN : rev # p.rev => OfWay(g, rev) = OfWay(f, rev)
    BY WayStays
  <1>4. A \in SUBSET (1..n)
    BY <1>1, WaysIn
  <1>5. BehindOf(g, p.rev) = BehindOf(f, p.rev) + 1
    <2>1. BehindOf(f, p.rev) = Cardinality(A) - 1 /\ BehindOf(g, p.rev) = Cardinality(B) - 1
      BY <1>2 DEF BehindOf
    <2> HIDE DEF A, B, n
    <2>2. Cardinality(A) \in Nat /\ Cardinality(B) = Cardinality(A) + 1
      BY <1>1, <1>2, <1>4, Grows DEF n
    <2> QED
      BY <2>1, <2>2
  <1>6. \A rev \in BOOLEAN : rev # p.rev => BehindOf(g, rev) = BehindOf(f, rev)
    BY <1>3 DEF BehindOf
  <1>7. \A rev \in BOOLEAN : (OfWay(g, rev) = {} <=> OfWay(f, rev) = {})
    <2>1. A # {} /\ B # {}
      BY <1>2
    <2> QED
      BY <1>3, <2>1
  <1>8. AtOf(g) = AtOf(f)
    BY <1>7 DEF AtOf
  <1> HIDE DEF A, B, n
  <1>9. CASE p.rev = TRUE
    BY <1>5, <1>6, <1>7, <1>8, <1>9
  <1>10. CASE p.rev = FALSE
    BY <1>5, <1>6, <1>7, <1>8, <1>10
  <1> QED
    BY <1>1, <1>9, <1>10

\* The stream of a history that is valid.
OpenVPNKnows(s, f) ==
    \E last : /\ LastReset(f, last)
              /\ Rests(s, AtOf(f), BehindOf(f, TRUE), BehindOf(f, FALSE), last)

OpenVPNUDPInv ==
    /\ fed \in Seq(PacketType("openvpn_udp"))
    /\ IsValid(fed) => OpenVPNKnows(stream, fed)
    /\ over <=> ~IsValid(fed) \/ Limited(BehindOf(fed, TRUE), BehindOf(fed, FALSE))

LEMMA OpenVPNMore ==
    ASSUME NEW f \in Seq(PacketType("openvpn_udp")), NEW p \in PacketType("openvpn_udp"),
           IsValid(f), NEW s, OpenVPNKnows(s, f), NEW g, g = Append(f, p), NEW dir, dir = DirOf(p.rev),
           NEW r, r = FeedMachine(WithoutPacket(s), dir, <<p.byte>>)
    PROVE  /\ IsValid(g) => OpenVPNKnows([r EXCEPT !.updated[dir] = FALSE], g)
           /\ OpenVPNOver(r, dir) <=> ~IsValid(g) \/ Limited(BehindOf(g, TRUE), BehindOf(g, FALSE))
  <1>1. PICK last : /\ LastReset(f, last)
                    /\ Rests(s, AtOf(f), BehindOf(f, TRUE), BehindOf(f, FALSE), last)
    BY DEF OpenVPNKnows
  <1> DEFINE at == AtOf(f)
             rx == BehindOf(f, TRUE)
             tx == BehindOf(f, FALSE)
             opcode == Opcode(p.byte)
             t == [r EXCEPT !.updated[dir] = FALSE]
  <1>2. dir \in Dirs /\ p.rev \in BOOLEAN
    BY DEF PacketType, Dirs, DirOf
  <1>3. /\ at \in [Dirs -> {1, 2}]
        /\ at["req"] = (IF OfWay(f, FALSE) = {} THEN 1 ELSE 2)
        /\ at["resp"] = (IF OfWay(f, TRUE) = {} THEN 1 ELSE 2)
    BY WhereAt
  <1>4. at[dir] = IF OfWay(f, p.rev) = {} THEN 1 ELSE 2
    BY <1>2, <1>3 DEF DirOf
  <1>5. IsValid(g) <=> Accepts(dir, at[dir], last, opcode)
    <2>1. IsValid(g) <=> IsRight(Append(f, p), Len(f) + 1)
      BY ValidMore
    <2>2. IsRight(Append(f, p), Len(f) + 1) <=> Accepts(dir, at[dir], last, opcode)
      BY <1>1, AcceptsRight
    <2> QED
      BY <2>1, <2>2
  <1>6. Rests(s, at, rx, tx, last)
    BY <1>1
  <1> HIDE DEF at, rx, tx, t
  <1>7. CASE ~IsValid(g)
    <2>1. OpenVPNOver(r, dir)
      BY <1>2, <1>3, <1>5, <1>6, <1>7, FeedRefuses
    <2> QED
      BY <1>7, <2>1
  <1>8. CASE IsValid(g) /\ OfWay(f, p.rev) = {}
    <2>1. at[dir] = 1 /\ Accepts(dir, 1, last, opcode)
      BY <1>4, <1>5, <1>8
    <2>2. Leaves(r, dir, Further(at, dir), rx, tx, opcode)
      BY <1>2, <1>3, <1>6, <2>1, FeedResets
    <2>3. Rests(t, Further(at, dir), rx, tx, opcode) /\ (OpenVPNOver(r, dir) <=> Limited(rx, tx))
      BY <2>2 DEF Leaves, t
    <2>4. /\ AtOf(g) = Further(at, dir) /\ BehindOf(g, TRUE) = rx /\ BehindOf(g, FALSE) = tx
          /\ OfWay(g, p.rev) # {} /\ \A rev \in BOOLEAN : rev # p.rev => OfWay(g, rev) = OfWay(f, rev)
      BY <1>8, FirstOfWay DEF at, rx, tx
    <2>5. LastReset(g, opcode)
      <3>1. CASE p.rev = TRUE
        BY <2>4, <3>1 DEF LastReset
      <3>2. CASE p.rev = FALSE
        <4>1. opcode \in ClientResets
          BY <2>1, <3>2 DEF Accepts, DirOf
        <4> QED
          BY <2>4, <3>2, <4>1 DEF LastReset
      <3> QED
        BY <1>2, <3>1, <3>2
    <2>6. OpenVPNKnows(t, g)
      BY <2>3, <2>4, <2>5 DEF OpenVPNKnows
    <2> QED
      BY <1>8, <2>3, <2>4, <2>6 DEF t
  <1>9. CASE IsValid(g) /\ OfWay(f, p.rev) # {}
    <2> DEFINE rx2 == IF dir = "req" THEN rx ELSE rx + 1
               tx2 == IF dir = "req" THEN tx + 1 ELSE tx
    <2>1. at[dir] = 2 /\ Accepts(dir, 2, last, opcode)
      BY <1>4, <1>5, <1>9
    <2>4. /\ AtOf(g) = at /\ BehindOf(g, TRUE) = rx2 /\ BehindOf(g, FALSE) = tx2
          /\ \A rev \in BOOLEAN : (OfWay(g, rev) = {} <=> OfWay(f, rev) = {})
      <3>1. /\ AtOf(g) = at /\ BehindOf(g, TRUE) = (IF p.rev THEN rx + 1 ELSE rx)
            /\ BehindOf(g, FALSE) = (IF p.rev THEN tx ELSE tx + 1)
            /\ \A rev \in BOOLEAN : (OfWay(g, rev) = {} <=> OfWay(f, rev) = {})
        BY <1>9, NextOfWay DEF at, rx, tx
      <3>2. p.rev <=> dir = "resp"
        BY <1>2 DEF DirOf
      <3> QED
        BY <1>2, <3>1, <3>2 DEF Dirs
    <2>2. Leaves(r, dir, at, rx2, tx2, last)
      BY <1>2, <1>3, <1>6, <2>1, FeedCounts
    <2>3. Rests(t, at, rx2, tx2, last) /\ (OpenVPNOver(r, dir) <=> Limited(rx2, tx2))
      BY <2>2 DEF Leaves, t
    <2> HIDE DEF rx2, tx2
    <2>5. LastReset(g, last)
      <3>1. LastReset(f, last)
        BY <1>1
      <3> QED
        BY <2>4, <3>1 DEF LastReset
    <2>6. OpenVPNKnows(t, g)
      BY <2>3, <2>4, <2>5 DEF OpenVPNKnows
    <2> QED
      BY <1>9, <2>3, <2>4, <2>6 DEF t
  <1> QED
    BY <1>7, <1>8, <1>9

LEMMA OpenVPNUDPStart == ASSUME Init, Looks("openvpn_udp") PROVE OpenVPNUDPInv
  <1>1. fed = <<>> /\ over = FALSE /\ stream = OpenVPNStream("openvpn_udp")
    BY Start DEF Looks, StreamOf
  <1>2. DOMAIN fed = {} /\ \A rev : OfWay(fed, rev) = {}
    BY <1>1 DEF OfWay
  <1>3. IsValid(fed) /\ LastReset(fed, 0)
    <2>1. IsValid(fed)
      BY <1>2 DEF IsValid
    <2>2. 0 \notin ClientResets
      BY DEF ClientResets
    <2>3. OfWay(fed, FALSE) = {}
      BY <1>2
    <2> QED
      BY <2>1, <2>2, <2>3 DEF LastReset
  <1>4. BehindOf(fed, TRUE) = 0 /\ BehindOf(fed, FALSE) = 0 /\ AtOf(fed) = [dir \in Dirs |-> 1]
    BY <1>2 DEF BehindOf, AtOf
  <1>5. Rests(stream, AtOf(fed), 0, 0, 0)
    <2>1. stream = OV(Empty, AtOf(fed), "next", Off, Off, Off, Mem(0, 0, 0, 0))
      BY <1>1, <1>4 DEF OpenVPNStream, NewStream, OV, Machines, Empty, Off, Mem
    <2> QED
      BY <2>1 DEF Rests
  <1>6. OpenVPNKnows(stream, fed)
    BY <1>3, <1>4, <1>5 DEF OpenVPNKnows
  <1>7. ~Limited(BehindOf(fed, TRUE), BehindOf(fed, FALSE))
    <2>1. ~(0 + 0 > PktLimit)
      BY LimitAssumption
    <2> QED
      BY <1>4, <2>1 DEF Limited
  <1> QED
    <2>1. fed \in Seq(PacketType("openvpn_udp"))
      BY <1>1
    <2>2. ~over
      BY <1>1
    <2> QED
      BY <1>3, <1>6, <1>7, <2>1, <2>2 DEF OpenVPNUDPInv

LEMMA OpenVPNUDPKept ==
    ASSUME Looks("openvpn_udp") => OpenVPNUDPInv, [Next]_vars
    PROVE  (Looks("openvpn_udp") => OpenVPNUDPInv)'
  <1> SUFFICES ASSUME Looks("openvpn_udp") PROVE OpenVPNUDPInv'
    BY Stays DEF Looks
  <1>1. CASE UNCHANGED vars
    BY <1>1 DEF vars, OpenVPNUDPInv
  <1>2. ASSUME NEW p \in PacketType("openvpn_udp"), FeedPacket(p), fed' = Append(fed, p), ~over
        PROVE  OpenVPNUDPInv'
    <2> DEFINE dir == DirOf(p.rev)
               r == FeedMachine(WithoutPacket(stream), dir, <<p.byte>>)
    <2>1. Report(r, dir)
      BY <1>2 DEF FeedPacket, Looks, DirOf
    <2>2. stream' = [r EXCEPT !.updated[dir] = FALSE] /\ (over' <=> OpenVPNOver(r, dir))
      BY <2>1 DEF Report, Looks
    <2>3. fed \in Seq(PacketType("openvpn_udp")) /\ IsValid(fed) /\ OpenVPNKnows(stream, fed)
      BY <1>2 DEF OpenVPNUDPInv
    <2>4. fed' \in Seq(PacketType("openvpn_udp"))
      BY <1>2, <2>3
    <2>5. dir = DirOf(p.rev) /\ r = FeedMachine(WithoutPacket(stream), dir, <<p.byte>>)
      OBVIOUS
    <2> HIDE DEF dir, r
    <2>6. IsValid(fed') => OpenVPNKnows([r EXCEPT !.updated[dir] = FALSE], fed')
      BY <1>2, <2>3, <2>5, OpenVPNMore
    <2>7. OpenVPNOver(r, dir) <=>
             ~IsValid(fed') \/ Limited(BehindOf(fed', TRUE), BehindOf(fed', FALSE))
      BY <1>2, <2>3, <2>5, OpenVPNMore
    <2> QED
      BY <2>2, <2>4, <2>6, <2>7 DEF OpenVPNUDPInv
  <1> QED
    BY <1>1, <1>2, Steps DEF Looks

LEMMA OpenVPNUDPMeans == ASSUME OpenVPNUDPInv PROVE OpenVPNUDPTrue
  <1>1. IsValid(fed) => stream.mem.tx = BehindOf(fed, FALSE) /\ stream.mem.rx = BehindOf(fed, TRUE)
    <2> SUFFICES ASSUME IsValid(fed)
                 PROVE  stream.mem.tx = BehindOf(fed, FALSE) /\ stream.mem.rx = BehindOf(fed, TRUE)
      OBVIOUS
    <2>1. PICK says, last, pkt :
             stream = OV(Empty, AtOf(fed), says, Off, Off, Off,
                         Mem(BehindOf(fed, TRUE), BehindOf(fed, FALSE), last, pkt))
      BY DEF OpenVPNUDPInv, OpenVPNKnows, Rests
    <2>2. stream.mem = Mem(BehindOf(fed, TRUE), BehindOf(fed, FALSE), last, pkt)
      BY <2>1 DEF OV
    <2> QED
      BY <2>2 DEF Mem
  <1>2. over <=> ~IsValid(fed) \/ Limited(BehindOf(fed, TRUE), BehindOf(fed, FALSE))
    BY DEF OpenVPNUDPInv
  <1>3. IsValid(fed) <=>
           \A k \in DOMAIN fed :
              /\ Opcode(fed[k].byte) \in
                    IF \A j \in OfWay(fed, fed[k].rev) : k <= j THEN ResetsOf(fed[k].rev) ELSE Following
              /\ fed[k].rev => \E j \in OfWay(fed, FALSE) : j < k
    BY DEF IsValid, IsRight, IsFirst
  <1> QED
    BY <1>1, <1>2, <1>3 DEF OpenVPNUDPTrue, BehindOf, ResetsOf, OfWay, Limited

-----------------------------------------------------------------------------
(***************************************************************************)
(* The theorems.                                                           *)
(***************************************************************************)

\* Every stream keeps the invariant of its analyzer.
CountsInv ==
    /\ Looks("wireguard") => WireGuardInv
    /\ Looks("dns_udp") => DNSUDPInv
    /\ Looks("udpflow") => UDPFlowInv
    /\ Looks("openvpn_udp") => OpenVPNUDPInv
    /\ Looks("trojan") => TrojanInv
    /\ Looks("fet") => FETInv

LEMMA CountsStart == ASSUME Init PROVE CountsInv
  BY Start, WireGuardStart, DNSUDPStart, UDPFlowStart, OpenVPNUDPStart, TrojanStart, FETStart
     DEF CountsInv, Looks

LEMMA CountsKept == ASSUME CountsInv, [Next]_vars PROVE CountsInv'
  <1>1. (Looks("wireguard") => WireGuardInv)'
    BY WireGuardKept DEF CountsInv
  <1>2. (Looks("dns_udp") => DNSUDPInv)'
    BY DNSUDPKept DEF CountsInv
  <1>3. (Looks("udpflow") => UDPFlowInv)'
    BY UDPFlowKept DEF CountsInv
  <1>4. (Looks("openvpn_udp") => OpenVPNUDPInv)'
    BY OpenVPNUDPKept DEF CountsInv
  <1>5. (Looks("trojan") => TrojanInv)'
    BY TrojanKept DEF CountsInv
  <1>6. (Looks("fet") => FETInv)'
    BY FETKept DEF CountsInv
  <1> QED
    BY <1>1, <1>2, <1>3, <1>4, <1>5, <1>6 DEF CountsInv

LEMMA CountsMean == ASSUME CountsInv PROVE CountsTrue
  <1>1. Looks("wireguard") => WireGuardTrue
    BY WireGuardMeans DEF CountsInv
  <1>2. Looks("dns_udp") => DNSUDPTrue
    BY DNSUDPMeans DEF CountsInv
  <1>3. Looks("udpflow") => UDPFlowTrue
    BY UDPFlowMeans DEF CountsInv
  <1>4. Looks("openvpn_udp") => OpenVPNUDPTrue
    BY OpenVPNUDPMeans DEF CountsInv
  <1>5. Looks("trojan") => TrojanTrue
    BY TrojanMeans DEF CountsInv
  <1>6. Looks("fet") => FETTrue
    BY FETMeans DEF CountsInv
  <1> QED
    BY <1>1, <1>2, <1>3, <1>4, <1>5, <1>6 DEF CountsTrue, Looks

\* After any packets, in any order, of any number and with any loss, what the
\* streams of WireGuard, DNS over UDP, udpflow, OpenVPN over UDP, Trojan and FET
\* report, count and decide is what the packets they were fed say (the Feed
\* methods of analyzer/udp and analyzer/tcp).
THEOREM CountsTrueCorrect == Spec => []CountsTrue
  <1>1. Init => CountsInv
    BY CountsStart
  <1>2. CountsInv /\ [Next]_vars => CountsInv'
    BY CountsKept
  <1>3. CountsInv => CountsTrue
    BY CountsMean
  <1> QED
    BY <1>1, <1>2, <1>3, PTL DEF Spec

=============================================================================
