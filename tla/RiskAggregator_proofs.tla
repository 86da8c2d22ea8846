------------------------ MODULE RiskAggregator_proofs ------------------------
(***************************************************************************)
(* Proofs about RiskAggregator, for any workers, weights, window,          *)
(* thresholds and bounds.  The two loops of prune are recursive functions; *)
(* what they compute is proved by induction over sets of numbers.          *)
(***************************************************************************)
EXTENDS RiskAggregator, SequenceTheorems, WellFoundedInduction, TLAPS

\* A set of numbers has a smallest one.
LEMMA Smallest ==
    ASSUME NEW I \in SUBSET Nat, I # {}
    PROVE  \E x \in I : \A y \in I : x <= y
  <1>1. \E x \in I : \A y \in I : ~ (<<y, x>> \in OpToRel(<, Nat))
    BY WFMin, NatLessThanWellFounded
  <1>2. ASSUME NEW x \in Nat, NEW y \in Nat, y < x
        PROVE  <<y, x>> \in OpToRel(<, Nat)
    <2>1. <<y, x>> \in Nat \X Nat /\ <<y, x>>[1] < <<y, x>>[2]
      BY <1>2
    <2> QED
      BY <2>1, Zenon DEF OpToRel
  <1>3. \A x, y \in Nat : x <= y \/ y < x
    OBVIOUS
  <1> QED
    BY <1>1, <1>2, <1>3

\* Induction, for a set of numbers.
LEMMA Induction ==
    ASSUME NEW I, 0 \in I, \A n \in Nat : n \in I => n + 1 \in I
    PROVE  Nat \subseteq I
  <1> SUFFICES ASSUME Nat \ I # {} PROVE FALSE
    OBVIOUS
  <1>1. PICK n \in Nat \ I : \A m \in Nat \ I : n <= m
    BY Smallest
  <1>2. n # 0 /\ n - 1 \in Nat /\ ~ (n <= n - 1)
    BY <1>1
  <1>3. n - 1 \in I
    BY <1>1, <1>2
  <1>4. (n - 1) + 1 = n
    BY <1>1
  <1> QED
    BY <1>1, <1>2, <1>3, <1>4

-----------------------------------------------------------------------------
(***************************************************************************)
(* Loops.  f[i] is what a loop that starts with base has after i rounds,   *)
(* when step takes it from one round to the next.                          *)
(***************************************************************************)
Loop(f, base, step, n) ==
    f[0] = base /\ \A i \in 1..n : f[i] = step[<<f[i - 1], i>>]

LEMMA LoopExists ==
    ASSUME NEW S, NEW base \in S, NEW n \in Nat, NEW step \in [S \X (1..n) -> S]
    PROVE  \E f \in [0..n -> S] : Loop(f, base, step, n)
  <1> DEFINE I == {m \in Nat : m <= n => \E f \in [0..m -> S] : Loop(f, base, step, m)}
  <1>1. 0 \in I
    <2> DEFINE f == [i \in 0..0 |-> base]
    <2>1. f \in [0..0 -> S] /\ Loop(f, base, step, 0)
      BY DEF Loop
    <2> QED
      BY <2>1
  <1>2. ASSUME NEW m \in Nat, m \in I PROVE m + 1 \in I
    <2> SUFFICES ASSUME m + 1 <= n
                 PROVE  \E f \in [0..m + 1 -> S] : Loop(f, base, step, m + 1)
      OBVIOUS
    <2>1. PICK f \in [0..m -> S] : Loop(f, base, step, m)
      BY <1>2
    <2> DEFINE next == step[<<f[m], m + 1>>]
               g == [i \in 0..m + 1 |-> IF i = m + 1 THEN next ELSE f[i]]
    <2>2. f[m] \in S /\ m + 1 \in 1..n
      BY <2>1
    <2>3. next \in S
      BY <2>2
    <2> HIDE DEF next
    <2>4. g \in [0..m + 1 -> S]
      BY <2>1, <2>3
    <2>5. g[0] = base /\ \A i \in 0..m : g[i] = f[i]
      BY <2>1 DEF Loop
    <2>6. ASSUME NEW i \in 1..m + 1
          PROVE  g[i] = step[<<g[i - 1], i>>]
      <3>1. CASE i = m + 1
        <4>1. g[i - 1] = f[m] /\ g[i] = next
          BY <3>1, <2>5
        <4> QED
          BY <3>1, <4>1 DEF next
      <3>2. CASE i # m + 1
        <4>1. i \in 1..m /\ i - 1 \in 0..m /\ i \in 0..m
          BY <3>2
        <4> HIDE DEF g
        <4>2. f[i] = step[<<f[i - 1], i>>]
          BY <2>1, <4>1 DEF Loop
        <4> QED
          BY <2>5, <4>1, <4>2
      <3> QED
        BY <3>1, <3>2
    <2> HIDE DEF g
    <2>7. Loop(g, base, step, m + 1)
      BY <2>5, <2>6 DEF Loop
    <2> QED
      BY <2>4, <2>7
  <1> HIDE DEF I
  <1>3. Nat \subseteq I
    BY <1>1, <1>2, Induction
  <1> QED
    BY <1>3 DEF I

\* Two loops with the same rounds are the same.
LEMMA LoopUnique ==
    ASSUME NEW base, NEW n \in Nat, NEW step, NEW f, NEW g,
           Loop(f, base, step, n), Loop(g, base, step, n)
    PROVE  \A i \in 0..n : f[i] = g[i]
  <1> DEFINE I == {m \in Nat : m <= n => f[m] = g[m]}
  <1>1. 0 \in I
    BY DEF Loop
  <1>2. ASSUME NEW m \in Nat, m \in I PROVE m + 1 \in I
    <2> SUFFICES ASSUME m + 1 <= n PROVE f[m + 1] = g[m + 1]
      OBVIOUS
    <2>1. m + 1 \in 1..n /\ (m + 1) - 1 = m /\ f[m] = g[m]
      BY <1>2
    <2>2. f[m + 1] = step[<<f[(m + 1) - 1], m + 1>>] /\ g[m + 1] = step[<<g[(m + 1) - 1], m + 1>>]
      BY <2>1 DEF Loop
    <2> QED
      BY <2>1, <2>2
  <1> HIDE DEF I
  <1>3. Nat \subseteq I
    BY <1>1, <1>2, Induction
  <1> QED
    BY <1>3 DEF I

-----------------------------------------------------------------------------
\* Hits are only ever recorded with a positive weight.
PosHit == {hit \in Hit : hit.weight > 0}

LEMMA HitType ==
    ASSUME NEW hit \in PosHit
    PROVE  hit.weight \in Int /\ hit.weight > 0 /\ hit.time \in Int
  <1>1. hit.weight \in Weights /\ hit.time \in Times
    BY DEF PosHit, Hit
  <1>2. hit.weight > 0
    BY DEF PosHit
  <1>3. Weights \subseteq Int /\ MaxTime \in Nat
    BY RiskAssumption
  <1>4. hit.weight \in Int
    BY <1>1, <1>3
  <1>5. hit.time \in Int
    BY <1>1, <1>3 DEF Times
  <1> QED
    BY <1>2, <1>4, <1>5

LEMMA HitSeqType ==
    ASSUME NEW hits \in Seq(PosHit), NEW i \in 1..Len(hits)
    PROVE  hits[i] \in PosHit /\ hits[i].weight \in Int /\ hits[i].time \in Int
  BY HitType

-----------------------------------------------------------------------------
(* What the loops of prune compute. *)

Adding(hits) == [p \in Int \X (1..Len(hits)) |-> p[1] + hits[p[2]].weight]

Keeping(hits, now) ==
    [p \in Seq(PosHit) \X (1..Len(hits)) |->
        IF hits[p[2]].time >= now - Window THEN Append(p[1], hits[p[2]]) ELSE p[1]]

LEMMA SumLoop ==
    ASSUME NEW hits \in Seq(PosHit)
    PROVE  \E f \in [0..Len(hits) -> Int] : /\ Loop(f, 0, Adding(hits), Len(hits))
                                           /\ SumWeights(hits) = f[Len(hits)]
  <1> DEFINE n == Len(hits)
  <1>1. n \in Nat /\ Adding(hits) \in [Int \X (1..n) -> Int]
    <2>1. ASSUME NEW x \in Int, NEW i \in 1..n
          PROVE  x + hits[i].weight \in Int
      BY HitSeqType
    <2> QED
      BY <2>1 DEF Adding
  <1>2. PICK g \in [0..n -> Int] : Loop(g, 0, Adding(hits), n)
    <2> DEFINE S == Int
               step == Adding(hits)
               k == n
    <2>1. 0 \in S /\ k \in Nat /\ step \in [S \X (1..k) -> S]
      BY <1>1
    <2> HIDE DEF S, step, k
    <2>2. \E g \in [0..k -> S] : Loop(g, 0, step, k)
      BY <2>1, LoopExists
    <2> QED
      BY <2>2 DEF S, step, k
  <1>3. g = [i \in 0..n |-> IF i = 0 THEN 0 ELSE g[i - 1] + hits[i].weight]
    <2>1. ASSUME NEW i \in 0..n
          PROVE  g[i] = IF i = 0 THEN 0 ELSE g[i - 1] + hits[i].weight
      <3>1. CASE i = 0
        BY <1>2, <3>1 DEF Loop
      <3>2. CASE i # 0
        <4>1. i \in 1..n /\ i - 1 \in 0..n
          BY <3>2
        <4>2. g[i - 1] \in Int
          BY <1>2, <4>1
        <4>3. g[i] = Adding(hits)[<<g[i - 1], i>>]
          BY <1>2, <4>1 DEF Loop
        <4> QED
          BY <3>2, <4>1, <4>2, <4>3 DEF Adding
      <3> QED
        BY <3>1, <3>2
    <2> QED
      BY <1>2, <2>1
  <1>4. PICK f : /\ f = [i \in 0..n |-> IF i = 0 THEN 0 ELSE f[i - 1] + hits[i].weight]
                 /\ SumWeights(hits) = f[n]
    BY <1>3 DEF SumWeights
  <1> DEFINE I == {m \in Nat : m <= n => f[m] = g[m]}
  <1>5. 0 \in I
    BY <1>1, <1>3, <1>4
  <1>6. ASSUME NEW m \in Nat, m \in I PROVE m + 1 \in I
    <2> SUFFICES ASSUME m + 1 <= n PROVE f[m + 1] = g[m + 1]
      OBVIOUS
    <2>1. m + 1 \in 0..n /\ m + 1 # 0 /\ (m + 1) - 1 = m /\ f[m] = g[m]
      BY <1>1, <1>6
    <2>2. f[m + 1] = f[(m + 1) - 1] + hits[m + 1].weight
      BY <1>4, <2>1
    <2>3. g[m + 1] = g[(m + 1) - 1] + hits[m + 1].weight
      BY <1>3, <2>1
    <2> QED
      BY <2>1, <2>2, <2>3
  <1> HIDE DEF I
  <1>7. Nat \subseteq I
    BY <1>5, <1>6, Induction
  <1>8. f[n] = g[n]
    BY <1>1, <1>7 DEF I
  <1> QED
    BY <1>2, <1>4, <1>8

LEMMA KeepLoop ==
    ASSUME NEW hits \in Seq(PosHit), NEW now \in Int
    PROVE  \E f \in [0..Len(hits) -> Seq(PosHit)] :
              /\ Loop(f, <<>>, Keeping(hits, now), Len(hits))
              /\ InWindow(hits, now) = f[Len(hits)]
  <1> DEFINE n == Len(hits)
             S == Seq(PosHit)
  <1>1. n \in Nat /\ Keeping(hits, now) \in [S \X (1..n) -> S] /\ <<>> \in S
    <2>1. n \in Nat /\ <<>> \in S
      OBVIOUS
    <2>2. ASSUME NEW s \in S, NEW i \in 1..n
          PROVE  (IF hits[i].time >= now - Window THEN Append(s, hits[i]) ELSE s) \in S
      BY HitSeqType
    <2> QED
      BY <2>1, <2>2 DEF Keeping
  <1> HIDE DEF S
  <1>2. PICK g \in [0..n -> S] : Loop(g, <<>>, Keeping(hits, now), n)
    BY <1>1, LoopExists
  <1>3. g = [i \in 0..n |-> IF i = 0 THEN <<>>
                            ELSE IF hits[i].time >= now - Window THEN Append(g[i - 1], hits[i])
                            ELSE g[i - 1]]
    <2>1. ASSUME NEW i \in 0..n
          PROVE  g[i] = IF i = 0 THEN <<>>
                        ELSE IF hits[i].time >= now - Window THEN Append(g[i - 1], hits[i])
                        ELSE g[i - 1]
      <3>1. CASE i = 0
        BY <1>2, <3>1 DEF Loop
      <3>2. CASE i # 0
        <4>1. i \in 1..n /\ i - 1 \in 0..n
          BY <3>2
        <4>2. g[i - 1] \in S
          BY <1>2, <4>1
        <4>3. g[i] = Keeping(hits, now)[<<g[i - 1], i>>]
          BY <1>2, <4>1 DEF Loop
        <4> QED
          BY <3>2, <4>1, <4>2, <4>3 DEF Keeping, S
      <3> QED
        BY <3>1, <3>2
    <2> QED
      BY <1>2, <2>1
  <1>4. PICK f : /\ f = [i \in 0..n |-> IF i = 0 THEN <<>>
                            ELSE IF hits[i].time >= now - Window THEN Append(f[i - 1], hits[i])
                            ELSE f[i - 1]]
                 /\ InWindow(hits, now) = f[n]
    BY <1>3 DEF InWindow
  <1> DEFINE I == {m \in Nat : m <= n => f[m] = g[m]}
  <1>5. 0 \in I
    BY <1>1, <1>3, <1>4
  <1>6. ASSUME NEW m \in Nat, m \in I PROVE m + 1 \in I
    <2> SUFFICES ASSUME m + 1 <= n PROVE f[m + 1] = g[m + 1]
      OBVIOUS
    <2>1. m + 1 \in 0..n /\ m + 1 # 0 /\ (m + 1) - 1 = m /\ f[m] = g[m]
      BY <1>1, <1>6
    <2>2. f[m + 1] = IF hits[m + 1].time >= now - Window
                     THEN Append(f[(m + 1) - 1], hits[m + 1]) ELSE f[(m + 1) - 1]
      BY <1>4, <2>1
    <2>3. g[m + 1] = IF hits[m + 1].time >= now - Window
                     THEN Append(g[(m + 1) - 1], hits[m + 1]) ELSE g[(m + 1) - 1]
      BY <1>3, <2>1
    <2> QED
      BY <2>1, <2>2, <2>3
  <1> HIDE DEF I
  <1>7. Nat \subseteq I
    BY <1>5, <1>6, Induction
  <1>8. f[n] = g[n]
    BY <1>1, <1>7 DEF I
  <1> QED
    BY <1>2, <1>4, <1>8 DEF S

\* One hit more.
LEMMA AppendHit ==
    ASSUME NEW hits \in Seq(PosHit), NEW hit \in PosHit
    PROVE  /\ Append(hits, hit) \in Seq(PosHit) /\ Len(Append(hits, hit)) = Len(hits) + 1
           /\ \A i \in 1..Len(hits) : Append(hits, hit)[i] = hits[i]
           /\ Append(hits, hit)[Len(hits) + 1] = hit
  OBVIOUS

LEMMA SumEmpty ==
    SumWeights(<<>>) = 0
  <1>1. <<>> \in Seq(PosHit) /\ Len(<<>>) = 0
    OBVIOUS
  <1>2. PICK f : Loop(f, 0, Adding(<<>>), Len(<<>>)) /\ SumWeights(<<>>) = f[Len(<<>>)]
    BY <1>1, SumLoop
  <1> QED
    BY <1>1, <1>2 DEF Loop

LEMMA SumAppend ==
    ASSUME NEW hits \in Seq(PosHit), NEW hit \in PosHit
    PROVE  SumWeights(hits) \in Int /\ SumWeights(Append(hits, hit)) = SumWeights(hits) + hit.weight
  <1> DEFINE n == Len(hits)
             more == Append(hits, hit)
             step == Adding(hits)
  <1>1. /\ n \in Nat /\ more \in Seq(PosHit) /\ Len(more) = n + 1 /\ more[n + 1] = hit
        /\ \A i \in 1..n : more[i] = hits[i]
    BY AppendHit
  <1> HIDE DEF more
  <1>2. PICK f \in [0..n -> Int] : Loop(f, 0, step, n) /\ SumWeights(hits) = f[n]
    BY SumLoop
  <1>3. PICK g \in [0..n + 1 -> Int] : /\ Loop(g, 0, Adding(more), n + 1)
                                      /\ SumWeights(more) = g[n + 1]
    BY <1>1, SumLoop
  <1>4. Loop(g, 0, step, n)
    <2>1. ASSUME NEW i \in 1..n
          PROVE  g[i] = step[<<g[i - 1], i>>]
      <3>1. i \in 1..n + 1 /\ g[i - 1] \in Int
        <4>1. i \in 1..n + 1 /\ i - 1 \in 0..n + 1
          BY <1>1
        <4> QED
          BY <1>3, <4>1
      <3>2. g[i] = Adding(more)[<<g[i - 1], i>>]
        BY <1>3, <3>1 DEF Loop
      <3>3. g[i] = g[i - 1] + more[i].weight
        BY <1>1, <3>1, <3>2 DEF Adding
      <3> QED
        BY <1>1, <3>1, <3>3 DEF Adding
    <2> QED
      BY <1>3, <2>1 DEF Loop
  <1> HIDE DEF step
  <1>5. f[n] = g[n]
    BY <1>1, <1>2, <1>4, LoopUnique
  <1>6. g[n + 1] = g[n] + hit.weight
    <2>1. n + 1 \in 1..n + 1 /\ (n + 1) - 1 = n /\ g[n] \in Int
      BY <1>1, <1>3
    <2>2. g[n + 1] = Adding(more)[<<g[n], n + 1>>]
      BY <1>3, <2>1 DEF Loop
    <2> QED
      BY <1>1, <2>1, <2>2 DEF Adding
  <1> QED
    BY <1>1, <1>2, <1>3, <1>5, <1>6 DEF more

LEMMA KeepEmpty ==
    ASSUME NEW now \in Int
    PROVE  InWindow(<<>>, now) = <<>>
  <1>1. <<>> \in Seq(PosHit) /\ Len(<<>>) = 0
    OBVIOUS
  <1>2. PICK f : Loop(f, <<>>, Keeping(<<>>, now), Len(<<>>)) /\ InWindow(<<>>, now) = f[Len(<<>>)]
    BY <1>1, KeepLoop
  <1> QED
    BY <1>1, <1>2 DEF Loop

LEMMA KeepAppend ==
    ASSUME NEW hits \in Seq(PosHit), NEW hit \in PosHit, NEW now \in Int
    PROVE  /\ InWindow(hits, now) \in Seq(PosHit)
           /\ InWindow(Append(hits, hit), now) =
                 IF hit.time >= now - Window THEN Append(InWindow(hits, now), hit)
                 ELSE InWindow(hits, now)
  <1> DEFINE n == Len(hits)
             more == Append(hits, hit)
             step == Keeping(hits, now)
             S == Seq(PosHit)
  <1>1. /\ n \in Nat /\ more \in Seq(PosHit) /\ Len(more) = n + 1 /\ more[n + 1] = hit
        /\ \A i \in 1..n : more[i] = hits[i]
    BY AppendHit
  <1> HIDE DEF more, S
  <1>2. PICK f \in [0..n -> S] : Loop(f, <<>>, step, n) /\ InWindow(hits, now) = f[n]
    BY KeepLoop DEF S
  <1>3. PICK g \in [0..n + 1 -> S] : /\ Loop(g, <<>>, Keeping(more, now), n + 1)
                                    /\ InWindow(more, now) = g[n + 1]
    BY <1>1, KeepLoop DEF S
  <1>4. Loop(g, <<>>, step, n)
    <2>1. ASSUME NEW i \in 1..n
          PROVE  g[i] = step[<<g[i - 1], i>>]
      <3>1. i \in 1..n + 1 /\ g[i - 1] \in S
        BY <1>1, <1>3
      <3>2. g[i] = Keeping(more, now)[<<g[i - 1], i>>]
        BY <1>3, <3>1 DEF Loop
      <3>3. g[i] = IF more[i].time >= now - Window THEN Append(g[i - 1], more[i]) ELSE g[i - 1]
        BY <1>1, <3>1, <3>2 DEF Keeping, S
      <3>4. step[<<g[i - 1], i>>] =
               IF hits[i].time >= now - Window THEN Append(g[i - 1], hits[i]) ELSE g[i - 1]
        BY <3>1 DEF Keeping, S
      <3> QED
        BY <1>1, <3>3, <3>4
    <2> QED
      BY <1>3, <2>1 DEF Loop
  <1> HIDE DEF step
  <1>5. f[n] = g[n]
    BY <1>1, <1>2, <1>4, LoopUnique
  <1>6. g[n + 1] = IF hit.time >= now - Window THEN Append(g[n], hit) ELSE g[n]
    <2>1. n + 1 \in 1..n + 1 /\ (n + 1) - 1 = n /\ g[n] \in S
      BY <1>1, <1>3
    <2>2. g[n + 1] = Keeping(more, now)[<<g[n], n + 1>>]
      BY <1>3, <2>1 DEF Loop
    <2> QED
      BY <1>1, <2>1, <2>2 DEF Keeping, S
  <1>7. f[n] \in S
    BY <1>1, <1>2
  <1> QED
    BY <1>1, <1>2, <1>3, <1>5, <1>6, <1>7 DEF more, S

\* A pruned bucket holds hits, and their score has not grown.
LEMMA WindowFacts ==
    ASSUME NEW hits \in Seq(PosHit), NEW now \in Int
    PROVE  /\ InWindow(hits, now) \in Seq(PosHit)
           /\ SumWeights(hits) \in Int /\ SumWeights(InWindow(hits, now)) \in Int
           /\ SumWeights(InWindow(hits, now)) <= SumWeights(hits)
  <1> DEFINE Fine(h) == /\ InWindow(h, now) \in Seq(PosHit)
                        /\ SumWeights(h) \in Int /\ SumWeights(InWindow(h, now)) \in Int
                        /\ SumWeights(InWindow(h, now)) <= SumWeights(h)
             I == {n \in Nat : \A h \in Seq(PosHit) : Len(h) = n => Fine(h)}
  <1>1. 0 \in I
    <2>1. Fine(<<>>)
      <3>1. <<>> \in Seq(PosHit)
        OBVIOUS
      <3>2. SumWeights(<<>>) = 0 /\ InWindow(<<>>, now) = <<>>
        BY SumEmpty, KeepEmpty
      <3>3. InWindow(<<>>, now) \in Seq(PosHit)
        BY <3>1, <3>2
      <3>4. SumWeights(InWindow(<<>>, now)) = 0
        BY <3>2
      <3>5. 0 \in Int /\ 0 <= 0
        OBVIOUS
      <3> QED
        BY <3>2, <3>3, <3>4, <3>5, Zenon
    <2> HIDE DEF Fine
    <2>2. ASSUME NEW h \in Seq(PosHit), Len(h) = 0
          PROVE  h = <<>>
      BY <2>2
    <2> QED
      BY <2>1, <2>2
  <1>2. ASSUME NEW n \in Nat, n \in I
        PROVE  n + 1 \in I
    <2> SUFFICES ASSUME NEW h \in Seq(PosHit), Len(h) = n + 1
                 PROVE  Fine(h)
      OBVIOUS
    <2>1. h # <<>>
      BY <1>2
    <2>2. PICK front \in Seq(PosHit), last \in PosHit : h = Append(front, last)
      BY <2>1, SequenceEmptyOrAppend
    <2>3. Len(front) = n
      BY <2>2
    <2>4. Fine(front)
      BY <1>2, <2>3
    <2>5. SumWeights(h) = SumWeights(front) + last.weight
      BY <2>2, SumAppend
    <2>6. last.weight \in Int /\ last.weight > 0
      BY HitType
    <2>7. CASE InWindow(h, now) = InWindow(front, now)
      BY <2>4, <2>5, <2>6, <2>7
    <2>8. CASE InWindow(h, now) = Append(InWindow(front, now), last)
      <3>1. SumWeights(InWindow(h, now)) = SumWeights(InWindow(front, now)) + last.weight
        BY <2>4, <2>8, SumAppend
      <3>2. InWindow(h, now) \in Seq(PosHit)
        BY <2>4, <2>8
      <3> QED
        BY <2>4, <2>5, <2>6, <3>1, <3>2
    <2> QED
      BY <2>2, <2>7, <2>8, KeepAppend
  <1> HIDE DEF I
  <1>3. Nat \subseteq I
    BY <1>1, <1>2, Induction
  <1>4. Len(hits) \in I
    BY <1>3
  <1> QED
    BY <1>4 DEF I

-----------------------------------------------------------------------------
(***************************************************************************)
(* The invariant: the score is that of the hits, below every threshold     *)
(* nobody was told of, and what a worker is about to send is true of the   *)
(* copy it took.                                                           *)
(***************************************************************************)
Buckets == [hits : Seq(PosHit), score : Int, done : [Kinds -> BOOLEAN]]

Addings == [pc : {"idle", "stamped", "emitting"}, now : Times, weight : Weights \cup {0},
            due : SUBSET Kinds, score : Int, hits : Seq(PosHit)]

BucketInv == bucket \in Buckets /\ bucket.score = SumWeights(bucket.hits) /\ NothingMissed

Recorded(a) == a.pc = "stamped" => a.weight \in Weights /\ a.weight > 0

Truthful(a) ==
    a.pc = "emitting" => /\ a.score = SumWeights(a.hits)
                         /\ \A kind \in a.due : a.score >= Threshold(kind)

AddingInv ==
    adding \in [Workers -> Addings] /\ \A w \in Workers : Recorded(adding[w]) /\ Truthful(adding[w])

Inv ==
    /\ clock \in Times /\ counting \in Times \cup {-1}
    /\ BucketInv /\ AddingInv /\ EventTrue

LEMMA TimesAreInts ==
    Times \subseteq Int /\ 0 \in Times
  <1>1. MaxTime \in Nat
    BY RiskAssumption
  <1> QED
    BY <1>1 DEF Times

LEMMA ThresholdType ==
    ASSUME NEW kind
    PROVE  Threshold(kind) \in Int
  BY RiskAssumption DEF Threshold

LEMMA NewBucketInv ==
    /\ NewBucket \in Buckets /\ NewBucket.score = SumWeights(NewBucket.hits)
    /\ \A kind \in Kinds : Enabled(kind) => NewBucket.score < Threshold(kind)
  <1>1. <<>> \in Seq(PosHit)
    OBVIOUS
  <1>2. NewBucket \in Buckets /\ NewBucket.score = 0 /\ NewBucket.hits = <<>>
    BY <1>1 DEF NewBucket, Buckets
  <1> QED
    BY <1>2, SumEmpty, ThresholdType DEF Enabled

LEMMA IdleAdding ==
    /\ Idle \in Addings /\ Idle.pc = "idle" /\ Idle.due = {}
  <1>1. <<>> \in Seq(PosHit)
    OBVIOUS
  <1> QED
    BY <1>1, TimesAreInts DEF Idle, Addings

LEMMA InitInv ==
    ASSUME Init
    PROVE  Inv
  <1>1. BucketInv
    BY NewBucketInv DEF Init, BucketInv, NothingMissed
  <1>2. AddingInv
    BY IdleAdding DEF Init, AddingInv, Recorded, Truthful
  <1>3. EventTrue
    BY DEF Init, EventTrue
  <1> QED
    BY <1>1, <1>2, <1>3, TimesAreInts DEF Init, Inv

\* Pruning, and what may be sent again after it.
LEMMA PruneFacts ==
    ASSUME BucketInv, NEW now \in Int
    PROVE  LET b == Prune(bucket, now)
           IN /\ b \in Buckets /\ b.hits = InWindow(bucket.hits, now)
              /\ b.score = SumWeights(b.hits) /\ b.score <= bucket.score /\ b.done = bucket.done
  <1> DEFINE kept == InWindow(bucket.hits, now)
             sum == SumWeights(InWindow(bucket.hits, now))
             b == [bucket EXCEPT !.hits = kept, !.score = sum]
  <1>1. bucket \in Buckets /\ bucket.score = SumWeights(bucket.hits) /\ bucket.hits \in Seq(PosHit)
    BY DEF BucketInv, Buckets
  <1>2. kept \in Seq(PosHit) /\ sum \in Int /\ sum <= bucket.score
    BY <1>1, WindowFacts
  <1>3. Prune(bucket, now) = b /\ sum = SumWeights(kept)
    BY DEF Prune
  <1> HIDE DEF kept, sum
  <1>4. b \in Buckets /\ b.hits = kept /\ b.score = sum /\ b.done = bucket.done
    BY <1>1, <1>2 DEF Buckets
  <1> HIDE DEF b
  <1> QED
    BY <1>2, <1>3, <1>4 DEF kept

LEMMA RearmFacts ==
    ASSUME BucketInv, NEW now \in Int
    PROVE  LET b == Rearm(Prune(bucket, now))
           IN /\ b \in Buckets /\ b.hits = InWindow(bucket.hits, now) /\ b.score = SumWeights(b.hits)
              /\ \A kind \in Kinds : Enabled(kind) => (~ b.done[kind] <=> b.score < Threshold(kind))
  <1> DEFINE q == Prune(bucket, now)
             done == [kind \in Kinds |-> q.done[kind] /\ ~(Enabled(kind) /\ q.score < Threshold(kind))]
             b == [q EXCEPT !.done = done]
  <1>1. /\ q \in Buckets /\ q.hits = InWindow(bucket.hits, now)
        /\ q.score = SumWeights(q.hits) /\ q.score <= bucket.score /\ q.done = bucket.done
    BY PruneFacts
  <1>2. bucket.score \in Int /\ bucket.done \in [Kinds -> BOOLEAN]
    BY DEF BucketInv, Buckets
  <1>3. Rearm(Prune(bucket, now)) = b
    BY DEF Rearm
  <1> HIDE DEF q
  <1>4. done \in [Kinds -> BOOLEAN] /\ q.score \in Int
    BY <1>1 DEF Buckets
  <1>5. ASSUME NEW kind \in Kinds, Enabled(kind)
        PROVE  ~ done[kind] <=> q.score < Threshold(kind)
    <2>1. CASE q.done[kind]
      BY <1>5, <2>1
    <2>2. CASE ~ q.done[kind]
      <3>1. bucket.score < Threshold(kind)
        BY <1>1, <1>5, <2>2 DEF BucketInv, NothingMissed
      <3>2. q.score < Threshold(kind)
        BY <1>1, <1>2, <1>4, <3>1, ThresholdType
      <3> QED
        BY <2>2, <3>2
    <2> QED
      BY <2>1, <2>2
  <1> HIDE DEF done
  <1>6. b \in Buckets /\ b.hits = q.hits /\ b.score = q.score /\ b.done = done
    BY <1>1, <1>4 DEF Buckets
  <1> HIDE DEF b
  <1> QED
    BY <1>1, <1>3, <1>5, <1>6

\* What Add decides under the lock.
LEMMA LockedFacts ==
    ASSUME Inv, NEW w \in Workers, Locked(w)
    PROVE  LET pruned == Rearm(Prune(bucket, adding[w].now))
               hit == [time |-> adding[w].now, weight |-> adding[w].weight]
               recorded == Record(pruned, hit)
               due == Crossed(recorded)
           IN /\ pruned \in Buckets /\ pruned.hits = InWindow(bucket.hits, adding[w].now)
              /\ pruned.score = SumWeights(pruned.hits)
              /\ \A kind \in Kinds :
                    Enabled(kind) => (~ pruned.done[kind] <=> pruned.score < Threshold(kind))
              /\ hit \in PosHit
              /\ recorded \in Buckets /\ recorded.done = pruned.done
              /\ recorded.score = pruned.score + adding[w].weight
              /\ recorded.score = SumWeights(recorded.hits)
  <1> DEFINE pruned == Rearm(Prune(bucket, adding[w].now))
             hit == [time |-> adding[w].now, weight |-> adding[w].weight]
             more == Append(pruned.hits, hit)
             sum == pruned.score + adding[w].weight
             recorded == [pruned EXCEPT !.hits = more, !.score = sum]
  <1>1. adding[w].now \in Times /\ adding[w].weight \in Weights /\ adding[w].weight > 0
    BY DEF Inv, AddingInv, Addings, Recorded, Locked
  <1>2. adding[w].now \in Int
    BY <1>1, TimesAreInts
  <1>3. hit \in PosHit
    BY <1>1 DEF PosHit, Hit
  <1>4. /\ pruned \in Buckets /\ pruned.hits = InWindow(bucket.hits, adding[w].now)
        /\ pruned.score = SumWeights(pruned.hits)
        /\ \A kind \in Kinds :
              Enabled(kind) => (~ pruned.done[kind] <=> pruned.score < Threshold(kind))
    BY <1>2, RearmFacts DEF Inv
  <1>5. Record(pruned, hit) = recorded
    BY DEF Record
  <1>6. hit.weight = adding[w].weight
    OBVIOUS
  <1> HIDE DEF pruned, hit
  <1>7. pruned.hits \in Seq(PosHit) /\ pruned.score \in Int
    BY <1>4 DEF Buckets
  <1>8. more \in Seq(PosHit) /\ sum = SumWeights(more) /\ sum \in Int
    <2>1. SumWeights(more) = SumWeights(pruned.hits) + hit.weight
      BY <1>3, <1>7, SumAppend
    <2>2. hit.weight \in Int
      BY <1>3, HitType
    <2>3. more \in Seq(PosHit)
      BY <1>3, <1>7
    <2> QED
      BY <1>4, <1>6, <1>7, <2>1, <2>2, <2>3
  <1> HIDE DEF more, sum
  <1>9. /\ recorded \in Buckets /\ recorded.done = pruned.done
        /\ recorded.score = sum /\ recorded.hits = more
    BY <1>4, <1>8 DEF Buckets
  <1> HIDE DEF recorded
  <1>10. recorded.score = pruned.score + adding[w].weight
    BY <1>9 DEF sum
  <1> QED
    BY <1>3, <1>4, <1>5, <1>8, <1>9, <1>10 DEF pruned, hit

\* What Mark leaves: every threshold the score has reached is marked.
LEMMA MarkFacts ==
    ASSUME NEW b \in Buckets, b.score = SumWeights(b.hits)
    PROVE  LET m == Mark(b, Crossed(b))
           IN /\ m \in Buckets /\ m.score = SumWeights(m.hits)
              /\ \A kind \in Kinds : Enabled(kind) /\ ~ m.done[kind] => m.score < Threshold(kind)
  <1> DEFINE done == [kind \in Kinds |-> b.done[kind] \/ kind \in Crossed(b)]
             m == [b EXCEPT !.done = done]
  <1>1. b.done \in [Kinds -> BOOLEAN] /\ b.score \in Int
    BY DEF Buckets
  <1>2. Mark(b, Crossed(b)) = m
    BY DEF Mark
  <1>3. done \in [Kinds -> BOOLEAN]
    BY <1>1
  <1>4. ASSUME NEW kind \in Kinds, Enabled(kind), ~ done[kind]
        PROVE  b.score < Threshold(kind)
    <2>1. ~ b.done[kind] /\ kind \notin Crossed(b)
      BY <1>4
    <2>2. ~ (b.score >= Threshold(kind))
      BY <1>4, <2>1 DEF Crossed
    <2> QED
      BY <1>1, <2>2, ThresholdType
  <1> HIDE DEF done
  <1>5. m \in Buckets /\ m.done = done /\ m.score = b.score /\ m.hits = b.hits
    BY <1>3 DEF Buckets
  <1> HIDE DEF m
  <1> QED
    BY <1>2, <1>4, <1>5

\* A worker's step changes what only that worker keeps.
LEMMA AddingStep ==
    ASSUME AddingInv, NEW w \in Workers, NEW a \in Addings, Recorded(a), Truthful(a),
           adding' = [adding EXCEPT ![w] = a]
    PROVE  AddingInv'
  <1>1. adding' \in [Workers -> Addings]
    BY DEF AddingInv
  <1>2. ASSUME NEW v \in Workers
        PROVE  Recorded(adding'[v]) /\ Truthful(adding'[v])
    <2>1. adding'[v] = IF v = w THEN a ELSE adding[v]
      BY DEF AddingInv
    <2> QED
      BY <2>1 DEF AddingInv
  <1> QED
    BY <1>1, <1>2 DEF AddingInv

LEMMA LockedStep ==
    ASSUME Inv, NEW w \in Workers, Locked(w)
    PROVE  Inv'
  <1> DEFINE pruned == Rearm(Prune(bucket, adding[w].now))
             hit == [time |-> adding[w].now, weight |-> adding[w].weight]
             recorded == Record(pruned, hit)
             due == Crossed(recorded)
             a == [adding[w] EXCEPT !.pc = "emitting", !.due = due, !.score = recorded.score,
                                    !.hits = recorded.hits]
  <1>1. recorded \in Buckets /\ recorded.score = SumWeights(recorded.hits)
    BY LockedFacts
  <1>2. /\ bucket' = Mark(recorded, due) /\ UNCHANGED <<clock, counting, sent>>
        /\ adding' = [adding EXCEPT ![w] = IF due = {} THEN Idle ELSE a]
    BY DEF Locked
  <1> HIDE DEF recorded
  <1>3. BucketInv'
    BY <1>1, <1>2, MarkFacts DEF BucketInv, NothingMissed
  <1>4. due \subseteq Kinds /\ \A kind \in due : recorded.score >= Threshold(kind)
    BY DEF Crossed
  <1> HIDE DEF due
  <1>5. /\ a \in Addings /\ a.pc = "emitting" /\ a.due = due
        /\ a.score = recorded.score /\ a.hits = recorded.hits
    <2>1. adding[w] \in Addings
      BY DEF Inv, AddingInv
    <2>2. recorded.score \in Int /\ recorded.hits \in Seq(PosHit)
      BY <1>1 DEF Buckets
    <2> QED
      BY <1>4, <2>1, <2>2 DEF Addings
  <1> HIDE DEF a
  <1>6. Recorded(a) /\ Truthful(a)
    BY <1>1, <1>4, <1>5 DEF Recorded, Truthful
  <1>7. Idle \in Addings /\ Recorded(Idle) /\ Truthful(Idle)
    BY IdleAdding DEF Recorded, Truthful
  <1>8. AddingInv'
    <2>1. CASE due = {}
      BY <1>2, <1>7, <2>1, AddingStep DEF Inv
    <2>2. CASE due # {}
      BY <1>2, <1>5, <1>6, <2>2, AddingStep DEF Inv
    <2> QED
      BY <2>1, <2>2
  <1> QED
    BY <1>2, <1>3, <1>8 DEF Inv, EventTrue

LEMMA StampStep ==
    ASSUME Inv, NEW w \in Workers, Stamp(w)
    PROVE  Inv'
  <1>1. PICK weight \in Weights :
           /\ weight > 0
           /\ adding' = [adding EXCEPT ![w] = [Idle EXCEPT !.pc = "stamped", !.now = clock,
                                                           !.weight = weight]]
    BY DEF Stamp
  <1> DEFINE a == [Idle EXCEPT !.pc = "stamped", !.now = clock, !.weight = weight]
  <1>2. a \in Addings /\ a.pc = "stamped" /\ a.weight = weight
    BY IdleAdding DEF Inv, Addings
  <1>3. adding' = [adding EXCEPT ![w] = a]
    BY <1>1
  <1> HIDE DEF a
  <1>4. AddingInv'
    BY <1>1, <1>2, <1>3, AddingStep DEF Inv, Recorded, Truthful
  <1> QED
    BY <1>4 DEF Inv, Stamp, BucketInv, NothingMissed, EventTrue

LEMMA EmitStep ==
    ASSUME Inv, NEW w \in Workers, NEW kind \in Kinds, Emit(w, kind)
    PROVE  Inv'
  <1> DEFINE rest == adding[w].due \ {kind}
             a == [adding[w] EXCEPT !.due = rest]
  <1>1. /\ adding[w] \in Addings /\ adding[w].pc = "emitting" /\ kind \in adding[w].due
        /\ Truthful(adding[w])
    BY DEF Inv, AddingInv, Emit
  <1>2. adding' = [adding EXCEPT ![w] = IF adding[w].due = {kind} THEN Idle ELSE a]
    BY DEF Emit
  <1>3. rest \subseteq adding[w].due /\ rest \subseteq Kinds
    BY <1>1 DEF Addings
  <1> HIDE DEF rest
  <1>4. /\ a \in Addings /\ a.pc = "emitting" /\ a.due = rest
        /\ a.score = adding[w].score /\ a.hits = adding[w].hits
    BY <1>1, <1>3 DEF Addings
  <1> HIDE DEF a
  <1>5. Recorded(a) /\ Truthful(a)
    BY <1>1, <1>3, <1>4 DEF Recorded, Truthful
  <1>6. Idle \in Addings /\ Recorded(Idle) /\ Truthful(Idle)
    BY IdleAdding DEF Recorded, Truthful
  <1>7. AddingInv'
    <2>1. CASE adding[w].due = {kind}
      BY <1>2, <1>6, <2>1, AddingStep DEF Inv
    <2>2. CASE adding[w].due # {kind}
      BY <1>2, <1>4, <1>5, <2>2, AddingStep DEF Inv
    <2> QED
      BY <2>1, <2>2
  <1>8. EventTrue'
    <2>1. sent' = [kind |-> kind, score |-> adding[w].score, hits |-> adding[w].hits]
      BY DEF Emit
    <2>2. sent'.kind = kind /\ sent'.score = adding[w].score /\ sent'.hits = adding[w].hits
      BY <2>1
    <2> QED
      BY <1>1, <2>2 DEF EventTrue, Truthful
  <1> QED
    BY <1>7, <1>8 DEF Inv, Emit, BucketInv, NothingMissed

LEMMA CountStep ==
    ASSUME Inv, BucketCount
    PROVE  Inv'
  <1> DEFINE pruned == Prune(bucket, counting)
  <1>1. /\ bucket' = IF pruned.hits = <<>> THEN NewBucket ELSE pruned
        /\ counting # -1 /\ counting' = -1 /\ UNCHANGED <<clock, adding, sent>>
    BY DEF BucketCount
  <1>2. counting \in Int
    BY <1>1, TimesAreInts DEF Inv
  <1>3. /\ pruned \in Buckets /\ pruned.score = SumWeights(pruned.hits)
        /\ pruned.score <= bucket.score /\ pruned.done = bucket.done
    BY <1>2, PruneFacts DEF Inv
  <1> HIDE DEF pruned
  <1>4. ASSUME NEW kind \in Kinds, Enabled(kind), ~ pruned.done[kind]
        PROVE  pruned.score < Threshold(kind)
    <2>1. bucket.score < Threshold(kind)
      BY <1>3, <1>4 DEF Inv, BucketInv, NothingMissed
    <2>2. bucket.score \in Int /\ pruned.score \in Int
      BY <1>3 DEF Inv, BucketInv, Buckets
    <2> QED
      BY <1>3, <2>1, <2>2, ThresholdType
  <1>5. BucketInv'
    <2>1. CASE bucket' = NewBucket
      BY <2>1, NewBucketInv DEF BucketInv, NothingMissed
    <2>2. CASE bucket' = pruned
      BY <1>3, <1>4, <2>2 DEF BucketInv, NothingMissed
    <2> QED
      BY <1>1, <2>1, <2>2
  <1> QED
    BY <1>1, <1>5 DEF Inv, AddingInv, EventTrue

LEMMA NextInv ==
    ASSUME Inv, [Next]_vars
    PROVE  Inv'
  <1>1. ASSUME UNCHANGED <<bucket, adding, sent>>,
               clock' \in Times, counting' \in Times \cup {-1}
        PROVE  Inv'
    BY <1>1 DEF Inv, BucketInv, NothingMissed, AddingInv, EventTrue
  <1>2. CASE Tick
    <2>1. clock' \in Times
      BY <1>2, RiskAssumption DEF Tick, Inv, Times
    <2> QED
      BY <1>1, <1>2, <2>1 DEF Tick, Inv
  <1>3. ASSUME NEW w \in Workers, Stamp(w)
        PROVE  Inv'
    BY <1>3, StampStep
  <1>4. ASSUME NEW w \in Workers, Locked(w)
        PROVE  Inv'
    BY <1>4, LockedStep
  <1>5. ASSUME NEW w \in Workers, NEW kind \in Kinds, Emit(w, kind)
        PROVE  Inv'
    BY <1>5, EmitStep
  <1>6. CASE StartCount
    BY <1>1, <1>6 DEF StartCount, Inv
  <1>7. CASE BucketCount
    BY <1>7, CountStep
  <1>8. CASE UNCHANGED vars
    BY <1>1, <1>8 DEF vars, Inv
  <1> QED
    BY <1>2, <1>3, <1>4, <1>5, <1>6, <1>7, <1>8 DEF Next

-----------------------------------------------------------------------------

\* What an Add sends is what it crosses.
LEMMA LockedCrossing ==
    ASSUME Inv, NEW w \in Workers, Locked(w), NEW kind \in Kinds, Enabled(kind)
    PROVE  LET before == SumWeights(InWindow(bucket.hits, adding[w].now))
           IN kind \in adding'[w].due <=> /\ before < Threshold(kind)
                                          /\ before + adding[w].weight >= Threshold(kind)
  <1> DEFINE pruned == Rearm(Prune(bucket, adding[w].now))
             recorded == Record(pruned, [time |-> adding[w].now, weight |-> adding[w].weight])
             due == Crossed(recorded)
             before == SumWeights(InWindow(bucket.hits, adding[w].now))
             a == [adding[w] EXCEPT !.pc = "emitting", !.due = due, !.score = recorded.score,
                                    !.hits = recorded.hits]
  <1>1. /\ pruned.hits = InWindow(bucket.hits, adding[w].now)
        /\ pruned.score = SumWeights(pruned.hits)
        /\ ~ pruned.done[kind] <=> pruned.score < Threshold(kind)
        /\ recorded.done = pruned.done /\ recorded.score = pruned.score + adding[w].weight
    BY LockedFacts
  <1>2. adding' = [adding EXCEPT ![w] = IF due = {} THEN Idle ELSE a]
    BY DEF Locked
  <1> HIDE DEF pruned, recorded
  <1>3. pruned.score = before
    BY <1>1
  <1>4. kind \in due <=> recorded.score >= Threshold(kind) /\ ~ recorded.done[kind]
    BY DEF Crossed
  <1> HIDE DEF due, before
  <1>5. adding \in [Workers -> Addings] /\ a.due = due
    BY DEF Inv, AddingInv, Addings
  <1> HIDE DEF a
  <1>6. adding'[w].due = due
    BY <1>2, <1>5, IdleAdding
  <1>7. kind \in adding'[w].due <=> before < Threshold(kind) /\ before + adding[w].weight >= Threshold(kind)
    BY <1>1, <1>3, <1>4, <1>6
  <1> QED
    BY <1>7 DEF before

\* Only the part of Add under the lock takes a worker from "stamped" on.
LEMMA LeavesStamped ==
    ASSUME Inv, [Next]_vars, NEW w \in Workers,
           adding[w].pc = "stamped", adding'[w].pc # "stamped"
    PROVE  Locked(w)
  <1>1. ASSUME UNCHANGED adding PROVE FALSE
    BY <1>1
  <1>2. ASSUME NEW v \in Workers, Stamp(v) \/ (Locked(v) /\ v # w) \/ \E kind \in Kinds : Emit(v, kind)
        PROVE  FALSE
    <2>1. v # w
      BY <1>2 DEF Stamp, Emit
    <2>2. \E a : adding' = [adding EXCEPT ![v] = a]
      BY <1>2 DEF Stamp, Locked, Emit
    <2>3. adding'[w] = adding[w]
      BY <2>1, <2>2 DEF Inv, AddingInv
    <2> QED
      BY <2>3
  <1> QED
    BY <1>1, <1>2 DEF Next, vars, Tick, StartCount, BucketCount

\* Whatever was pruned, and however late a worker got the lock: no bucket is
\* above a threshold nobody was told of (riskAggregator.Add, prune).
THEOREM NothingIsMissed == Spec => []NothingMissed
  <1>1. Spec => []Inv
    BY InitInv, NextInv, PTL DEF Spec
  <1>2. Inv => NothingMissed
    BY DEF Inv, BucketInv
  <1> QED
    BY <1>1, <1>2, PTL

\* What a sink is handed adds up: its score is that of its hits, and reached
\* the threshold of its kind, with any interleaving of Adds, and of the metrics
\* endpoint, between the decision and the call (riskAggregator.Add).
THEOREM EventsAreTrue == Spec => []EventTrue
  <1>1. Spec => []Inv
    BY InitInv, NextInv, PTL DEF Spec
  <1>2. Inv => EventTrue
    BY DEF Inv
  <1> QED
    BY <1>1, <1>2, PTL

\* A threshold is told of exactly when an Add takes the hits of the window from
\* below it to it: once per crossing, and again after a fall below it
\* (riskAggregator.Add).
THEOREM ToldPerCrossing == Spec => OncePerCrossing
  <1> DEFINE Told == \A w \in Workers : \A kind \in Kinds :
          (adding[w].pc = "stamped" /\ adding'[w].pc # "stamped" /\ Enabled(kind)) =>
              LET before == SumWeights(InWindow(bucket.hits, adding[w].now))
              IN kind \in adding'[w].due <=>
                     /\ before < Threshold(kind)
                     /\ before + adding[w].weight >= Threshold(kind)
  <1>1. Spec => []Inv
    BY InitInv, NextInv, PTL DEF Spec
  <1>2. ASSUME Inv, [Next]_vars PROVE Told
    <2> SUFFICES ASSUME NEW w \in Workers, NEW kind \in Kinds,
                        adding[w].pc = "stamped", adding'[w].pc # "stamped", Enabled(kind)
                 PROVE  LET before == SumWeights(InWindow(bucket.hits, adding[w].now))
                        IN kind \in adding'[w].due <=>
                               /\ before < Threshold(kind)
                               /\ before + adding[w].weight >= Threshold(kind)
      OBVIOUS
    <2>1. Locked(w)
      BY <1>2, LeavesStamped
    <2> QED
      BY <1>2, <2>1, LockedCrossing
  <1>3. Inv /\ [Next]_vars => [Told]_vars
    BY <1>2
  <1> HIDE DEF Told
  <1>4. Spec => [][Told]_vars
    BY <1>1, <1>3, PTL DEF Spec
  <1> QED
    BY <1>4 DEF OncePerCrossing, Told

=============================================================================
