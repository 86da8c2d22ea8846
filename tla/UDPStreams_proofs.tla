-------------------------- MODULE UDPStreams_proofs --------------------------
(***************************************************************************)
(* Proofs about UDPStreams, for any flows, hashes, table size, analyzers,  *)
(* limits and rulesets.                                                    *)
(***************************************************************************)
EXTENDS UDPStreams, SequenceTheorems, TLAPS

(***************************************************************************)
(* What holds of every stream between two packets, as a predicate of the   *)
(* stream alone.  Inspecting is the part that also holds in the middle of  *)
(* Feed, after the entries were fed and before a verdict is settled.       *)
(***************************************************************************)
Inspecting(s) ==
    /\ s \in Stream
    /\ \A a \in Analyzers :
          /\ s.analyzer[a] # "misused"
          /\ a \in s.active <=> s.analyzer[a] = "open"
          /\ s.analyzer[a] # "absent" <=> a \in RsAnalyzers[s.rs]
    /\ \A a \in s.active : HasLimit(a) => s.quota[a] \in 1..Limit[a]
    /\ s.last \in {"Accept", "AcceptStream"}
                   \cup {ActionVerdict(action) : action \in RsActions[s.rs]}

Good(s) ==
    /\ Inspecting(s)
    /\ Settled(s) => s.last # "Accept"
    /\ s.last \in FinalVerdicts => Settled(s)

\* A stream is created ready to inspect its first packet.
LEMMA NewStreamGood ==
    ASSUME NEW flow \in Flows, ruleset \in Rulesets
    PROVE  Good(NewStream(flow)) /\ Accepts(NewStream(flow))
  BY AnalyzerAssumption, RulesetAssumption
  DEF Good, Inspecting, NewStream, Stream, Accepts, Settled, HasLimit,
      Verdicts, FinalVerdicts, AnalyzerStates

\* Closing the active entries keeps the contract of their analyzers.
LEMMA CloseKeeps ==
    ASSUME NEW s, Inspecting(s)
    PROVE  /\ Inspecting(CloseActiveEntries(s))
           /\ CloseActiveEntries(s).active = {}
           /\ CloseActiveEntries(s).virgin = s.virgin
           /\ CloseActiveEntries(s).last = s.last
           /\ CloseActiveEntries(s).flow = s.flow
  BY DEF CloseActiveEntries, Inspecting, Stream, AfterClose, AnalyzerStates

\* Feeding the entries keeps the contract and leaves quota to those that stay.
LEMMA FeedKeeps ==
    ASSUME NEW s, Inspecting(s), NEW len \in 0..MaxPayload,
           NEW dones \in SUBSET s.active
    PROVE  /\ Inspecting(FeedEntries(s, len, dones))
           /\ FeedEntries(s, len, dones).last = s.last
           /\ FeedEntries(s, len, dones).flow = s.flow
           /\ FeedEntries(s, len, dones).rs = s.rs
  <1> DEFINE t == FeedEntries(s, len, dones)
  <1>a. s \in Stream
    BY DEF Inspecting
  <1>b. FedQuota(s, len) \in [Analyzers -> Int]
    BY <1>a, AnalyzerAssumption DEF FedQuota, Stream
  <1>c. FedAnalyzer(s, len, dones) \in [Analyzers -> AnalyzerStates]
    BY <1>a DEF FedAnalyzer, Stream, AfterFeed, AfterClose, AnalyzerStates
  <1>1. t \in Stream
    BY <1>a, <1>b, <1>c DEF FeedEntries, Stream
  <1>2. ASSUME NEW a \in Analyzers
        PROVE  /\ t.analyzer[a] # "misused"
               /\ a \in t.active <=> t.analyzer[a] = "open"
               /\ t.analyzer[a] # "absent" <=> a \in RsAnalyzers[t.rs]
    BY AnalyzerAssumption
    DEF Inspecting, FeedEntries, Stream, FedAnalyzer, Exhausted,
        AfterFeed, AfterClose, AnalyzerStates
  <1>3. ASSUME NEW a \in t.active, HasLimit(a)
        PROVE  t.quota[a] \in 1..Limit[a]
    BY <1>3, AnalyzerAssumption
    DEF Inspecting, FeedEntries, Stream, FedQuota, Exhausted, HasLimit
  <1>4. t.last = s.last /\ t.flow = s.flow /\ t.rs = s.rs
    BY DEF Inspecting, FeedEntries, Stream
  <1> QED
    BY <1>1, <1>2, <1>3, <1>4 DEF Inspecting

\* Whatever the ruleset answers to a stream that was fed, the stream ends the
\* packet either inspecting or settled with a verdict.
LEMMA DecideGood ==
    ASSUME NEW s, Inspecting(s), ~s.virgin, s.last \notin FinalVerdicts,
           NEW action \in RsActions[s.rs] \cup {"Maybe"}
    PROVE  /\ Good(AcceptIfAllDone(ApplyAction(s, action), ActionVerdict(action)))
           /\ AcceptIfAllDone(ApplyAction(s, action), ActionVerdict(action)).flow = s.flow
  <1> DEFINE d == ApplyAction(s, action)
             t == AcceptIfAllDone(d, ActionVerdict(action))
  <1> SUFFICES Good(t) /\ t.flow = s.flow
    OBVIOUS
  <1>a. s \in Stream /\ RsActions[s.rs] \in SUBSET Actions
    BY RulesetAssumption DEF Inspecting, Stream
  <1>b. ActionVerdict(action) \in Verdicts
    BY <1>a DEF ActionVerdict, Actions, Verdicts
  <1>1. CASE action = "Maybe"
    <2>1. d = s /\ ActionVerdict(action) = "Accept"
      BY <1>1 DEF ApplyAction, ActionVerdict
    <2>2. CASE s.active = {}
      <3>1. t = [s EXCEPT !.last = "AcceptStream"]
        BY <2>1, <2>2 DEF AcceptIfAllDone
      <3>2. Inspecting(t) /\ t.flow = s.flow /\ t.active = {} /\ ~t.virgin
                /\ t.last = "AcceptStream"
        BY <1>a, <2>2, <3>1 DEF Inspecting, Stream, Verdicts
      <3> HIDE DEF t
      <3> QED
        BY <3>2 DEF Good, Settled, Accepts
    <2>3. CASE s.active # {}
      BY <2>1, <2>3 DEF AcceptIfAllDone, Good, Settled, Accepts
    <2> QED
      BY <2>2, <2>3
  <1>2. CASE action # "Maybe"
    <2> DEFINE e == [s EXCEPT !.last = ActionVerdict(action)]
    <2>1. ActionVerdict(action) # "Accept"
      BY <1>2, <1>a DEF ActionVerdict, Actions
    <2>2. /\ Inspecting(e)
          /\ e.last = ActionVerdict(action) /\ e.flow = s.flow /\ ~e.virgin
      BY <1>2, <1>a, <1>b DEF Inspecting, Stream
    <2>3. CASE Final(action)
      <3>1. t = CloseActiveEntries(e)
        BY <1>2, <2>1, <2>3 DEF ApplyAction, AcceptIfAllDone
      <3> HIDE DEF e, t
      <3>2. Inspecting(t) /\ t.active = {} /\ ~t.virgin
                /\ t.last = ActionVerdict(action) /\ t.flow = s.flow
        BY <2>2, <3>1, CloseKeeps
      <3> QED
        BY <2>1, <3>2 DEF Good, Settled, Accepts
    <2>4. CASE ~Final(action)
      <3>1. t = e
        BY <1>2, <2>1, <2>4 DEF ApplyAction, AcceptIfAllDone
      <3>2. ActionVerdict(action) \notin FinalVerdicts
        BY <1>2, <1>a, <2>4 DEF ActionVerdict, Actions, FinalVerdicts, Final
      <3> HIDE DEF e, t
      <3> QED
        BY <2>1, <2>2, <3>1, <3>2 DEF Good
    <2> QED
      BY <2>3, <2>4
  <1> QED
    BY <1>1, <1>2

-----------------------------------------------------------------------------
(* The inductive invariant: types, a consistent table of Good streams, and *)
(* nothing left open behind the last packet.                               *)

StreamsGood == \A id \in Cached : Good(streams[id])

IInv == TypeOK /\ TableConsistent /\ StreamsGood /\ ReplacedIsClosed

\* The stream a packet is handed to belongs to the packet's flow.
LEMMA StreamForGood ==
    ASSUME IInv, NEW flow \in Flows
    PROVE  Good(StreamFor(flow)) /\ StreamFor(flow).flow = flow
  <1>1. CASE Hit(flow)
    BY <1>1, IDAssumption
    DEF IInv, TypeOK, StreamsGood, Cached, Hit, StreamFor
  <1>2. CASE ~Hit(flow)
    BY <1>2, NewStreamGood DEF IInv, TypeOK, StreamFor, NewStream
  <1> QED
    BY <1>1, <1>2

\* Storing a good stream under the hash of its flow keeps the table good,
\* whatever was evicted for it.
LEMMA StoreGood ==
    ASSUME IInv, NEW flow \in Flows, NEW s, Good(s), s.flow = flow,
           Store(IDOf[flow], s)
    PROVE  /\ streams' \in [StreamIDs -> Stream \cup {NoStream}]
           /\ StreamsGood'
  <1>1. s \in Stream /\ IDOf[flow] \in StreamIDs
    BY IDAssumption DEF Good, Inspecting
  <1>2. streams' \in [StreamIDs -> Stream \cup {NoStream}]
    BY <1>1 DEF Store, IInv, TypeOK
  <1>3. ASSUME NEW id \in StreamIDs, streams'[id] # NoStream
        PROVE  \/ streams'[id] = s /\ id = IDOf[flow]
               \/ streams'[id] = streams[id] /\ streams[id] # NoStream
    BY <1>3 DEF Store
  <1>4. ASSUME NEW id \in StreamIDs, streams'[id] # NoStream
        PROVE  Good(streams'[id])
    BY <1>3, <1>4 DEF IInv, StreamsGood, Cached
  <1>5. StreamsGood' = (\A id \in StreamIDs : streams'[id] # NoStream =>
                            Good(streams'[id]))
    BY DEF StreamsGood, Cached, Good, Inspecting, Settled, Accepts
  <1> QED
    BY <1>2, <1>4, <1>5

-----------------------------------------------------------------------------
(* The LRU order: sequences without repetition. *)

Members(q) == {q[i] : i \in DOMAIN q}

Distinct(q) == \A i, j \in DOMAIN q : q[i] = q[j] => i = j

\* Removing position i moves the later elements up by one.
LEMMA RemoveAtPositions ==
    ASSUME NEW S, NEW q \in Seq(S), NEW i \in 1..Len(q)
    PROVE  /\ RemoveAt(q, i) \in Seq(S)
           /\ Len(RemoveAt(q, i)) = Len(q) - 1
           /\ \A j \in 1..Len(q) - 1 :
                 RemoveAt(q, i)[j] = IF j < i THEN q[j] ELSE q[j + 1]
  <1> DEFINE before == SubSeq(q, 1, i - 1)
             after  == SubSeq(q, i + 1, Len(q))
             all    == before \o after
  <1>1. before \in Seq(S) /\ Len(before) = i - 1
            /\ \A j \in 1..i - 1 : before[j] = q[j]
    OBVIOUS
  <1>2. after \in Seq(S) /\ Len(after) = Len(q) - i
            /\ \A j \in 1..Len(q) - i : after[j] = q[i + j]
    OBVIOUS
  <1>3. RemoveAt(q, i) = all
    BY DEF RemoveAt
  <1> HIDE DEF before, after
  <1>4. /\ all \in Seq(S)
        /\ Len(all) = Len(before) + Len(after)
        /\ \A j \in 1..Len(before) + Len(after) :
              all[j] = IF j <= Len(before) THEN before[j] ELSE after[j - Len(before)]
    BY <1>1, <1>2, ConcatProperties
  <1> HIDE DEF all
  <1>5. Len(all) = Len(q) - 1
    BY <1>1, <1>2, <1>4
  <1>6. ASSUME NEW j \in 1..Len(q) - 1
        PROVE  all[j] = IF j < i THEN q[j] ELSE q[j + 1]
    <2>1. CASE j < i
      <3>1. j \in 1..i - 1 /\ j <= i - 1 /\ j \in 1..(i - 1) + (Len(q) - i)
        BY <2>1
      <3>2. all[j] = before[j]
        BY <3>1, <1>1, <1>2, <1>4
      <3> QED
        BY <2>1, <3>1, <3>2, <1>1
    <2>2. CASE ~(j < i)
      <3>1. all[j] = after[j - (i - 1)]
        BY <2>2, <1>1, <1>2, <1>4
      <3>2. j - (i - 1) \in 1..Len(q) - i /\ i + (j - (i - 1)) = j + 1
        BY <2>2
      <3> QED
        BY <2>2, <3>1, <3>2, <1>2
    <2> QED
      BY <2>1, <2>2
  <1> QED
    BY <1>3, <1>4, <1>5, <1>6

\* Dropping an element of a sequence without repetition drops just it.
LEMMA DropPosition ==
    ASSUME NEW S, NEW q \in Seq(S), Distinct(q), NEW i \in 1..Len(q)
    PROVE  /\ RemoveAt(q, i) \in Seq(S)
           /\ Len(RemoveAt(q, i)) = Len(q) - 1
           /\ Distinct(RemoveAt(q, i))
           /\ Members(RemoveAt(q, i)) = Members(q) \ {q[i]}
  <1> DEFINE r == RemoveAt(q, i)
  <1>1. /\ r \in Seq(S) /\ Len(r) = Len(q) - 1
        /\ \A j \in 1..Len(q) - 1 : r[j] = IF j < i THEN q[j] ELSE q[j + 1]
    BY RemoveAtPositions
  <1> HIDE DEF r
  <1>2. DOMAIN r = 1..Len(q) - 1 /\ DOMAIN q = 1..Len(q) /\ Len(q) \in Nat
    BY <1>1
  <1>3. Distinct(r)
    <2> DEFINE from(j) == IF j < i THEN j ELSE j + 1
    <2>1. \A j \in 1..Len(q) - 1 : from(j) \in 1..Len(q) /\ r[j] = q[from(j)]
      BY <1>1, <1>2
    <2>2. \A j, k \in 1..Len(q) - 1 : from(j) = from(k) => j = k
      BY <1>2
    <2>3. \A j, k \in 1..Len(q) : q[j] = q[k] => j = k
      BY <1>2 DEF Distinct
    <2> HIDE DEF from
    <2> QED
      BY <1>2, <2>1, <2>2, <2>3 DEF Distinct
  <1>4. ASSUME NEW x \in Members(r)
        PROVE  x \in Members(q) \ {q[i]}
    <2>1. PICK j \in 1..Len(q) - 1 : x = r[j]
      BY <1>2 DEF Members
    <2>2. PICK k \in 1..Len(q) : x = q[k] /\ k # i
      BY <2>1, <1>1, <1>2
    <2> QED
      BY <2>2, <1>2 DEF Members, Distinct
  <1>5. ASSUME NEW x \in Members(q) \ {q[i]}
        PROVE  x \in Members(r)
    <2>1. PICK k \in 1..Len(q) : x = q[k] /\ k # i
      BY <1>2 DEF Members
    <2>2. CASE k < i
      <3>1. k \in 1..Len(q) - 1 /\ r[k] = x
        BY <2>1, <2>2, <1>1, <1>2
      <3> QED
        BY <3>1, <1>2 DEF Members
    <2>3. CASE ~(k < i)
      <3>1. k - 1 \in 1..Len(q) - 1 /\ r[k - 1] = x
        BY <2>1, <2>3, <1>1, <1>2
      <3> QED
        BY <3>1, <1>2 DEF Members
    <2> QED
      BY <2>2, <2>3
  <1> QED
    BY <1>1, <1>3, <1>4, <1>5 DEF r

\* The same for the first element.
LEMMA DropHead ==
    ASSUME NEW S, NEW q \in Seq(S), Distinct(q), q # <<>>
    PROVE  /\ Tail(q) \in Seq(S)
           /\ Len(Tail(q)) = Len(q) - 1
           /\ Distinct(Tail(q))
           /\ Members(Tail(q)) = Members(q) \ {Head(q)}
  <1>1. Tail(q) = RemoveAt(q, 1)
    <2>1. 1 \in 1..Len(q)
      OBVIOUS
    <2>2. /\ Tail(q) \in Seq(S) /\ Len(Tail(q)) = Len(q) - 1
          /\ \A j \in 1..Len(q) - 1 : Tail(q)[j] = q[j + 1]
      OBVIOUS
    <2>3. /\ RemoveAt(q, 1) \in Seq(S) /\ Len(RemoveAt(q, 1)) = Len(q) - 1
          /\ \A j \in 1..Len(q) - 1 : RemoveAt(q, 1)[j] = q[j + 1]
      BY <2>1, RemoveAtPositions
    <2>4. \A j \in 1..Len(Tail(q)) : Tail(q)[j] = RemoveAt(q, 1)[j]
      BY <2>2, <2>3
    <2> QED
      BY <2>2, <2>3, <2>4, SeqEqual
  <1>2. 1 \in 1..Len(q) /\ Head(q) = q[1]
    OBVIOUS
  <1> DEFINE r == RemoveAt(q, 1)
  <1>3. /\ r \in Seq(S) /\ Len(r) = Len(q) - 1
        /\ Distinct(r) /\ Members(r) = Members(q) \ {q[1]}
    BY <1>2, DropPosition
  <1>4. Tail(q) = r
    BY <1>1
  <1> HIDE DEF r
  <1> QED
    BY <1>2, <1>3, <1>4

\* Appending an element that is not there keeps a sequence without repetition.
LEMMA AppendFresh ==
    ASSUME NEW S, NEW q \in Seq(S), Distinct(q), NEW x \in S, x \notin Members(q)
    PROVE  /\ Append(q, x) \in Seq(S)
           /\ Len(Append(q, x)) = Len(q) + 1
           /\ Distinct(Append(q, x))
           /\ Members(Append(q, x)) = Members(q) \cup {x}
  <1> DEFINE r == Append(q, x)
  <1>1. /\ r \in Seq(S) /\ Len(r) = Len(q) + 1
        /\ \A j \in 1..Len(q) : r[j] = q[j]
        /\ r[Len(q) + 1] = x
    OBVIOUS
  <1> HIDE DEF r
  <1>2. DOMAIN r = 1..Len(q) + 1 /\ DOMAIN q = 1..Len(q) /\ Len(q) \in Nat
    BY <1>1
  <1>3. \A j \in 1..Len(q) + 1 : j \in 1..Len(q) \/ j = Len(q) + 1
    BY <1>2
  <1>4. Distinct(r)
    BY <1>1, <1>2, <1>3 DEF Distinct, Members
  <1>5. Members(r) = Members(q) \cup {x}
    BY <1>1, <1>2, <1>3 DEF Members
  <1> QED
    BY <1>1, <1>4, <1>5 DEF r

-----------------------------------------------------------------------------
(* One packet. *)

\* Touching the ID of a packet while its stream is stored keeps the LRU order
\* and the table in step: a hit moves up, a newcomer is appended and, in a full
\* table, replaces the least recent ID.
LEMMA TouchKeeps ==
    ASSUME TypeOK, TableConsistent, NEW id \in StreamIDs, NEW s \in Stream,
           IDOf[s.flow] = id, Store(id, s), Touch(id)
    PROVE  recency' \in Seq(StreamIDs) /\ TableConsistent'
  <1> DEFINE kept == IF streams[id] # NoStream
                     THEN RemoveAt(recency, CHOOSE i \in DOMAIN recency : recency[i] = id)
                     ELSE IF Evicted(id) # {} THEN Tail(recency) ELSE recency
  <1>1. /\ recency \in Seq(StreamIDs) /\ Distinct(recency)
        /\ Members(recency) = Cached /\ Len(recency) <= MaxStreams
        /\ \A i \in Cached : IDOf[streams[i].flow] = i
        /\ DOMAIN recency = 1..Len(recency) /\ Len(recency) \in Nat
    BY DEF TypeOK, TableConsistent, Distinct, Members
  <1>2. s # NoStream
    BY NoStreamAssumption
  <1>3. /\ kept \in Seq(StreamIDs) /\ Distinct(kept)
        /\ Members(kept) = Cached \ ({id} \cup Evicted(id))
        /\ Len(kept) < MaxStreams
    <2>1. CASE streams[id] # NoStream
      <3> DEFINE i == CHOOSE i \in DOMAIN recency : recency[i] = id
      <3>1. i \in 1..Len(recency) /\ recency[i] = id
        BY <1>1, <2>1 DEF Cached, Members
      <3>2. kept = RemoveAt(recency, i) /\ Evicted(id) = {}
        BY <2>1 DEF Evicted
      <3> HIDE DEF i, kept
      <3>3. recency \in Seq(StreamIDs) /\ Distinct(recency)
        BY <1>1
      <3>4. /\ RemoveAt(recency, i) \in Seq(StreamIDs)
            /\ Len(RemoveAt(recency, i)) = Len(recency) - 1
            /\ Distinct(RemoveAt(recency, i))
            /\ Members(RemoveAt(recency, i)) = Members(recency) \ {recency[i]}
        BY ONLY <3>1, <3>3, DropPosition
      <3>5. /\ kept \in Seq(StreamIDs) /\ Distinct(kept)
            /\ Members(kept) = Members(recency) \ {recency[i]}
            /\ Len(kept) = Len(recency) - 1
        BY ONLY <3>2, <3>4
      <3> QED
        BY <1>1, <3>1, <3>2, <3>5, TableAssumption
    <2>2. CASE streams[id] = NoStream /\ Len(recency) >= MaxStreams
      <3>1. recency # <<>>
        BY <1>1, <2>2, TableAssumption
      <3>2. kept = Tail(recency) /\ Evicted(id) = {Head(recency)}
        BY <2>2 DEF Evicted
      <3> HIDE DEF kept
      <3>3. /\ kept \in Seq(StreamIDs) /\ Distinct(kept)
            /\ Members(kept) = Members(recency) \ {Head(recency)}
            /\ Len(kept) = Len(recency) - 1
        BY <1>1, <3>1, <3>2, DropHead
      <3>4. id \notin Cached
        BY <2>2 DEF Cached
      <3> QED
        BY <1>1, <3>2, <3>3, <3>4, TableAssumption
    <2>3. CASE streams[id] = NoStream /\ ~(Len(recency) >= MaxStreams)
      <3>1. kept = recency /\ Evicted(id) = {} /\ id \notin Cached
        BY <2>3 DEF Evicted, Cached
      <3> HIDE DEF kept
      <3> QED
        BY <1>1, <2>3, <3>1, TableAssumption
    <2> QED
      BY <2>1, <2>2, <2>3
  <1>4. recency' = Append(kept, id)
    BY DEF Touch
  <1> HIDE DEF kept
  <1>5. /\ recency' \in Seq(StreamIDs) /\ Len(recency') = Len(kept) + 1
        /\ Distinct(recency') /\ Members(recency') = Members(kept) \cup {id}
    BY <1>3, <1>4, AppendFresh
  <1>6. ASSUME NEW i \in StreamIDs
        PROVE  streams'[i] = IF i = id THEN s
                             ELSE IF i \in Evicted(id) THEN NoStream ELSE streams[i]
    BY DEF Store
  <1>7. Cached' = (Cached \ Evicted(id)) \cup {id}
    BY <1>2, <1>6 DEF Cached
  <1>8. \A i \in Cached' : IDOf[streams'[i].flow] = i
    BY <1>1, <1>6, <1>7 DEF Cached
  <1>9. Len(recency') <= MaxStreams
    BY <1>3, <1>5, TableAssumption
  <1>10. Cached' = Members(recency')
    BY <1>3, <1>5, <1>7
  <1> QED
    BY <1>5, <1>8, <1>9, <1>10 DEF TableConsistent, Distinct, Members

\* What a packet step leaves behind is what its stream needs, whatever the
\* stream's new state and the outcome of the packet are.
LEMMA PacketKeeps ==
    ASSUME IInv, NEW flow \in Flows, NEW s, Good(s), s.flow = flow,
           Store(IDOf[flow], s), Touch(IDOf[flow]), UNCHANGED ruleset,
           out' \in Outcome, out'.leftOpen = LeftOpen(flow)
    PROVE  IInv'
  <1>1. s \in Stream /\ IDOf[flow] \in StreamIDs
    BY IDAssumption DEF Good, Inspecting
  <1>2. streams' \in [StreamIDs -> Stream \cup {NoStream}] /\ StreamsGood'
    BY StoreGood
  <1>3. recency' \in Seq(StreamIDs) /\ TableConsistent'
    BY <1>1, TouchKeeps DEF IInv
  <1>4. TypeOK'
    BY <1>2, <1>3 DEF IInv, TypeOK
  <1>5. LeftOpen(flow) = {}
    <2>1. CASE Collision(flow)
      <3>1. Inspecting(streams[IDOf[flow]])
        BY <1>1, <2>1 DEF IInv, StreamsGood, Cached, Collision, Good
      <3>2. Inspecting(CloseActiveEntries(streams[IDOf[flow]]))
                /\ CloseActiveEntries(streams[IDOf[flow]]).active = {}
        BY <3>1, CloseKeeps
      <3> QED
        BY <2>1, <3>2 DEF LeftOpen, Inspecting
    <2>2. CASE ~Collision(flow)
      BY <2>2 DEF LeftOpen
    <2> QED
      BY <2>1, <2>2
  <1> QED
    BY <1>2, <1>3, <1>4, <1>5 DEF IInv, ReplacedIsClosed

\* What a packet leaves: a good stream of its flow in the table, and an outcome.
Leaves(flow, s) ==
    /\ Good(s) /\ s.flow = flow /\ Store(IDOf[flow], s)
    /\ out' \in Outcome /\ out'.flow = flow /\ out'.leftOpen = LeftOpen(flow)

LEMMA ReplayLeaves ==
    ASSUME IInv, NEW flow \in Flows, Replay(flow)
    PROVE  Leaves(flow, StreamFor(flow))
  <1>1. Good(StreamFor(flow)) /\ StreamFor(flow).flow = flow
    BY StreamForGood
  <1>2. Store(IDOf[flow], StreamFor(flow))
    BY DEF Replay
  <1>3. StreamFor(flow).last \in Verdicts
    BY <1>1 DEF Good, Inspecting, Stream
  <1>4. LeftOpen(flow) \in SUBSET Analyzers
    BY DEF LeftOpen
  <1>5. out' \in Outcome /\ out'.flow = flow /\ out'.leftOpen = LeftOpen(flow)
    BY <1>3, <1>4 DEF Replay, Outcome
  <1> QED
    BY <1>1, <1>2, <1>5 DEF Leaves

LEMMA InspectLeaves ==
    ASSUME IInv, NEW flow \in Flows, NEW len \in 0..MaxPayload,
           NEW dones \in SUBSET StreamFor(flow).active,
           NEW answer \in RsActions[StreamFor(flow).rs] \cup {"Maybe"},
           NEW updated \in BOOLEAN, NEW modified \in BOOLEAN, NEW serialized \in BOOLEAN,
           Inspect(flow, len, dones, updated, answer, modified, serialized)
    PROVE  /\ Accepts(StreamFor(flow))
           /\ \E s : Leaves(flow, s)
           /\ ~Hit(flow) => out'.cause \in Actions
  <1> DEFINE s       == StreamFor(flow)
             fed     == FeedEntries(s, len, dones)
             seen    == [fed EXCEPT !.virgin = FALSE]
             matched == updated \/ s.virgin
             action  == IF ~matched \/ (answer = "Modify" /\ ~modified)
                        THEN "Maybe" ELSE answer
             decided == ApplyAction(seen, action)
             verdict == FeedVerdict(decided, ActionVerdict(action))
             unsent  == verdict = "AcceptModify" /\ ~serialized
             stored  == AcceptIfAllDone(decided, ActionVerdict(action))
  <1>1. Good(s) /\ s.flow = flow
    BY StreamForGood
  <1>2. /\ Accepts(s)
        /\ Store(IDOf[flow], stored)
        /\ out' = [flow |-> flow,
                   cause |-> IF matched THEN action ELSE "None",
                   verdict |-> IF unsent THEN "Accept" ELSE verdict,
                   payload |-> verdict = "AcceptModify" /\ ~unsent,
                   leftOpen |-> LeftOpen(flow)]
    BY DEF Inspect
  <1>3. /\ Inspecting(fed) /\ fed.last = s.last /\ fed.flow = flow /\ fed.rs = s.rs
    BY <1>1, FeedKeeps DEF Good
  <1>4. /\ Inspecting(seen) /\ ~seen.virgin /\ seen.last = s.last
        /\ seen.flow = flow /\ seen.rs = s.rs
    <2> HIDE DEF fed, s
    <2> QED
      BY <1>3 DEF Inspecting, Stream
  <1>5. s.last \notin FinalVerdicts
    BY <1>1, <1>2 DEF Good, Settled
  <1>6. action \in RsActions[s.rs] \cup {"Maybe"}
    OBVIOUS
  <1>7. Good(stored) /\ stored.flow = flow
    <2> HIDE DEF seen, action, s
    <2> QED
      BY <1>4, <1>5, <1>6, DecideGood
  <1>8. action \in Actions
    <2>1. s.rs \in Rulesets
      BY <1>1 DEF Good, Inspecting, Stream
    <2> HIDE DEF action, s
    <2> QED
      BY <1>6, <2>1, RulesetAssumption DEF Actions
  <1>9. verdict \in Verdicts
    <2> HIDE DEF action, decided
    <2> QED
      BY <1>8 DEF FeedVerdict, ActionVerdict, Actions, Verdicts
  <1>10. LeftOpen(flow) \in SUBSET Analyzers
    BY DEF LeftOpen
  <1>11. out' \in Outcome /\ out'.flow = flow /\ out'.leftOpen = LeftOpen(flow)
    <2> HIDE DEF action, verdict, matched
    <2> QED
      BY <1>2, <1>8, <1>9, <1>10 DEF Outcome, Verdicts
  <1>12. Leaves(flow, stored)
    <2> HIDE DEF stored
    <2> QED
      BY <1>2, <1>7, <1>11 DEF Leaves
  <1>13. ASSUME ~Hit(flow)
         PROVE  out'.cause = action
    <2>1. s.virgin
      BY <1>13 DEF StreamFor, NewStream
    <2> HIDE DEF s, action, verdict, unsent
    <2> QED
      BY <1>2, <2>1
  <1> QED
    <2> HIDE DEF action, stored
    <2> QED
      BY <1>2, <1>8, <1>12, <1>13

\* A packet is a replay, or an inspection by a stream that still accepts.
LEMMA PacketCases ==
    ASSUME IInv, NEW flow \in Flows, Packet(flow)
    PROVE  /\ \E s : Leaves(flow, s)
           /\ Replay(flow) \/ Accepts(StreamFor(flow))
           /\ ~Hit(flow) => out'.cause \in Actions
  <1>1. Replay(flow) => Hit(flow)
    BY NewStreamGood DEF Replay, StreamFor, IInv, TypeOK
  <1>2. CASE Replay(flow)
    BY <1>1, <1>2, ReplayLeaves
  <1>3. CASE ~Replay(flow)
    BY <1>3, InspectLeaves DEF Packet
  <1> QED
    BY <1>2, <1>3

-----------------------------------------------------------------------------
(* The theorems. *)

LEMMA Inductive ==
    /\ Init => IInv
    /\ IInv /\ [Next]_vars => IInv'
  <1>1. Init => IInv
    <2> SUFFICES ASSUME Init PROVE IInv
      OBVIOUS
    <2>1. Cached = {} /\ recency = <<>>
      BY DEF Init, Cached
    <2>2. TypeOK
      <3>1. ruleset \in Rulesets /\ streams \in [StreamIDs -> Stream \cup {NoStream}]
        BY DEF Init
      <3>2. recency \in Seq(StreamIDs)
        BY <2>1
      <3>3. out \in Outcome
        <4>1. out \in [flow : Flows, cause : {"None"}, verdict : {"Accept"},
                       payload : {FALSE}, leftOpen : {{}}]
          BY DEF Init
        <4>2. {} \in SUBSET Analyzers /\ "Accept" \in Verdicts
          BY DEF Verdicts
        <4> QED
          BY <4>1, <4>2 DEF Outcome
      <3> QED
        BY <3>1, <3>2, <3>3 DEF TypeOK
    <2>3. ReplacedIsClosed
      BY DEF Init, ReplacedIsClosed
    <2>4. TableConsistent
      BY <2>1, TableAssumption DEF TableConsistent
    <2> QED
      BY <2>1, <2>2, <2>3, <2>4 DEF IInv, StreamsGood
  <1>2. ASSUME IInv, [Next]_vars
        PROVE  IInv'
    <2>1. ASSUME NEW flow \in Flows, Packet(flow)
          PROVE  IInv'
      <3>1. PICK s : Leaves(flow, s)
        BY <1>2, <2>1, PacketCases
      <3> QED
        BY <1>2, <2>1, <3>1, PacketKeeps DEF Leaves, Packet
    <2>2. ASSUME NEW r \in Rulesets, UpdateRuleset(r)
          PROVE  IInv'
      <3>1. streams' = streams /\ recency' = recency /\ out' = out
        BY <2>2 DEF UpdateRuleset
      <3>2. TypeOK'
        BY <1>2, <2>2 DEF UpdateRuleset, IInv, TypeOK
      <3> QED
        BY <1>2, <3>1, <3>2
        DEF IInv, TableConsistent, StreamsGood, ReplacedIsClosed, Cached
    <2>3. CASE UNCHANGED vars
      BY <1>2, <2>3
      DEF IInv, TypeOK, TableConsistent, StreamsGood, ReplacedIsClosed, Cached, vars
    <2> QED
      BY <1>2, <2>1, <2>2, <2>3 DEF Next
  <1> QED
    BY <1>1, <1>2

THEOREM Invariance == Spec => []IInv
  BY Inductive, PTL DEF Spec

\* The LRU order and the table never come apart.
THEOREM TableCorrect == Spec => []TableConsistent
  BY Invariance, PTL DEF IInv

\* Every stream in the table keeps the contract of its analyzers, and one that
\* is replaced leaves none of them open.
THEOREM AnalyzersCorrect == Spec => []AnalyzersTold
  <1>1. IInv => AnalyzersTold
    BY DEF IInv, StreamsGood, Good, Inspecting, AnalyzersTold, AnalyzerContract
  <1> QED
    BY <1>1, Invariance, PTL

\* Every stream in the table spends the limits of its analyzers, settles with a
\* verdict and only on one its own ruleset allows.
THEOREM StreamsCorrect == Spec => []StreamsConsistent
  <1>1. IInv => StreamsConsistent
    BY DEF IInv, StreamsGood, Good, Inspecting, StreamsConsistent, LimitHonoured,
           SettledHasVerdict, FinalIsSettled, OwnRuleset
  <1> QED
    BY <1>1, Invariance, PTL

\* The first packet of every stream is answered by a ruleset.
LEMMA FirstPacketCorrect == Spec => FirstPacketMatched
  <1>1. ASSUME IInv, [Next]_vars
        PROVE  [(PacketStep /\ ~Hit(out'.flow)) => out'.cause \in Actions]_vars
    <2>1. ASSUME NEW flow \in Flows, Packet(flow), ~Hit(out'.flow)
          PROVE  out'.cause \in Actions
      BY <1>1, <2>1, PacketCases DEF Leaves
    <2>2. ASSUME NEW r \in Rulesets, UpdateRuleset(r), PacketStep
          PROVE  UNCHANGED vars
      BY <2>2 DEF UpdateRuleset, PacketStep, vars
    <2> QED
      BY <1>1, <2>1, <2>2 DEF Next
  <1> QED
    BY <1>1, Invariance, PTL DEF Spec, FirstPacketMatched

\* A stream accepted or blocked for good stays as it is and answers its flow with
\* that verdict: a final verdict settles it, and a settled stream only replays.
LEMMA SettledCorrect == Spec => SettledForGood
  <1> DEFINE Kept(id) ==
        (PacketStep /\ streams[id].last \in FinalVerdicts) =>
            /\ streams'[id] # NoStream /\ streams'[id].flow = streams[id].flow
                   => streams'[id] = streams[id]
            /\ out'.flow = streams[id].flow => out'.verdict = streams[id].last
  <1>1. ASSUME IInv, [Next]_vars
        PROVE  [\A id \in Cached : Kept(id)]_vars
    <2>1. ASSUME NEW flow \in Flows, Packet(flow), NEW id \in Cached,
                 streams[id].last \in FinalVerdicts
          PROVE  /\ streams'[id] # NoStream /\ streams'[id].flow = streams[id].flow
                        => streams'[id] = streams[id]
                 /\ out'.flow = streams[id].flow => out'.verdict = streams[id].last
      <3>1. PICK s : Store(IDOf[flow], s) /\ s.flow = flow /\ out'.flow = flow
        BY <1>1, <2>1, PacketCases DEF Leaves
      <3>2. id \in StreamIDs /\ streams[id] # NoStream /\ IDOf[streams[id].flow] = id
        BY <1>1 DEF Cached, IInv, TableConsistent
      <3>3. Settled(streams[id])
        BY <1>1, <2>1 DEF IInv, StreamsGood, Good
      <3>4. CASE flow = streams[id].flow
        <4>1. Hit(flow) /\ StreamFor(flow) = streams[id] /\ IDOf[flow] = id
          BY <3>2, <3>4 DEF Hit, StreamFor
        <4>2. Replay(flow)
          BY <1>1, <2>1, <3>3, <4>1, PacketCases DEF Settled
        <4>3. streams'[id] = streams[id]
          BY <3>2, <4>1, <4>2 DEF Replay, Store
        <4>4. out'.verdict = streams[id].last
          BY <4>1, <4>2 DEF Replay
        <4> QED
          BY <4>3, <4>4
      <3>5. CASE flow # streams[id].flow
        <4>1. \/ streams'[id].flow = flow
              \/ streams'[id] \in {streams[id], NoStream}
          BY <3>1, <3>2 DEF Store
        <4> QED
          BY <3>1, <3>5, <4>1
      <3> QED
        BY <3>4, <3>5
    <2>2. ASSUME NEW r \in Rulesets, UpdateRuleset(r), PacketStep
          PROVE  UNCHANGED vars
      BY <2>2 DEF UpdateRuleset, PacketStep, vars
    <2> QED
      BY <1>1, <2>1, <2>2 DEF Next
  <1> QED
    BY <1>1, Invariance, PTL DEF Spec, SettledForGood

\* A stream's first packet is matched, and its final verdict is the last one.
THEOREM VerdictsCorrect == Spec => VerdictsFollow
  BY FirstPacketCorrect, SettledCorrect DEF VerdictsFollow

=============================================================================
