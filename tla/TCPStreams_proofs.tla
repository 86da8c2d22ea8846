-------------------------- MODULE TCPStreams_proofs --------------------------
(***************************************************************************)
(* Proofs about TCPStreams, for any analyzers, limits, rulesets and page   *)
(* limit.                                                                  *)
(***************************************************************************)
EXTENDS TCPStreams, SequenceTheorems, TLAPS

(***************************************************************************)
(* What holds of the stream between two events.  Inspecting also holds in  *)
(* the middle of ReassembledSG.                                            *)
(***************************************************************************)
Inspecting(s) ==
    /\ s \in Stream
    /\ \A a \in Analyzers :
          /\ s.analyzer[a] # "misused"
          /\ a \in s.active <=> s.analyzer[a] = "open"
          /\ s.analyzer[a] # "absent" <=> a \in RsAnalyzers[s.rs]
          /\ HasLimit(a) => /\ s.quota[a] \in 0..Limit[a]
                            /\ a \in s.active => s.quota[a] > 0
    /\ s.last = "DropStream" => RsActions[s.rs] \cap {"Block", "Drop"} # {}

Good(s) ==
    /\ Inspecting(s)
    /\ Settled(s) <=> s.last \in FinalVerdicts

\* The verdicts a context can hold while its stream is in state s.
Contexts(s) == IF Settled(s) THEN TCPVerdicts ELSE {"Accept"}

LEMMA NewStreamGood ==
    ASSUME ruleset \in Rulesets
    PROVE  Good(NewStream) /\ Accepts(NewStream)
  BY AnalyzerAssumption, RulesetAssumption
  DEF Good, Inspecting, NewStream, Stream, Accepts, Settled, HasLimit,
      TCPVerdicts, FinalVerdicts, AnalyzerStates

LEMMA CloseKeeps ==
    ASSUME NEW s, Inspecting(s)
    PROVE  /\ Inspecting(CloseActiveEntries(s))
           /\ CloseActiveEntries(s).active = {}
           /\ CloseActiveEntries(s).virgin = s.virgin
           /\ CloseActiveEntries(s).last = s.last
  BY DEF CloseActiveEntries, Inspecting, Stream, AfterClose, AnalyzerStates

\* Feeding the entries keeps their contract and never overdraws a quota.
LEMMA FeedKeeps ==
    ASSUME NEW s, Inspecting(s), NEW len \in 0..MaxData, NEW dones \in SUBSET s.active
    PROVE  /\ Inspecting(FeedEntries(s, len, dones))
           /\ FeedEntries(s, len, dones).last = s.last
           /\ FeedEntries(s, len, dones).rs = s.rs
           /\ FeedEntries(s, len, dones).active \subseteq s.active
  <1> DEFINE t == FeedEntries(s, len, dones)
  <1>a. s \in Stream
    BY DEF Inspecting
  <1>b. FedQuota(s, len) \in [Analyzers -> Int]
    BY <1>a, AnalyzerAssumption DEF FedQuota, Taken, Stream
  <1>c. FedAnalyzer(s, len, dones) \in [Analyzers -> AnalyzerStates]
    BY <1>a DEF FedAnalyzer, Stream, AfterFeed, AfterClose, AnalyzerStates
  <1>1. t \in Stream
    BY <1>a, <1>b, <1>c DEF FeedEntries, Stream
  <1>2. ASSUME NEW a \in Analyzers
        PROVE  /\ t.analyzer[a] # "misused"
               /\ a \in t.active <=> t.analyzer[a] = "open"
               /\ t.analyzer[a] # "absent" <=> a \in RsAnalyzers[t.rs]
    BY AnalyzerAssumption
    DEF Inspecting, FeedEntries, Stream, FedAnalyzer, Exhausted,
        AfterFeed, AfterClose, AnalyzerStates
  <1>3. ASSUME NEW a \in Analyzers, HasLimit(a)
        PROVE  t.quota[a] \in 0..Limit[a] /\ (a \in t.active => t.quota[a] > 0)
    BY <1>3, AnalyzerAssumption
    DEF Inspecting, FeedEntries, Stream, FedQuota, Taken, Exhausted, HasLimit
  <1>4. t.last = s.last /\ t.rs = s.rs /\ t.active \subseteq s.active
    BY DEF Inspecting, FeedEntries, Stream
  <1>5. t.last = "DropStream" => RsActions[t.rs] \cap {"Block", "Drop"} # {}
    BY <1>4 DEF Inspecting
  <1> QED
    BY <1>1, <1>2, <1>3, <1>4, <1>5 DEF Inspecting

\* One delivery leaves a good stream, and a context that agrees with it: it has
\* a verdict exactly when a fresh one met a settled stream, and then the
\* stream's own.
LEMMA ReassembledGood ==
    ASSUME NEW s, Good(s), NEW verdict \in Contexts(s), NEW report \in Reports(s)
    PROVE  /\ Good(ReassembledSG(s, verdict, report).stream)
           /\ ReassembledSG(s, verdict, report).verdict \in
                 Contexts(ReassembledSG(s, verdict, report).stream)
           /\ Settled(s) => Settled(ReassembledSG(s, verdict, report).stream)
           /\ verdict = "Accept" /\ Settled(ReassembledSG(s, verdict, report).stream) =>
                 ReassembledSG(s, verdict, report).verdict
                     = ReassembledSG(s, verdict, report).stream.last
           /\ Settled(s) =>
                 ReassembledSG(s, verdict, report).stream
                     \in {s, [s EXCEPT !.last = "AcceptStream"]}
  <1> DEFINE fed     == FeedEntries(s, report.len, report.dones)
             seen    == [fed EXCEPT !.virgin = FALSE]
             matched == report.updated \/ s.virgin
             d       == Decide(seen, verdict, matched, report.action)
             r       == AcceptIfAllDone(d)
  <1>0. ReassembledSG(s, verdict, report) = r
    BY DEF ReassembledSG
  <1>1. /\ report.len \in 0..MaxData /\ report.dones \in SUBSET s.active
        /\ report.updated \in BOOLEAN /\ (s.active = {} => ~report.updated)
        /\ report.action \in RsActions[s.rs] \cup {"Maybe"}
    BY DEF Reports
  <1>2. s \in Stream
    BY DEF Good, Inspecting
  <1>3. /\ Inspecting(fed) /\ fed.last = s.last /\ fed.rs = s.rs
        /\ fed.active \subseteq s.active
    BY <1>1, FeedKeeps DEF Good
  <1>4. /\ Inspecting(seen) /\ seen.last = s.last /\ seen.rs = s.rs
        /\ seen.active \subseteq s.active /\ seen.virgin = FALSE
    <2> HIDE DEF fed
    <2> QED
      BY <1>3 DEF Inspecting, Stream
  <1>5. Settled(s) => seen = s
    <2>1. ASSUME Settled(s)
          PROVE  seen = s
      <3>1. s.active = {} /\ s.virgin = FALSE
        BY <1>2, <2>1 DEF Settled, Accepts, Stream
      <3>2. FedQuota(s, report.len) = s.quota
                /\ FedAnalyzer(s, report.len, report.dones) = s.analyzer
        BY <1>2, <3>1 DEF FedQuota, FedAnalyzer, Stream
      <3> QED
        BY <1>2, <3>1, <3>2 DEF FeedEntries, Stream
    <2> QED
      BY <2>1
  <1> HIDE DEF seen
  <1>6. CASE matched /\ Decisive(report.action)
    <2> DEFINE e == [seen EXCEPT !.last = ActionVerdict(report.action)]
    <2>1. /\ Inspecting(e) /\ e.last = ActionVerdict(report.action)
          /\ e.virgin = FALSE /\ e.last \in FinalVerdicts
      BY <1>1, <1>4, <1>6 DEF Inspecting, Stream, ActionVerdict, Decisive,
                              TCPVerdicts, FinalVerdicts
    <2>2. ~Settled(s)
      BY <1>1, <1>6 DEF Settled, Accepts
    <2>3. r.stream = CloseActiveEntries(e) /\ r.verdict = e.last
      BY <1>6, <2>1 DEF Decide, AcceptIfAllDone, FinalVerdicts
    <2> HIDE DEF e, r
    <2>4. /\ Inspecting(r.stream) /\ r.stream.active = {} /\ r.stream.virgin = FALSE
          /\ r.stream.last = e.last
      BY <2>1, <2>3, CloseKeeps
    <2>5. Settled(r.stream) /\ Good(r.stream)
      BY <2>1, <2>4 DEF Good, Settled, Accepts
    <2>6. r.verdict \in TCPVerdicts
      BY <2>1, <2>3 DEF FinalVerdicts, TCPVerdicts
    <2> QED
      BY <1>0, <2>2, <2>3, <2>4, <2>5, <2>6 DEF Contexts
  <1>7. CASE ~(matched /\ Decisive(report.action))
    <2>1. d.stream = seen /\ d.verdict = verdict
      BY <1>7 DEF Decide
    <2>2. verdict \in TCPVerdicts
      BY DEF Contexts, TCPVerdicts
    <2>3. CASE seen.active = {} /\ verdict = "Accept"
      <3>1. r.stream = [seen EXCEPT !.last = "AcceptStream"] /\ r.verdict = "AcceptStream"
        BY <2>1, <2>3 DEF AcceptIfAllDone
      <3> HIDE DEF r
      <3>2. /\ Inspecting(r.stream) /\ r.stream.active = {} /\ r.stream.virgin = FALSE
            /\ r.stream.last = "AcceptStream"
        BY <1>4, <2>3, <3>1 DEF Inspecting, Stream, TCPVerdicts
      <3>3. Settled(r.stream) /\ Good(r.stream)
        BY <3>2 DEF Good, Settled, Accepts, FinalVerdicts
      <3> QED
        BY <1>0, <1>5, <3>1, <3>2, <3>3 DEF Contexts, TCPVerdicts
    <2>4. CASE ~(seen.active = {} /\ verdict = "Accept")
      <3>1. r.stream = seen /\ r.verdict = verdict
        BY <2>1, <2>4 DEF AcceptIfAllDone
      <3> HIDE DEF r
      <3>2. CASE Settled(s)
        BY <1>0, <1>5, <2>4, <3>1, <3>2 DEF Settled, Accepts
      <3>3. CASE ~Settled(s)
        <4>1. verdict = "Accept" /\ seen.active # {} /\ seen.last \notin FinalVerdicts
          BY <1>4, <2>4, <3>3 DEF Contexts, Good
        <4>2. ~Settled(seen) /\ Good(seen)
          BY <1>4, <4>1 DEF Settled, Accepts, Good
        <4> QED
          BY <1>0, <3>1, <3>3, <4>1, <4>2 DEF Contexts
      <3> QED
        BY <3>2, <3>3
    <2> QED
      BY <2>3, <2>4
  <1> QED
    BY <1>6, <1>7

-----------------------------------------------------------------------------
(* Pages as sequences of contexts. *)

LEMMA DropFirst ==
    ASSUME NEW S, NEW q \in Seq(S), NEW n \in 0..Len(q)
    PROVE  /\ SubSeq(q, n + 1, Len(q)) \in Seq(S)
           /\ Len(SubSeq(q, n + 1, Len(q))) = Len(q) - n
  OBVIOUS

LEMMA InsertKeeps ==
    ASSUME NEW S, NEW q \in Seq(S), NEW x \in S, NEW at \in 1..Len(q) + 1
    PROVE  /\ InsertAt(q, at, x) \in Seq(S)
           /\ Len(InsertAt(q, at, x)) = Len(q) + 1
  <1> DEFINE before == SubSeq(q, 1, at - 1)
             after  == SubSeq(q, at, Len(q))
             first  == before \o <<x>>
  <1>1. before \in Seq(S) /\ Len(before) = at - 1
    OBVIOUS
  <1>2. after \in Seq(S) /\ Len(after) = Len(q) - at + 1
    OBVIOUS
  <1>3. InsertAt(q, at, x) = first \o after
    BY DEF InsertAt
  <1> HIDE DEF before, after
  <1>4. first \in Seq(S) /\ Len(first) = at
    <2>1. <<x>> \in Seq(S) /\ Len(<<x>>) = 1
      OBVIOUS
    <2> QED
      BY <1>1, <2>1, ConcatProperties
  <1> HIDE DEF first
  <1>5. first \o after \in Seq(S) /\ Len(first \o after) = Len(first) + Len(after)
    BY <1>2, <1>4, ConcatProperties
  <1>6. Len(first) + Len(after) = Len(q) + 1
    BY <1>2, <1>4
  <1> QED
    BY <1>3, <1>5, <1>6

LEMMA WiderSeq ==
    ASSUME NEW S, NEW T, S \subseteq T, NEW q \in Seq(S)
    PROVE  q \in Seq(T)
  OBVIOUS

\* Contexts only gain verdicts, because a stream that settled stays settled.
LEMMA ContextsGrow ==
    ASSUME NEW s, NEW t, Settled(s) => Settled(t), NEW q \in Seq(Contexts(s))
    PROVE  q \in Seq(Contexts(t))
  <1>1. Contexts(s) \subseteq Contexts(t)
    BY DEF Contexts, TCPVerdicts
  <1> QED
    BY <1>1, WiderSeq

-----------------------------------------------------------------------------
(* The inductive invariant. *)

PagesFit(s) == \A dir \in Dirs : pages[dir] \in Seq(Contexts(s))

IInv ==
    /\ TypeOK
    /\ PagesBounded
    /\ RemovedIsClosed
    /\ InPool => Good(stream) /\ PagesFit(stream)

\* What a packet or a flush starts from.
LEMMA CurrentGood ==
    ASSUME IInv
    PROVE  Good(Current) /\ PagesFit(Current)
  <1>1. CASE InPool
    BY <1>1 DEF IInv, InPool, Current
  <1>2. CASE ~InPool
    <2>1. Good(NewStream)
      BY NewStreamGood DEF IInv, TypeOK
    <2>2. \A dir \in Dirs : pages[dir] = <<>>
      BY <1>2 DEF IInv, PagesBounded
    <2>3. <<>> \in Seq(Contexts(NewStream))
      OBVIOUS
    <2>4. Current = NewStream
      BY <1>2 DEF InPool, Current
    <2> QED
      BY <2>1, <2>2, <2>3, <2>4 DEF PagesFit
  <1> QED
    BY <1>1, <1>2

\* Leaving the pool leaves nothing behind.
LEMMA CompleteKeeps ==
    ASSUME IInv, NEW s, Inspecting(s), NEW event \in {"packet", "flush", "close"},
           NEW verdict \in TCPVerdicts, Complete(s, event, verdict), UNCHANGED ruleset
    PROVE  IInv'
  <1>1. {a \in Analyzers : CloseActiveEntries(s).analyzer[a] = "open"} = {}
    <2>1. Inspecting(CloseActiveEntries(s)) /\ CloseActiveEntries(s).active = {}
      BY CloseKeeps
    <2> QED
      BY <2>1 DEF Inspecting
  <1>2. out' \in Outcome /\ out'.leftOpen = {}
    BY <1>1 DEF Complete, Outcome
  <1>3. TypeOK'
    BY <1>2 DEF Complete, TypeOK, IInv, Dirs
  <1>4. PagesBounded' /\ ~InPool'
    BY PagesAssumption DEF Complete, PagesBounded, InPool, Dirs
  <1> QED
    BY <1>2, <1>3, <1>4 DEF IInv, RemovedIsClosed

\* What a packet that delivers nothing leaves behind.
LEMMA AnswerKeeps ==
    ASSUME IInv, NEW s, Good(s), NEW verdict \in TCPVerdicts, Answer(s, verdict),
           UNCHANGED <<ruleset, closed>>,
           pages' \in [Dirs -> Seq(Contexts(s))],
           \A dir \in Dirs : Len(pages'[dir]) < MaxPages,
           \A dir \in closed : pages'[dir] = <<>>
    PROVE  IInv'
  <1>1. s \in Stream /\ s # NoStream
    BY NoStreamAssumption DEF Good, Inspecting
  <1>2. out' \in Outcome /\ out'.leftOpen = {}
    BY DEF Answer, Outgoing, Outcome
  <1>3. Contexts(s) \subseteq TCPVerdicts
    BY DEF Contexts, TCPVerdicts
  <1>4. pages' \in [Dirs -> Seq(TCPVerdicts)]
    <2>1. \A dir \in Dirs : pages'[dir] \in Seq(TCPVerdicts)
      BY <1>3, WiderSeq
    <2> QED
      BY <2>1
  <1>5. TypeOK'
    BY <1>1, <1>2, <1>4 DEF IInv, TypeOK, Answer
  <1>6. PagesBounded'
    BY <1>1 DEF IInv, PagesBounded, Answer, InPool
  <1>7. Good(stream') /\ \A dir \in Dirs : pages'[dir] \in Seq(Contexts(stream'))
    BY DEF Answer
  <1>8. (InPool => Good(stream) /\ PagesFit(stream))'
    BY <1>7 DEF PagesFit, InPool, Good, Inspecting, Settled, Accepts, Contexts
  <1> QED
    BY <1>2, <1>5, <1>6, <1>8 DEF IInv, RemovedIsClosed

\* What a delivery leaves behind.
LEMMA DeliveredKeeps ==
    ASSUME IInv, NEW dir \in Dirs, Open(dir), NEW d, Good(d.stream),
           d.verdict \in TCPVerdicts, PagesFit(d.stream),
           NEW rest \in Seq(Contexts(d.stream)), Len(rest) < MaxPages,
           NEW end \in BOOLEAN, NEW event \in {"packet", "flush"},
           Delivered(dir, d, rest, end, event), UNCHANGED ruleset
    PROVE  IInv'
  <1>1. CASE Complete(d.stream, event, d.verdict)
    BY <1>1, CompleteKeeps DEF Good
  <1>2. CASE /\ ~end \/ closed \cup {dir} # Dirs
             /\ stream' = d.stream
             /\ pages' = [pages EXCEPT ![dir] = IF end THEN <<>> ELSE rest]
             /\ closed' = IF end THEN closed \cup {dir} ELSE closed
             /\ Outgoing(event, d.verdict)
             /\ told' = IF event = "packet" THEN told \cup {d.verdict} ELSE told
    <2>1. d.stream \in Stream /\ d.stream # NoStream
      BY NoStreamAssumption DEF Good, Inspecting
    <2>2. out' \in Outcome /\ out'.leftOpen = {}
      BY <1>2 DEF Outgoing, Outcome
    <2>3. pages \in [Dirs -> Seq(TCPVerdicts)]
      BY DEF IInv, TypeOK
    <2>4. \A e \in Dirs : pages'[e] = IF e = dir THEN IF end THEN <<>> ELSE rest
                                      ELSE pages[e]
      BY <1>2, <2>3
    <2>5. \A e \in Dirs : pages'[e] \in Seq(Contexts(d.stream))
      <3>1. <<>> \in Seq(Contexts(d.stream))
        OBVIOUS
      <3> QED
        BY <2>4, <3>1 DEF PagesFit
    <2>6. pages' \in [Dirs -> Seq(TCPVerdicts)]
      <3>1. Contexts(d.stream) \subseteq TCPVerdicts
        BY DEF Contexts, TCPVerdicts
      <3>2. \A e \in Dirs : pages'[e] \in Seq(TCPVerdicts)
        BY <2>5, <3>1, WiderSeq
      <3>3. DOMAIN pages' = Dirs /\ pages' = [e \in Dirs |-> pages'[e]]
        BY <1>2, <2>3
      <3> QED
        BY <3>2, <3>3
    <2>7. TypeOK'
      BY <1>2, <2>1, <2>2, <2>6 DEF IInv, TypeOK
    <2>8. PagesBounded'
      <3>1. \A e \in Dirs : Len(pages'[e]) < MaxPages
        BY <2>4, PagesAssumption DEF IInv, PagesBounded
      <3>2. \A e \in closed' : pages'[e] = <<>>
        BY <1>2, <2>4 DEF IInv, PagesBounded, Open, TypeOK
      <3>3. closed' # Dirs
        BY <1>2 DEF IInv, PagesBounded
      <3> QED
        BY <1>2, <2>1, <3>1, <3>2, <3>3 DEF PagesBounded, InPool
    <2>9. (InPool => Good(stream) /\ PagesFit(stream))'
      BY <1>2, <2>5 DEF PagesFit, InPool, Good, Inspecting, Settled, Accepts, Contexts
    <2> QED
      BY <2>2, <2>7, <2>8, <2>9 DEF IInv, RemovedIsClosed
  <1> QED
    BY <1>1, <1>2 DEF Delivered

-----------------------------------------------------------------------------
(* The actions. *)

LEMMA ReplayKeeps ==
    ASSUME IInv, NEW dir \in Dirs, Replay(dir) \/ Nothing(dir)
    PROVE  IInv'
  <1>1. Good(Current) /\ PagesFit(Current)
    BY CurrentGood
  <1>2. PICK verdict \in TCPVerdicts : Answer(Current, verdict)
    BY <1>1 DEF Replay, Nothing, Good, Inspecting, Stream, TCPVerdicts
  <1>3. UNCHANGED <<ruleset, closed, pages>>
    BY DEF Replay, Nothing
  <1>4. pages' \in [Dirs -> Seq(Contexts(Current))]
    BY <1>1, <1>3 DEF PagesFit, IInv, TypeOK
  <1>5. /\ \A e \in Dirs : Len(pages'[e]) < MaxPages
        /\ \A e \in closed : pages'[e] = <<>>
    BY <1>3 DEF IInv, PagesBounded
  <1> QED
    BY <1>1, <1>2, <1>3, <1>4, <1>5, AnswerKeeps

LEMMA QueueKeeps ==
    ASSUME IInv, NEW dir \in Dirs, Queue(dir)
    PROVE  IInv'
  <1>1. Good(Current) /\ PagesFit(Current)
    BY CurrentGood
  <1>2. PICK at \in 1..Len(pages[dir]) + 1 :
           pages' = [pages EXCEPT ![dir] = InsertAt(@, at, "Accept")]
    BY DEF Queue
  <1>3. "Accept" \in Contexts(Current) /\ "Accept" \in TCPVerdicts
    BY DEF Contexts, TCPVerdicts
  <1>4. pages[dir] \in Seq(Contexts(Current))
    BY <1>1 DEF PagesFit
  <1>5. /\ InsertAt(pages[dir], at, "Accept") \in Seq(Contexts(Current))
        /\ Len(InsertAt(pages[dir], at, "Accept")) = Len(pages[dir]) + 1
    BY <1>3, <1>4, InsertKeeps
  <1>6. \A e \in Dirs : pages'[e] = IF e = dir THEN InsertAt(pages[dir], at, "Accept")
                                    ELSE pages[e]
    BY <1>2 DEF IInv, TypeOK
  <1>7. pages' \in [Dirs -> Seq(Contexts(Current))]
    <2>1. \A e \in Dirs : pages'[e] \in Seq(Contexts(Current))
      BY <1>1, <1>5, <1>6 DEF PagesFit
    <2>2. pages' = [e \in Dirs |-> pages'[e]]
      BY <1>2 DEF IInv, TypeOK
    <2> QED
      BY <2>1, <2>2
  <1>8. /\ \A e \in Dirs : Len(pages'[e]) < MaxPages
        /\ \A e \in closed : pages'[e] = <<>>
    BY <1>5, <1>6 DEF Queue, Open, IInv, PagesBounded, TypeOK
  <1> QED
    BY <1>1, <1>3, <1>7, <1>8, AnswerKeeps DEF Queue

\* What the pages still hold fits the stream a delivery leaves.
LEMMA DeliveryFits ==
    ASSUME IInv, NEW s, Good(s), PagesFit(s),
           NEW verdict \in Contexts(s), NEW report \in Reports(s)
    PROVE  LET d == ReassembledSG(s, verdict, report)
           IN /\ Good(d.stream) /\ PagesFit(d.stream)
              /\ d.verdict \in Contexts(d.stream) /\ d.verdict \in TCPVerdicts
  <1> DEFINE d == ReassembledSG(s, verdict, report)
  <1>1. /\ Good(d.stream) /\ d.verdict \in Contexts(d.stream)
        /\ Settled(s) => Settled(d.stream)
    BY ReassembledGood
  <1> HIDE DEF d
  <1>2. PagesFit(d.stream)
    BY <1>1, ContextsGrow DEF PagesFit
  <1>3. d.verdict \in TCPVerdicts
    BY <1>1 DEF Contexts, TCPVerdicts
  <1> QED
    BY <1>1, <1>2, <1>3 DEF d

LEMMA InOrderKeeps ==
    ASSUME IInv, NEW dir \in Dirs, InOrder(dir)
    PROVE  IInv'
  <1>1. Good(Current) /\ PagesFit(Current) /\ "Accept" \in Contexts(Current)
    BY CurrentGood DEF Contexts, TCPVerdicts
  <1>2. PICK n \in 0..Len(pages[dir]), end \in BOOLEAN, report \in Reports(Current) :
           Delivered(dir, ReassembledSG(Current, "Accept", report),
                     SubSeq(pages[dir], n + 1, Len(pages[dir])), end, "packet")
    BY DEF InOrder
  <1> DEFINE d    == ReassembledSG(Current, "Accept", report)
             rest == SubSeq(pages[dir], n + 1, Len(pages[dir]))
  <1>3. /\ Good(d.stream) /\ PagesFit(d.stream)
        /\ d.verdict \in Contexts(d.stream) /\ d.verdict \in TCPVerdicts
    BY <1>1, DeliveryFits
  <1> HIDE DEF d
  <1>4. rest \in Seq(Contexts(d.stream)) /\ Len(rest) = Len(pages[dir]) - n
    BY <1>3, DropFirst DEF PagesFit
  <1>5. Len(pages[dir]) \in Nat /\ Len(pages[dir]) < MaxPages
    BY DEF IInv, TypeOK, PagesBounded
  <1> HIDE DEF rest
  <1>6. Len(rest) < MaxPages
    BY <1>4, <1>5, PagesAssumption
  <1>7. Delivered(dir, d, rest, end, "packet") /\ Open(dir) /\ UNCHANGED ruleset
    BY <1>2 DEF InOrder, d, rest
  <1> QED
    BY <1>3, <1>4, <1>6, <1>7, DeliveredKeeps

LEMMA OverflowKeeps ==
    ASSUME IInv, NEW dir \in Dirs, NEW crowded \in BOOLEAN, Overflow(dir, crowded)
    PROVE  IInv'
  <1>1. Good(Current) /\ PagesFit(Current) /\ "Accept" \in Contexts(Current)
    BY CurrentGood DEF Contexts, TCPVerdicts
  <1>2. PICK at \in 1..Len(pages[dir]) + 1, n \in 1..Len(pages[dir]) + 1,
             end \in BOOLEAN, report \in Reports(Current) :
           LET d    == ReassembledSG(Current, "Accept", report)
               kept == InsertAt(pages[dir], at, d.verdict)
           IN Delivered(dir, d, SubSeq(kept, n + 1, Len(kept)), end, "packet")
    BY DEF Overflow
  <1> DEFINE d    == ReassembledSG(Current, "Accept", report)
             kept == InsertAt(pages[dir], at, d.verdict)
             rest == SubSeq(kept, n + 1, Len(kept))
  <1>3. /\ Good(d.stream) /\ PagesFit(d.stream)
        /\ d.verdict \in Contexts(d.stream) /\ d.verdict \in TCPVerdicts
    BY <1>1, DeliveryFits
  <1>4. Delivered(dir, d, rest, end, "packet") /\ Open(dir) /\ UNCHANGED ruleset
    BY <1>2 DEF Overflow
  <1> HIDE DEF d
  <1>5. kept \in Seq(Contexts(d.stream)) /\ Len(kept) = Len(pages[dir]) + 1
    BY <1>3, InsertKeeps DEF PagesFit
  <1>6. Len(pages[dir]) \in Nat /\ Len(pages[dir]) < MaxPages
    BY DEF IInv, TypeOK, PagesBounded
  <1> HIDE DEF kept
  <1>7. rest \in Seq(Contexts(d.stream)) /\ Len(rest) = Len(kept) - n
    BY <1>5, <1>6, DropFirst
  <1> HIDE DEF rest
  <1>8. Len(rest) < MaxPages
    BY <1>5, <1>6, <1>7, PagesAssumption
  <1> QED
    BY <1>3, <1>4, <1>7, <1>8, DeliveredKeeps

LEMMA FlushPagesKeeps ==
    ASSUME IInv, NEW dir \in Dirs, FlushPages(dir)
    PROVE  IInv'
  <1>1. Good(stream) /\ PagesFit(stream)
    BY DEF IInv, InPool, FlushPages
  <1>2. PICK n \in 1..Len(pages[dir]), end \in BOOLEAN, report \in Reports(stream) :
           Delivered(dir, ReassembledSG(stream, Head(pages[dir]), report),
                     SubSeq(pages[dir], n + 1, Len(pages[dir])), end, "flush")
    BY DEF FlushPages
  <1>3. pages[dir] \in Seq(Contexts(stream)) /\ pages[dir] # <<>>
    BY <1>1 DEF PagesFit
  <1>4. Head(pages[dir]) \in Contexts(stream)
    BY <1>3
  <1> DEFINE d    == ReassembledSG(stream, Head(pages[dir]), report)
             rest == SubSeq(pages[dir], n + 1, Len(pages[dir]))
  <1>5. /\ Good(d.stream) /\ PagesFit(d.stream)
        /\ d.verdict \in Contexts(d.stream) /\ d.verdict \in TCPVerdicts
    BY <1>1, <1>4, DeliveryFits
  <1> HIDE DEF d
  <1>6. rest \in Seq(Contexts(d.stream)) /\ Len(rest) = Len(pages[dir]) - n
    BY <1>5, DropFirst DEF PagesFit
  <1>7. Len(pages[dir]) \in Nat /\ Len(pages[dir]) < MaxPages
    BY DEF IInv, TypeOK, PagesBounded
  <1> HIDE DEF rest
  <1>8. Len(rest) < MaxPages
    BY <1>6, <1>7, PagesAssumption
  <1>9. Delivered(dir, d, rest, end, "flush") /\ Open(dir) /\ UNCHANGED ruleset
    BY <1>2 DEF FlushPages, d, rest
  <1> QED
    BY <1>5, <1>6, <1>8, <1>9, DeliveredKeeps

LEMMA FlushIdleKeeps ==
    ASSUME IInv, FlushIdle
    PROVE  IInv'
  <1>1. Inspecting(stream) /\ "Accept" \in TCPVerdicts
    BY DEF IInv, InPool, FlushIdle, Good, TCPVerdicts
  <1> QED
    BY <1>1, CompleteKeeps DEF FlushIdle

-----------------------------------------------------------------------------
(* The theorems. *)

LEMMA Initially == Init => IInv
  <1> SUFFICES ASSUME Init PROVE IInv
    OBVIOUS
  <1>1. /\ pages = [dir \in Dirs |-> <<>>] /\ closed = {} /\ ~InPool /\ told = {}
        /\ out = [event |-> "none", verdict |-> "Accept", leftOpen |-> {}]
    BY DEF Init, InPool
  <1>2. out \in Outcome /\ RemovedIsClosed
    BY <1>1 DEF Outcome, TCPVerdicts, RemovedIsClosed
  <1>3. TypeOK
    BY <1>1, <1>2 DEF Init, TypeOK
  <1>4. PagesBounded
    BY <1>1, PagesAssumption DEF PagesBounded, Dirs
  <1> QED
    BY <1>1, <1>2, <1>3, <1>4 DEF IInv

LEMMA Preserved ==
    ASSUME IInv, [Next]_vars
    PROVE  IInv'
  <1>1. ASSUME NEW dir \in Dirs, Packet(dir)
        PROVE  IInv'
    BY <1>1, ReplayKeeps, QueueKeeps, InOrderKeeps, OverflowKeeps DEF Packet
  <1>2. ASSUME NEW dir \in Dirs, FlushPages(dir)
        PROVE  IInv'
    BY <1>2, FlushPagesKeeps
  <1>3. CASE FlushIdle
    BY <1>3, FlushIdleKeeps
  <1>4. ASSUME NEW r \in Rulesets, UpdateRuleset(r)
        PROVE  IInv'
    <2>1. UNCHANGED <<stream, pages, closed, out, told>> /\ ruleset' \in Rulesets
      BY <1>4 DEF UpdateRuleset
    <2>2. TypeOK' /\ PagesBounded' /\ RemovedIsClosed'
      BY <2>1 DEF IInv, TypeOK, PagesBounded, InPool, RemovedIsClosed
    <2>3. (InPool => Good(stream) /\ PagesFit(stream))'
      BY <2>1 DEF IInv, InPool, PagesFit, Good, Inspecting, Settled, Accepts, Contexts
    <2> QED
      BY <2>2, <2>3 DEF IInv
  <1>5. CASE UNCHANGED vars
    <2>1. UNCHANGED <<ruleset, stream, pages, closed, out, told>>
      BY <1>5 DEF vars
    <2>2. TypeOK' /\ PagesBounded' /\ RemovedIsClosed'
      BY <2>1 DEF IInv, TypeOK, PagesBounded, InPool, RemovedIsClosed
    <2>3. (InPool => Good(stream) /\ PagesFit(stream))'
      BY <2>1 DEF IInv, InPool, PagesFit, Good, Inspecting, Settled, Accepts, Contexts
    <2> QED
      BY <2>2, <2>3 DEF IInv
  <1> QED
    BY <1>1, <1>2, <1>3, <1>4, <1>5 DEF Next

THEOREM Invariance == Spec => []IInv
  BY Initially, Preserved, PTL DEF Spec

\* The stream keeps the contract of its analyzers, and leaves the pool with
\* every one of them told.
THEOREM AnalyzersCorrect == Spec => []AnalyzersTold
  <1>1. IInv => AnalyzersTold
    BY DEF IInv, Good, Inspecting, AnalyzersTold, AnalyzerContract
  <1> QED
    BY <1>1, Invariance, PTL

\* The stream keeps the limits of its analyzers, is settled exactly by a final
\* verdict, and its verdict is one of its own ruleset.
THEOREM StreamCorrect == Spec => []StreamConsistent
  <1>1. IInv => StreamConsistent
    BY DEF IInv, Good, Inspecting, StreamConsistent, LimitHonoured,
           SettledIffFinal, OwnRuleset
  <1> QED
    BY <1>1, Invariance, PTL

\* A buffered page carries a verdict only behind a settled stream.
LEMMA PageContextsCorrect == Spec => []PageContexts
  <1>1. ASSUME IInv, NEW dir \in Dirs, NEW i \in DOMAIN pages[dir],
               pages[dir][i] # "Accept"
        PROVE  InPool /\ Settled(stream)
    <2>1. InPool
      BY <1>1 DEF IInv, PagesBounded
    <2>2. pages[dir] \in Seq(Contexts(stream))
      BY <1>1, <2>1 DEF IInv, PagesFit
    <2>3. pages[dir][i] \in Contexts(stream)
      BY <2>2
    <2> QED
      BY <1>1, <2>1, <2>3 DEF Contexts
  <1>2. IInv => PageContexts
    BY <1>1 DEF PageContexts
  <1> QED
    BY <1>2, Invariance, PTL

\* The buffered pages stay below their limit, belong to open directions of a
\* stream in the pool, and wait with contexts that fit it.
THEOREM PagesCorrect == Spec => []PagesConsistent
  <1>1. IInv => PagesBounded
    BY DEF IInv
  <1> QED
    BY <1>1, Invariance, PageContextsCorrect, PTL DEF PagesConsistent

\* What a packet or a flush does to the stream, in one place: it leaves the
\* stream as it is, works on it for a fresh context, works on it for the
\* context of a page, or removes it.
LEMMA StepCases ==
    ASSUME IInv, NEW dir \in Dirs, Packet(dir) \/ FlushPages(dir)
    PROVE  \/ stream' = NoStream
           \/ /\ stream' = Current /\ out'.event = "packet"
              /\ ~Settled(Current) \/ out'.verdict = Current.last
           \/ /\ ~Settled(Current) /\ out'.event = "packet"
              /\ \E report \in Reports(Current) :
                    LET d == ReassembledSG(Current, "Accept", report)
                    IN stream' = d.stream /\ out'.verdict = d.verdict
           \/ /\ stream = Current /\ out'.event = "flush"
              /\ \E report \in Reports(stream), verdict \in Contexts(stream) :
                    stream' = ReassembledSG(stream, verdict, report).stream
  <1>1. CASE Replay(dir) \/ Nothing(dir) \/ Queue(dir)
    BY <1>1 DEF Replay, Nothing, Queue, Answer, Outgoing, Settled
  <1>2. CASE InOrder(dir)
    BY <1>2 DEF InOrder, Delivered, Complete, Outgoing, Settled
  <1>3. ASSUME NEW crowded \in BOOLEAN, Overflow(dir, crowded)
        PROVE  \/ stream' = NoStream
               \/ /\ ~Settled(Current) /\ out'.event = "packet"
                  /\ \E report \in Reports(Current) :
                        LET d == ReassembledSG(Current, "Accept", report)
                        IN stream' = d.stream /\ out'.verdict = d.verdict
    BY <1>3 DEF Overflow, Delivered, Complete, Outgoing, Settled
  <1>4. CASE FlushPages(dir)
    <2>1. stream # NoStream /\ stream = Current
      BY <1>4 DEF FlushPages, Current
    <2>2. PagesFit(stream)
      BY <2>1 DEF IInv, InPool
    <2>3. PICK n \in 1..Len(pages[dir]), end \in BOOLEAN, report \in Reports(stream) :
             Delivered(dir, ReassembledSG(stream, Head(pages[dir]), report),
                       SubSeq(pages[dir], n + 1, Len(pages[dir])), end, "flush")
      BY <1>4 DEF FlushPages
    <2>4. pages[dir] \in Seq(Contexts(stream)) /\ pages[dir] # <<>>
      BY <2>2 DEF PagesFit
    <2>5. Head(pages[dir]) \in Contexts(stream)
      BY <2>4
    <2> QED
      BY <2>1, <2>3, <2>5 DEF Delivered, Complete, Outgoing
  <1> QED
    BY <1>1, <1>2, <1>3, <1>4 DEF Packet

\* The packet that settles a stream, and every packet after it, carries the
\* stream's verdict to the IO.
THEOREM VerdictsReachIO == Spec => VerdictsReach
  <1>1. ASSUME IInv, [Next]_vars
        PROVE  [(out'.event = "packet" /\ stream' # NoStream /\ Settled(stream')
                 /\ ruleset' = ruleset) => out'.verdict = stream'.last]_vars
    <2>1. ASSUME NEW dir \in Dirs, Packet(dir) \/ FlushPages(dir),
                 out'.event = "packet", stream' # NoStream, Settled(stream')
          PROVE  out'.verdict = stream'.last
      <3>1. Good(Current) /\ "Accept" \in Contexts(Current)
        BY <1>1, CurrentGood DEF Contexts, TCPVerdicts
      <3> QED
        BY <1>1, <2>1, <3>1, StepCases, ReassembledGood
    <2>2. FlushIdle => stream' = NoStream
      BY DEF FlushIdle, Complete
    <2>3. ASSUME NEW r \in Rulesets, UpdateRuleset(r), ruleset' = ruleset
          PROVE  UNCHANGED vars
      BY <2>3 DEF UpdateRuleset, vars
    <2> QED
      BY <1>1, <2>1, <2>2, <2>3 DEF Next
  <1> QED
    BY <1>1, Invariance, PTL DEF Spec, VerdictsReach

\* Only a flush changes a settled stream, and only its verdict, and only into
\* AcceptStream.
THEOREM OverturnedByFlush == Spec => OnlyFlushOverturns
  <1>1. ASSUME IInv, [Next]_vars, InPool, Settled(stream), stream' # stream,
               stream' # NoStream
        PROVE  out'.event = "flush" /\ stream' = [stream EXCEPT !.last = "AcceptStream"]
    <2>1. Current = stream /\ Good(stream)
      BY <1>1 DEF InPool, Current, IInv
    <2>2. ASSUME NEW dir \in Dirs, Packet(dir) \/ FlushPages(dir)
          PROVE  out'.event = "flush" /\ stream' = [stream EXCEPT !.last = "AcceptStream"]
      BY <1>1, <2>1, <2>2, StepCases, ReassembledGood
    <2>3. ~FlushIdle /\ ~(UNCHANGED vars)
      BY <1>1 DEF FlushIdle, Complete, vars
    <2>4. \A r \in Rulesets : ~UpdateRuleset(r)
      BY <1>1 DEF UpdateRuleset
    <2> QED
      BY <1>1, <2>2, <2>3, <2>4 DEF Next
  <1>2. IInv /\ [Next]_vars =>
          [(InPool /\ Settled(stream) /\ stream' \notin {stream, NoStream}) =>
             /\ out'.event = "flush"
             /\ stream' = [stream EXCEPT !.last = "AcceptStream"]]_vars
    BY <1>1
  <1> QED
    BY <1>2, Invariance, PTL DEF Spec, OnlyFlushOverturns

=============================================================================
