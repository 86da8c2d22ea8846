----------------------------- MODULE UDPStreams -----------------------------
(***************************************************************************)
(* The UDP half of one engine worker: the stream factory, the LRU table of *)
(* streams and the stream state machine (engine/udp.go), up to the verdict *)
(* the worker hands to the packet IO (engine/worker.go, handle).           *)
(*                                                                         *)
(* A worker is a single goroutine, so a packet is one atomic step; reloads *)
(* replace the factory's ruleset between two packets.  What an analyzer    *)
(* reports and which action the ruleset answers are inputs of the step,    *)
(* drawn from what the stream's own ruleset can answer.                    *)
(***************************************************************************)
EXTENDS Integers, Sequences, SequencesExt, StreamTypes

CONSTANTS
    Flows,         \* UDP flows, both directions of one pair of endpoints
    StreamIDs,     \* hashes the packet IO attaches to packets
    IDOf,          \* hash of each flow; two flows may share one
    MaxStreams,    \* capacity of the LRU table
    Analyzers,     \* names of the analyzers
    Limit,         \* byte limit of each analyzer, 0 (or less) for none
    Rulesets,      \* versions of the ruleset a reload can install
    RsAnalyzers,   \* the analyzers each version uses
    RsActions,     \* the actions each version's rules can answer
    MaxPayload,    \* longest UDP payload
    NoStream       \* marks an ID without a stream

ASSUME IDAssumption == IDOf \in [Flows -> StreamIDs]

ASSUME TableAssumption == MaxStreams \in Nat \ {0}

ASSUME AnalyzerAssumption ==
    /\ Limit \in [Analyzers -> Int]
    /\ MaxPayload \in Nat

ASSUME RulesetAssumption ==
    /\ RsAnalyzers \in [Rulesets -> SUBSET Analyzers]
    /\ RsActions \in [Rulesets -> SUBSET Actions]

VARIABLES
    ruleset,    \* udpStreamFactory.Ruleset
    streams,    \* the table: stream of each ID, or NoStream
    recency,    \* IDs in the table, least recently used first
    out         \* how the last packet left the worker

vars == <<ruleset, streams, recency, out>>

(***************************************************************************)
(* A stream.  active is the set of names in activeEntries (the entries     *)
(* work independently, so their order does not matter); analyzer is the    *)
(* state of the analyzer streams those entries were created with.          *)
(***************************************************************************)
Stream ==
    [flow     : Flows,
     rs       : Rulesets,
     virgin   : BOOLEAN,
     active   : SUBSET Analyzers,
     quota    : [Analyzers -> Int],
     last     : Verdicts,
     analyzer : [Analyzers -> AnalyzerStates]]

ASSUME NoStreamAssumption == NoStream \notin Stream

\* How a packet left the worker: the action its stream's ruleset answered
\* ("Replay" when the stored verdict was used, "None" when no match was
\* made), the verdict, whether a modified packet went with it, and the
\* analyzer streams a replaced stream left open.
Outcome ==
    [flow : Flows, cause : Actions \cup {"Replay", "None"},
     verdict : Verdicts, payload : BOOLEAN, leftOpen : SUBSET Analyzers]

HasLimit(a) == Limit[a] > 0

-----------------------------------------------------------------------------
(* udpStream *)

\* The stream the factory creates: one entry per UDP analyzer of the ruleset
\* current at this moment, which the stream keeps for its life.
NewStream(flow) ==
    [flow     |-> flow,
     rs       |-> ruleset,
     virgin   |-> TRUE,
     active   |-> RsAnalyzers[ruleset],
     quota    |-> [a \in Analyzers |-> Limit[a]],
     last     |-> "Accept",
     analyzer |-> [a \in Analyzers |->
                      IF a \in RsAnalyzers[ruleset] THEN "open" ELSE "absent"]]

\* Whether the stream wants the packet; if not, the stored verdict is its
\* answer.
Accepts(s) == s.active # {} \/ s.virgin

\* Mutant: the entries are dropped without closing their streams.
ForgetActiveEntries(s) == [s EXCEPT !.active = {}]

\* Signal close to the active entries and retire them.
CloseActiveEntries(s) ==
    [s EXCEPT !.active = {},
              !.analyzer = [a \in Analyzers |->
                               IF a \in s.active THEN AfterClose(@[a]) ELSE @[a]]]

\* The whole payload goes to the entry, whatever its quota; an entry whose
\* quota is used up is closed.
FedQuota(s, len) ==
    [a \in Analyzers |->
        IF a \in s.active /\ HasLimit(a) THEN s.quota[a] - len ELSE s.quota[a]]

Exhausted(s, len) ==
    {a \in s.active : HasLimit(a) /\ FedQuota(s, len)[a] <= 0}

FedAnalyzer(s, len, dones) ==
    [a \in Analyzers |->
        IF a \notin s.active THEN s.analyzer[a]
        ELSE IF a \in Exhausted(s, len)
             THEN AfterClose(AfterFeed(s.analyzer[a], a \in dones))
             ELSE AfterFeed(s.analyzer[a], a \in dones)]

FeedEntries(s, len, dones) ==
    [s EXCEPT !.active = @ \ (dones \cup Exhausted(s, len)),
              !.quota = FedQuota(s, len),
              !.analyzer = FedAnalyzer(s, len, dones)]

ActionVerdict(action) ==
    CASE action = "Maybe"  -> "Accept"
      [] action = "Allow"  -> "AcceptStream"
      [] action = "Block"  -> "DropStream"
      [] action = "Drop"   -> "Drop"
      [] action = "Modify" -> "AcceptModify"

Final(action) == action \in {"Allow", "Block"}

\* An action other than Maybe is stored and, when final, ends the inspection.
ApplyAction(s, action) ==
    IF action = "Maybe" THEN s
    ELSE LET decided == [s EXCEPT !.last = ActionVerdict(action)]
         IN IF Final(action) THEN CloseActiveEntries(decided) ELSE decided

\* Nothing left to feed and no verdict for this packet: accept the stream.
AcceptIfAllDone(s, verdict) ==
    IF s.active = {} /\ verdict = "Accept"
    THEN [s EXCEPT !.last = "AcceptStream"] ELSE s

FeedVerdict(s, verdict) ==
    IF s.active = {} /\ verdict = "Accept" THEN "AcceptStream" ELSE verdict

-----------------------------------------------------------------------------
(* udpStreamManager and worker.handle *)

Init ==
    /\ ruleset \in Rulesets
    /\ streams = [id \in StreamIDs |-> NoStream]
    /\ recency = <<>>
    /\ out \in [flow : Flows, cause : {"None"}, verdict : {"Accept"},
                payload : {FALSE}, leftOpen : {{}}]

Cached == {id \in StreamIDs : streams[id] # NoStream}

\* The stream ID exists and really is this flow's stream.
Hit(flow) ==
    /\ streams[IDOf[flow]] # NoStream
    /\ streams[IDOf[flow]].flow = flow

\* The stream ID exists but belongs to another flow.
Collision(flow) ==
    /\ streams[IDOf[flow]] # NoStream
    /\ streams[IDOf[flow]].flow # flow

\* Mutant: a stream always asks the newest ruleset.
StreamUnderCurrent(flow) ==
    IF Hit(flow) THEN [streams[IDOf[flow]] EXCEPT !.rs = ruleset] ELSE NewStream(flow)

StreamFor(flow) == IF Hit(flow) THEN streams[IDOf[flow]] ELSE NewStream(flow)

\* The analyzer streams a replaced stream still has open after its Close.
LeftOpen(flow) ==
    IF Collision(flow)
    THEN LET old == CloseActiveEntries(streams[IDOf[flow]])
         IN {a \in Analyzers : old.analyzer[a] = "open"}
    ELSE {}

\* lru.Cache: Get and Add make the ID the most recent one; adding to a full
\* table drops the least recent one, without a call to its stream.
Evicted(id) ==
    IF streams[id] = NoStream /\ Len(recency) >= MaxStreams
    THEN {Head(recency)} ELSE {}

Store(id, s) ==
    streams' = [i \in StreamIDs |->
                   IF i = id THEN s
                   ELSE IF i \in Evicted(id) THEN NoStream ELSE streams[i]]

\* Mutant: a stream that is found is listed a second time.
TouchAgain(id) ==
    recency' = Append(IF Evicted(id) # {} THEN Tail(recency) ELSE recency, id)

Touch(id) ==
    recency' = Append(IF streams[id] # NoStream
                      THEN RemoveAt(recency, CHOOSE i \in DOMAIN recency : recency[i] = id)
                      ELSE IF Evicted(id) # {} THEN Tail(recency) ELSE recency,
                      id)

\* Mutant: a settled stream only accepts the packet.
ReplayAccept(flow) ==
    /\ ~Accepts(StreamFor(flow))
    /\ Store(IDOf[flow], StreamFor(flow))
    /\ out' = [flow |-> flow, cause |-> "Replay", verdict |-> "Accept",
               payload |-> FALSE, leftOpen |-> LeftOpen(flow)]

\* A settled stream answers with its stored verdict and never with a packet.
Replay(flow) ==
    /\ ~Accepts(StreamFor(flow))
    /\ Store(IDOf[flow], StreamFor(flow))
    /\ out' = [flow |-> flow, cause |-> "Replay", verdict |-> StreamFor(flow).last,
               payload |-> FALSE, leftOpen |-> LeftOpen(flow)]

\* Otherwise the entries are fed; a property update, or the first packet,
\* makes the stream ask its ruleset.  answer is what the ruleset says,
\* modified tells whether the modifier produced a packet (if not, the answer
\* counts as Maybe), serialized whether that packet could be serialized (if
\* not, the original is accepted).
Inspect(flow, len, dones, updated, answer, modified, serialized) ==
    LET s       == StreamFor(flow)
        fed     == FeedEntries(s, len, dones)
        matched == updated \/ s.virgin
        action  == IF ~matched \/ (answer = "Modify" /\ ~modified)
                   THEN "Maybe" ELSE answer
        decided == ApplyAction([fed EXCEPT !.virgin = FALSE], action)
        verdict == FeedVerdict(decided, ActionVerdict(action))
        unsent  == verdict = "AcceptModify" /\ ~serialized
    IN /\ Accepts(s)
       /\ updated => s.active # {}
       /\ Store(IDOf[flow], AcceptIfAllDone(decided, ActionVerdict(action)))
       /\ out' = [flow |-> flow,
                  cause |-> IF matched THEN action ELSE "None",
                  verdict |-> IF unsent THEN "Accept" ELSE verdict,
                  payload |-> verdict = "AcceptModify" /\ ~unsent,
                  leftOpen |-> LeftOpen(flow)]

Packet(flow) ==
    /\ Touch(IDOf[flow])
    /\ \/ Replay(flow)
       \/ \E len \in 0..MaxPayload, dones \in SUBSET StreamFor(flow).active,
             answer \in RsActions[StreamFor(flow).rs] \cup {"Maybe"},
             updated, modified, serialized \in BOOLEAN :
             /\ answer # "Modify" => modified /\ serialized
             /\ Inspect(flow, len, dones, updated, answer, modified, serialized)
    /\ UNCHANGED ruleset

UpdateRuleset(r) ==
    /\ ruleset' = r
    /\ UNCHANGED <<streams, recency, out>>

Next ==
    \/ \E flow \in Flows : Packet(flow)
    \/ \E r \in Rulesets : UpdateRuleset(r)

Spec == Init /\ [][Next]_vars

-----------------------------------------------------------------------------
(* Properties *)

\* Every variable keeps its type.
TypeOK ==
    /\ ruleset \in Rulesets
    /\ streams \in [StreamIDs -> Stream \cup {NoStream}]
    /\ recency \in Seq(StreamIDs)
    /\ out \in Outcome

Settled(s) == ~Accepts(s)

\* The LRU order lists exactly the IDs that have a stream, each once and never
\* more than MaxStreams of them, and every stream is filed under the hash of
\* its own flow, however hits, replacements and evictions follow each other.
TableConsistent ==
    /\ Len(recency) <= MaxStreams
    /\ \A i, j \in DOMAIN recency : recency[i] = recency[j] => i = j
    /\ Cached = {recency[i] : i \in DOMAIN recency}
    /\ \A id \in Cached : IDOf[streams[id].flow] = id

\* The engine keeps the contract of analyzer.UDPStream: the streams of the
\* active entries, and no others, are open, and none was ever fed or closed
\* after it was done or closed, whichever of "done", limit, final verdict and
\* replacement ends it, alone or in the same packet.
AnalyzerContract ==
    \A id \in Cached, a \in Analyzers :
        /\ streams[id].analyzer[a] # "misused"
        /\ a \in streams[id].active <=> streams[id].analyzer[a] = "open"

\* An entry with a byte limit is only kept while quota is left: the first
\* packet that uses it up is the last one the analyzer gets.
LimitHonoured ==
    \A id \in Cached : \A a \in streams[id].active :
        HasLimit(a) => streams[id].quota[a] \in 1..Limit[a]

\* A stream that stopped inspecting always has a verdict to replay: it can
\* never fall back to a plain Accept, which would send it through the queue
\* for ever.
SettledHasVerdict ==
    \A id \in Cached : Settled(streams[id]) => streams[id].last # "Accept"

\* A stored final verdict ends the inspection at once: no analyzer stays
\* active behind it and could overturn it.
FinalIsSettled ==
    \A id \in Cached :
        streams[id].last \in FinalVerdicts => Settled(streams[id])

\* What a stream decided can be traced to the ruleset it was created under,
\* even when a reload came in between: its analyzers are those of that
\* ruleset and its verdict is one of its actions, or the AcceptStream of a
\* stream without an answer.
OwnRuleset ==
    \A id \in Cached :
        LET s == streams[id]
        IN /\ \A a \in Analyzers : s.analyzer[a] # "absent" <=> a \in RsAnalyzers[s.rs]
           /\ s.last \in {"Accept", "AcceptStream"}
                          \cup {ActionVerdict(action) : action \in RsActions[s.rs]}

\* When a packet of another flow with the same hash takes over the table
\* entry, the old stream's analyzers have all been told.
ReplacedIsClosed == out.leftOpen = {}

\* Whatever ends an analyzer's part in a stream, the analyzer is told once.
AnalyzersTold == AnalyzerContract /\ ReplacedIsClosed

\* Inspection, quotas, verdict and ruleset of every stream in the table fit
\* together, whichever of several reasons ended the inspection.
StreamsConsistent ==
    TypeOK /\ LimitHonoured /\ SettledHasVerdict /\ FinalIsSettled /\ OwnRuleset

\* A packet step: everything but a reload.
PacketStep == ruleset' = ruleset

\* A stream accepted or blocked for good stays as it is for as long as it is in
\* the table, and every further packet of its flow gets that verdict.
SettledForGood ==
    [][\A id \in Cached :
          (PacketStep /\ streams[id].last \in FinalVerdicts) =>
              /\ streams'[id] # NoStream /\ streams'[id].flow = streams[id].flow
                     => streams'[id] = streams[id]
              /\ out'.flow = streams[id].flow => out'.verdict = streams[id].last]_vars

\* "Make sure every stream matches against the ruleset at least once": the
\* first packet of every stream is answered by the ruleset, whether or not the
\* ruleset has analyzers and whether or not the flow was seen before.
FirstPacketMatched ==
    [][(PacketStep /\ ~Hit(out'.flow)) => out'.cause \in Actions]_vars

\* A stream's verdicts follow from one match to its last: the first packet is
\* matched, and a final verdict is repeated.
VerdictsFollow == FirstPacketMatched /\ SettledForGood

\* ruleset/interface.go: drop and modify are about "the current packet", and
\* "the stream should be allowed to continue".  A packet is dropped or modified
\* by itself only when the ruleset was asked about this very packet.
PerPacketVerdict ==
    out.verdict \in {"Drop", "AcceptModify"} => out.cause \in {"Drop", "Modify"}

=============================================================================
