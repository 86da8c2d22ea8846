----------------------------- MODULE TCPStreams -----------------------------
(***************************************************************************)
(* One TCP connection of an engine worker: its entry in the stream pool,   *)
(* the stream state machine (engine/tcp.go) and the packets, flushes and   *)
(* reloads the worker applies to it (engine/worker.go).  Connections share *)
(* nothing but the factory's ruleset and the total of buffered pages.      *)
(*                                                                         *)
(* The reassembler is a library.  It is modelled from how the engine uses  *)
(* it: a packet goes in with a context that holds Verdict Accept and is    *)
(* read back at once; data that is not yet in order is kept as a page with *)
(* the context of its packet; a flush gets no context, so ReassembledSG    *)
(* finds the one of the page it delivers.                                  *)
(***************************************************************************)
EXTENDS Integers, Sequences, SequencesExt, StreamTypes

CONSTANTS
    Analyzers,     \* names of the analyzers
    Limit,         \* byte limit of each analyzer, 0 (or less) for none
    Rulesets,      \* versions of the ruleset a reload can install
    RsAnalyzers,   \* the analyzers each version uses
    RsActions,     \* the actions each version's rules can answer
    MaxData,       \* most bytes one delivery holds
    MaxPages,      \* pages one direction may buffer
    NoStream       \* marks a connection that is not in the pool

ASSUME AnalyzerAssumption ==
    /\ Limit \in [Analyzers -> Int]
    /\ MaxData \in Nat

ASSUME RulesetAssumption ==
    /\ RsAnalyzers \in [Rulesets -> SUBSET Analyzers]
    /\ RsActions \in [Rulesets -> SUBSET Actions]

ASSUME PagesAssumption == MaxPages \in Nat \ {0}

Dirs == {"c2s", "s2c"}

TCPVerdicts == {"Accept", "AcceptStream", "DropStream"}

VARIABLES
    ruleset,    \* tcpStreamFactory.Ruleset
    stream,     \* the stream of the connection, or NoStream
    pages,      \* contexts (their Verdict) of each direction's buffered pages
    closed,     \* directions that have seen their end
    out,        \* what the last event was and how it left the worker
    told        \* the verdicts the IO was told for this stream's packets

vars == <<ruleset, stream, pages, closed, out, told>>

Stream ==
    [rs       : Rulesets,
     virgin   : BOOLEAN,
     active   : SUBSET Analyzers,
     quota    : [Analyzers -> Int],
     last     : TCPVerdicts,
     analyzer : [Analyzers -> AnalyzerStates]]

ASSUME NoStreamAssumption == NoStream \notin Stream

Outcome ==
    [event : {"none", "packet", "flush", "close"}, verdict : TCPVerdicts,
     leftOpen : SUBSET Analyzers]

HasLimit(a) == Limit[a] > 0

-----------------------------------------------------------------------------
(* tcpStream *)

NewStream ==
    [rs       |-> ruleset,
     virgin   |-> TRUE,
     active   |-> RsAnalyzers[ruleset],
     quota    |-> [a \in Analyzers |-> Limit[a]],
     last     |-> "Accept",
     analyzer |-> [a \in Analyzers |->
                      IF a \in RsAnalyzers[ruleset] THEN "open" ELSE "absent"]]

\* Whether the stream wants the packet; if not, the stored verdict is its
\* answer.
Accepts(s) == s.active # {} \/ s.virgin

CloseActiveEntries(s) ==
    [s EXCEPT !.active = {},
              !.analyzer = [a \in Analyzers |->
                               IF a \in s.active THEN AfterClose(@[a]) ELSE @[a]]]

\* An entry gets no more bytes than its quota; once that is used up the entry
\* is closed.
Taken(s, a, len) == IF len > s.quota[a] THEN s.quota[a] ELSE len

FedQuota(s, len) ==
    [a \in Analyzers |->
        IF a \in s.active /\ HasLimit(a)
        THEN s.quota[a] - Taken(s, a, len) ELSE s.quota[a]]

Exhausted(s, len) ==
    {a \in s.active : HasLimit(a) /\ FedQuota(s, len)[a] <= 0}

FedAnalyzer(s, len, dones) ==
    [a \in Analyzers |->
        IF a \notin s.active THEN s.analyzer[a]
        ELSE IF a \in Exhausted(s, len)
             THEN AfterClose(AfterFeed(s.analyzer[a], a \in dones))
             ELSE AfterFeed(s.analyzer[a], a \in dones)]

\* Mutant: an entry whose stream was closed at its limit stays active.
FeedEntriesOn(s, len, dones) ==
    [s EXCEPT !.active = @ \ dones,
              !.quota = FedQuota(s, len),
              !.analyzer = FedAnalyzer(s, len, dones)]

FeedEntries(s, len, dones) ==
    [s EXCEPT !.active = @ \ (dones \cup Exhausted(s, len)),
              !.quota = FedQuota(s, len),
              !.analyzer = FedAnalyzer(s, len, dones)]

\* A single packet of a TCP stream is never dropped or modified.
Decisive(action) == action \in {"Allow", "Block", "Drop"}

ActionVerdict(action) ==
    IF action \in {"Block", "Drop"} THEN "DropStream" ELSE "AcceptStream"

\* What one delivery finds: how many bytes it has, which analyzers are done
\* with it, whether one updated its properties, what the ruleset would answer.
Reports(s) ==
    [len : 0..MaxData, dones : SUBSET s.active,
     updated : IF s.active = {} THEN {FALSE} ELSE BOOLEAN,
     action : RsActions[s.rs] \cup {"Maybe"}]

\* Mutant: a final verdict leaves the entries active.
DecideUnclosed(s, verdict, matched, action) ==
    IF matched /\ Decisive(action)
    THEN [stream  |-> [s EXCEPT !.last = ActionVerdict(action)],
          verdict |-> ActionVerdict(action)]
    ELSE [stream |-> s, verdict |-> verdict]

\* Mutant: the ruleset is asked for every delivery.
DecideUnmatched(s, verdict, matched, action) ==
    IF Decisive(action)
    THEN [stream  |-> CloseActiveEntries([s EXCEPT !.last = ActionVerdict(action)]),
          verdict |-> ActionVerdict(action)]
    ELSE [stream |-> s, verdict |-> verdict]

\* A stream together with the verdict of the context it is working for.
Decide(s, verdict, matched, action) ==
    IF matched /\ Decisive(action)
    THEN [stream  |-> CloseActiveEntries([s EXCEPT !.last = ActionVerdict(action)]),
          verdict |-> ActionVerdict(action)]
    ELSE [stream |-> s, verdict |-> verdict]

\* Mutant: the stream is accepted while entries are still active.
AcceptUndecided(d) ==
    IF d.verdict = "Accept"
    THEN [stream  |-> [d.stream EXCEPT !.last = "AcceptStream"],
          verdict |-> "AcceptStream"]
    ELSE d

\* Mutant: the verdict is stored but not put into the context.
AcceptSilently(d) ==
    IF d.stream.active = {} /\ d.verdict = "Accept"
    THEN [d EXCEPT !.stream.last = "AcceptStream"] ELSE d

\* All entries are done and the context has no verdict yet: accept the stream.
AcceptIfAllDone(d) ==
    IF d.stream.active = {} /\ d.verdict = "Accept"
    THEN [stream  |-> [d.stream EXCEPT !.last = "AcceptStream"],
          verdict |-> "AcceptStream"]
    ELSE d

\* verdict is the one in the context that comes with the data.
ReassembledSG(s, verdict, report) ==
    LET fed     == FeedEntries(s, report.len, report.dones)
        matched == report.updated \/ s.virgin
    IN AcceptIfAllDone(Decide([fed EXCEPT !.virgin = FALSE],
                              verdict, matched, report.action))

-----------------------------------------------------------------------------
(* The stream pool and the reassembler, as the worker uses them *)

Init ==
    /\ ruleset \in Rulesets
    /\ stream = NoStream
    /\ pages = [dir \in Dirs |-> <<>>]
    /\ closed = {}
    /\ out = [event |-> "none", verdict |-> "Accept", leftOpen |-> {}]
    /\ told = {}

\* The stream a packet finds; the first one finds none and creates it.
Current == IF stream = NoStream THEN NewStream ELSE stream

Open(dir) == dir \notin closed

Outgoing(event, verdict) ==
    out' = [event |-> event, verdict |-> verdict, leftOpen |-> {}]

\* The packet leaves the worker with this verdict, its stream in state s.
Answer(s, verdict) ==
    /\ stream' = s
    /\ Outgoing("packet", verdict)
    /\ told' = told \cup {verdict}

\* ReassemblyComplete: the last entries are closed, the stream leaves the pool.
Complete(s, event, verdict) ==
    /\ stream' = NoStream
    /\ pages' = [d \in Dirs |-> <<>>]
    /\ closed' = {}
    /\ out' = [event |-> event, verdict |-> verdict,
               leftOpen |-> {a \in Analyzers :
                                CloseActiveEntries(s).analyzer[a] = "open"}]
    /\ told' = {}

\* What follows a delivery: the end of the data closes the direction, and with
\* the second direction the stream.
Delivered(dir, d, rest, end, event) ==
    \/ /\ end
       /\ closed \cup {dir} = Dirs
       /\ Complete(d.stream, event, d.verdict)
    \/ /\ ~end \/ closed \cup {dir} # Dirs
       /\ stream' = d.stream
       /\ pages' = [pages EXCEPT ![dir] = IF end THEN <<>> ELSE rest]
       /\ closed' = IF end THEN closed \cup {dir} ELSE closed
       /\ Outgoing(event, d.verdict)
       /\ told' = IF event = "packet" THEN told \cup {d.verdict} ELSE told

\* A settled stream answers at once; nothing is reassembled any more.
Replay(dir) ==
    /\ ~Accepts(Current)
    /\ Answer(Current, Current.last)
    /\ UNCHANGED <<ruleset, pages, closed>>

\* A packet that brings nothing new: a bare acknowledgement, a retransmission,
\* anything after the end.
Nothing(dir) ==
    /\ Accepts(Current)
    /\ Answer(Current, "Accept")
    /\ UNCHANGED <<ruleset, pages, closed>>

\* Data beyond a gap is kept, at its place among the pages.
Queue(dir) ==
    /\ Accepts(Current) /\ Open(dir)
    /\ Len(pages[dir]) + 1 < MaxPages
    /\ \E at \in 1..Len(pages[dir]) + 1 :
          pages' = [pages EXCEPT ![dir] = InsertAt(@, at, "Accept")]
    /\ Answer(Current, "Accept")
    /\ UNCHANGED <<ruleset, closed>>

\* Data in order is delivered, with the pages that follow it without a gap.
InOrder(dir) ==
    /\ Accepts(Current) /\ Open(dir)
    /\ \E n \in 0..Len(pages[dir]), end \in BOOLEAN, report \in Reports(Current) :
          Delivered(dir, ReassembledSG(Current, "Accept", report),
                    SubSeq(pages[dir], n + 1, Len(pages[dir])), end, "packet")
    /\ UNCHANGED ruleset

\* A page that reaches the limit, of the connection or (crowded) of all of
\* them, gives up the first gap: the first pages are delivered on behalf of
\* this packet, whose own page may stay behind with the context.
Overflow(dir, crowded) ==
    /\ Accepts(Current) /\ Open(dir)
    /\ crowded \/ Len(pages[dir]) + 1 >= MaxPages
    /\ \E at \in 1..Len(pages[dir]) + 1, n \in 1..Len(pages[dir]) + 1,
          end \in BOOLEAN, report \in Reports(Current) :
          LET d    == ReassembledSG(Current, "Accept", report)
              kept == InsertAt(pages[dir], at, d.verdict)
          IN Delivered(dir, d, SubSeq(kept, n + 1, Len(kept)), end, "packet")
    /\ UNCHANGED ruleset

Packet(dir) ==
    \/ Replay(dir)
    \/ Nothing(dir)
    \/ Queue(dir)
    \/ InOrder(dir)
    \/ \E crowded \in BOOLEAN : Overflow(dir, crowded)

\* The flush ticker: a page that has waited too long is delivered, over its
\* gap, for the context it was kept with.  The stream is not asked first.
FlushPages(dir) ==
    /\ stream # NoStream
    /\ Open(dir)
    /\ \E n \in 1..Len(pages[dir]), end \in BOOLEAN, report \in Reports(stream) :
          Delivered(dir, ReassembledSG(stream, Head(pages[dir]), report),
                    SubSeq(pages[dir], n + 1, Len(pages[dir])), end, "flush")
    /\ UNCHANGED ruleset

\* The flush ticker: a connection that was idle too long is closed, once its
\* old pages are out.
FlushIdle ==
    /\ stream # NoStream
    /\ \A dir \in Dirs : pages[dir] = <<>>
    /\ Complete(stream, "close", "Accept")
    /\ UNCHANGED ruleset

UpdateRuleset(r) ==
    /\ ruleset' = r
    /\ UNCHANGED <<stream, pages, closed, out, told>>

Next ==
    \/ \E dir \in Dirs : Packet(dir) \/ FlushPages(dir)
    \/ FlushIdle
    \/ \E r \in Rulesets : UpdateRuleset(r)

Spec == Init /\ [][Next]_vars

-----------------------------------------------------------------------------
(* Properties *)

\* Every variable keeps its type, and no direction holds a full load of pages
\* or, after its end, any page.
TypeOK ==
    /\ ruleset \in Rulesets
    /\ stream \in Stream \cup {NoStream}
    /\ pages \in [Dirs -> Seq(TCPVerdicts)]
    /\ closed \in SUBSET Dirs
    /\ out \in Outcome
    /\ told \in SUBSET TCPVerdicts

Settled(s) == ~Accepts(s)

InPool == stream # NoStream

\* The buffer limit holds at rest, the end of a direction frees its pages, and
\* a connection outside the pool holds nothing.
PagesBounded ==
    /\ \A dir \in Dirs : Len(pages[dir]) < MaxPages
    /\ \A dir \in closed : pages[dir] = <<>>
    /\ closed # Dirs
    /\ ~InPool => closed = {} /\ (\A dir \in Dirs : pages[dir] = <<>>) /\ told = {}

\* The engine keeps the contract of analyzer.TCPStream: the streams of the
\* active entries, and no others, are open, and none was ever fed or closed
\* after it was done or closed, whether data, a limit, a verdict, a flush or
\* the end of the connection comes first.
AnalyzerContract ==
    InPool => \A a \in Analyzers :
        /\ stream.analyzer[a] # "misused"
        /\ a \in stream.active <=> stream.analyzer[a] = "open"

\* An analyzer with a byte limit never gets more bytes than that, and stays
\* active only while it may get more.
LimitHonoured ==
    InPool => \A a \in Analyzers : HasLimit(a) =>
        /\ stream.quota[a] \in 0..Limit[a]
        /\ a \in stream.active => stream.quota[a] > 0

\* A stream that stopped inspecting has a final verdict and a stream with a
\* final verdict has stopped inspecting, also when the verdict was reached in
\* a flush, for a packet long gone.
SettledIffFinal ==
    InPool => (Settled(stream) <=> stream.last \in FinalVerdicts)

\* The context a page waits with holds a verdict only when the stream is
\* settled, so a flush of an unsettled stream always starts from Accept.
PageContexts ==
    \A dir \in Dirs : \A i \in DOMAIN pages[dir] :
        pages[dir][i] # "Accept" => InPool /\ Settled(stream)

\* Analyzers and verdict of a stream are those of the ruleset it was created
\* under, even when a reload came in between.
OwnRuleset ==
    InPool =>
        /\ \A a \in Analyzers : stream.analyzer[a] # "absent" <=> a \in RsAnalyzers[stream.rs]
        /\ stream.last = "DropStream" =>
               RsActions[stream.rs] \cap {"Block", "Drop"} # {}

\* When a stream leaves the pool, at its end or idle, all its analyzers have
\* been told.
RemovedIsClosed == out.leftOpen = {}

\* Whatever ends an analyzer's part in a stream, the analyzer is told once.
AnalyzersTold == AnalyzerContract /\ RemovedIsClosed

\* Inspection, quotas, verdict and ruleset of a stream fit together, whichever
\* of several reasons ended the inspection.
StreamConsistent == TypeOK /\ LimitHonoured /\ SettledIffFinal /\ OwnRuleset

\* What waits for reassembly is bounded, belongs to an open direction, and
\* waits with a context that fits the stream.
PagesConsistent == PagesBounded /\ PageContexts

\* The packet that settles the stream and every packet after it carry the
\* stream's verdict to the IO.
VerdictsReach ==
    [][(out'.event = "packet" /\ stream' # NoStream /\ Settled(stream')
        /\ ruleset' = ruleset) => out'.verdict = stream'.last]_vars

\* A settled stream is only ever changed by a flush, which can turn its verdict
\* into AcceptStream and nothing else.
OnlyFlushOverturns ==
    [][(InPool /\ Settled(stream) /\ stream' \notin {stream, NoStream}) =>
          /\ out'.event = "flush"
          /\ stream' = [stream EXCEPT !.last = "AcceptStream"]]_vars

\* io/interface.go: DropStream "drops the packet and blocks the stream".  The
\* IO is never told to block a stream and then to accept it.
OneFinalVerdict == ~(FinalVerdicts \subseteq told)

=============================================================================
