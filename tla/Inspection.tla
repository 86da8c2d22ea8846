----------------------------- MODULE Inspection -----------------------------
(***************************************************************************)
(* From a rule to those who are told: runMain compiles the rules, workers  *)
(* match their streams against them (ruleset/expr.go), every hit with log  *)
(* passes the allowlist (cmd/allowlist.go) to the webhook's queue          *)
(* (cmd/alert.go), the risk aggregator and the response queue, and at the  *)
(* end runMain closes one after the other.  What identity a stream has     *)
(* comes from the inventory of module Identity.  When the risk aggregator  *)
(* crosses a threshold, and what the response does, is left open here:     *)
(* modules RiskAggregator and ResponseSink are about that.                 *)
(***************************************************************************)
EXTENDS Identity

CONSTANTS
    Streams,        \* streams, each with a worker of its own; a configuration has some
    Analyzers,      \* analyzers the program has
    Values,         \* what an analyzer may report
    None,           \* a property not reported
    MaxCrossings    \* bound: thresholds crossed

Sinks == {"alert", "response"}

\* A rule of the file. It tests what one analyzer reports; without a report
\* the expression is false or, when strict, fails. "when" are the values for
\* which it is true, "severe" says that the response handles it.
Rule == [name : STRING, action : {"", "allow", "block", "drop", "modify", "other"}, log : BOOLEAN,
         analyzer : STRING, strict : BOOLEAN, when : SUBSET Values, severe : BOOLEAN, modifier : BOOLEAN]

\* A program has some of the streams, its packets are among those packets may
\* look like, and no identity on its allowlist is empty (makeStringSet).
ASSUME ConfigAssumption ==
    \A c \in Configs :
        /\ c.streams \subseteq Streams /\ c.packets \subseteq Packets /\ c.rules \in Seq(Rule)
        /\ c.alert \in Nat /\ c.response \in Nat
        /\ \A an \in Analyzers : c.reports[an] \subseteq Values
        /\ c.allow.on => "" \notin c.allow.ids

VARIABLES
    analyzers,      \* the analyzers of the rules compiled so far
    compiled,       \* how many rules are compiled
    stream,         \* per stream what its worker does
    sink,           \* the queues, their goroutines and who stopped them
    lost,           \* per sink: events dropped (counted), events given up after stop
    ruleHits,       \* metric
    suppressed,     \* metric
    quiet,          \* history: suppressed hits the webhook is not told of
    crossings       \* history: thresholds crossed, and the alerts about it

hitVars == <<stream, sink, lost, ruleHits, suppressed, quiet, crossings>>
vars == <<config, main, identityVars, analyzers, compiled, hitVars>>

Unseen == [at |-> "unseen", packet |-> <<>>, who |-> Nobody, props |-> [an \in Analyzers |-> None],
           next |-> 1, work |-> <<>>, told |-> <<>>, verdict |-> "maybe"]

\* A sink that is not configured has neither queue nor goroutine.
IdleSink(size) == [size |-> size, queue |-> <<>>, busy |-> <<>>, served |-> <<>>,
                   stopped |-> FALSE, running |-> size > 0]

Init ==
    /\ config \in Configs
    /\ main = "compile"
    /\ IdentityInit
    /\ analyzers = {} /\ compiled = 0
    /\ stream = [s \in Streams |-> Unseen]
    /\ sink = [k \in Sinks |-> IdleSink(config[k])]
    /\ lost = [k \in Sinks |-> [dropped |-> {}, discarded |-> {}]]
    /\ ruleHits = 0 /\ suppressed = 0 /\ quiet = 0
    /\ crossings = [all |-> 0, alerts |-> 0]

-----------------------------------------------------------------------------
(* Start: the rules are compiled one after the other; a bad one is fatal. *)

Compiles(rule) ==
    /\ rule.action # "" \/ rule.log
    /\ rule.action # "other"
    /\ rule.analyzer \in Analyzers
    /\ rule.action = "modify" => rule.modifier

Compile ==
    /\ main = "compile" /\ compiled < Len(config.rules)
    /\ LET rule == config.rules[compiled + 1]
       IN IF Compiles(rule)
          THEN /\ compiled' = compiled + 1 /\ UNCHANGED main
               /\ analyzers' = analyzers \cup {rule.analyzer}
          ELSE main' = "fatal" /\ UNCHANGED <<compiled, analyzers>>
    /\ UNCHANGED <<config, identityVars, hitVars>>

Run ==
    /\ main = "compile" /\ compiled = Len(config.rules)
    /\ main' = "run"
    /\ UNCHANGED <<config, identityVars, analyzers, compiled, hitVars>>

-----------------------------------------------------------------------------
(* Workers.  They go on until the program is gone: nobody waits for them. *)

Working == main \notin {"compile"} \cup Ended

Unaffected == UNCHANGED <<config, main, identityVars, analyzers, compiled>>

\* The first packet creates the stream, its identity is looked up once, and it
\* is matched with nothing reported yet.
NewStream(s) ==
    /\ Working /\ s \in config.streams /\ stream[s].at = "unseen"
    /\ \E packet \in config.packets :
          stream' = [stream EXCEPT ![s].at = "match", ![s].packet = packet,
                                   ![s].who = Enrich(entries, packet)]
    /\ Unaffected /\ UNCHANGED <<sink, lost, ruleHits, suppressed, quiet, crossings>>

\* An attached analyzer reports, which starts a match of its own.
Learn(s) ==
    /\ Working /\ stream[s].at = "idle"
    /\ \E an \in analyzers : \E value \in config.reports[an] :
          /\ stream[s].props[an] = None
          /\ stream' = [stream EXCEPT ![s].at = "match", ![s].props[an] = value,
                                      ![s].next = 1, ![s].told = <<>>]
    /\ Unaffected /\ UNCHANGED <<sink, lost, ruleHits, suppressed, quiet, crossings>>

\* vm.mac of the metadata: the address that matched, or the entry's only one.
KnownMACs(s) ==
    stream[s].packet.macs \cup
        (IF Cardinality(stream[s].who.macs) = 1 THEN stream[s].who.macs ELSE {})

\* Mutant: an address counts only together with its machine.
AllowlistedMachine(s, rule) ==
    /\ config.allow.on
    /\ \/ /\ stream[s].who.id \in config.allow.ids
          /\ KnownMACs(s) \cap config.allow.macs # {}
       \/ stream[s].packet.ips \cap config.allow.ips # {}
       \/ rule.name \in config.allow.rules
       \/ \E an \in Analyzers : stream[s].props[an] \in config.allow.domains

\* The allowlist: machine, addresses, rule, and the domains of the reports.
Allowlisted(s, rule) ==
    /\ config.allow.on
    /\ \/ stream[s].who.id \in config.allow.ids
       \/ KnownMACs(s) \cap config.allow.macs # {}
       \/ stream[s].packet.ips \cap config.allow.ips # {}
       \/ rule.name \in config.allow.rules
       \/ \E an \in Analyzers : stream[s].props[an] \in config.allow.domains

Event(s, rule, kind, hit) == [stream |-> s, rule |-> rule.name, kind |-> kind, hit |-> hit]

\* The calls a hit leads to, in the order rulesetLogger.Log makes them.
Calls(s, rule) ==
    LET event == Event(s, rule, "hit", ruleHits + 1)
    IN (IF config.alert > 0 THEN <<[to |-> "alert", event |-> event]>> ELSE <<>>)
       \o (IF config.risk THEN <<[to |-> "risk", event |-> event]>> ELSE <<>>)
       \o (IF config.response > 0 /\ rule.severe THEN <<[to |-> "response", event |-> event]>> ELSE <<>>)

SuppressedCalls(s, rule) ==
    IF config.alert > 0 /\ config.allow.webhook
    THEN <<[to |-> "alert", event |-> Event(s, rule, "suppressed", ruleHits + 1)]>> ELSE <<>>

\* Mutant: a suppressed hit is marked, and goes on.
LogAnyway(s, rule) ==
    /\ ruleHits' = ruleHits + 1
    /\ stream' = [stream EXCEPT ![s].work = Calls(s, rule), ![s].told = Append(@, rule.name),
                     ![s].next = IF rule.action = "" THEN @ + 1 ELSE Len(config.rules) + 1,
                     ![s].verdict = IF rule.action = "" THEN @ ELSE rule.action]
    /\ suppressed' = IF Allowlisted(s, rule) THEN suppressed + 1 ELSE suppressed
    /\ UNCHANGED <<sink, lost, quiet, crossings>>

\* A logged hit: counted, then suppressed or told.
Log(s, rule) ==
    LET hidden == Allowlisted(s, rule)
        calls == IF hidden THEN SuppressedCalls(s, rule) ELSE Calls(s, rule)
    IN /\ ruleHits' = ruleHits + 1
       /\ stream' = [stream EXCEPT ![s].work = calls, ![s].told = Append(@, rule.name),
                        ![s].next = IF rule.action = "" THEN @ + 1 ELSE Len(config.rules) + 1,
                        ![s].verdict = IF rule.action = "" THEN @ ELSE rule.action]
       /\ suppressed' = IF hidden THEN suppressed + 1 ELSE suppressed
       /\ quiet' = IF hidden /\ calls = <<>> THEN quiet + 1 ELSE quiet
       /\ UNCHANGED <<sink, lost, crossings>>

Outcome(rule, props) ==
    IF props[rule.analyzer] = None THEN IF rule.strict THEN "error" ELSE "false"
    ELSE IF props[rule.analyzer] \in rule.when THEN "true" ELSE "false"

\* Mutant: an expression that fails ends the match.
EvaluateUpToError(s) ==
    /\ Working /\ stream[s].at = "match" /\ stream[s].work = <<>> /\ stream[s].next <= Len(config.rules)
    /\ LET rule == config.rules[stream[s].next]
           outcome == Outcome(rule, stream[s].props)
       IN IF outcome = "true" /\ rule.log THEN Log(s, rule)
          ELSE /\ stream' = [stream EXCEPT
                      ![s].next = IF (outcome = "true" /\ rule.action # "") \/ outcome = "error"
                                  THEN Len(config.rules) + 1 ELSE @ + 1,
                      ![s].verdict = IF outcome = "true" /\ rule.action # "" THEN rule.action ELSE @]
               /\ UNCHANGED <<sink, lost, ruleHits, suppressed, quiet, crossings>>
    /\ Unaffected

\* The next rule of a match. A failing expression is reported and passed over;
\* a true one with an action is the last.
Evaluate(s) ==
    /\ Working /\ stream[s].at = "match" /\ stream[s].work = <<>> /\ stream[s].next <= Len(config.rules)
    /\ LET rule == config.rules[stream[s].next]
           holds == Outcome(rule, stream[s].props) = "true"
       IN IF holds /\ rule.log THEN Log(s, rule)
          ELSE /\ stream' = [stream EXCEPT
                      ![s].next = IF holds /\ rule.action # "" THEN Len(config.rules) + 1 ELSE @ + 1,
                      ![s].verdict = IF holds /\ rule.action # "" THEN rule.action ELSE @]
               /\ UNCHANGED <<sink, lost, ruleHits, suppressed, quiet, crossings>>
    /\ Unaffected

\* Match returns; an action settles the stream.
Return(s) ==
    /\ Working /\ stream[s].at = "match" /\ stream[s].work = <<>> /\ stream[s].next > Len(config.rules)
    /\ stream' = [stream EXCEPT ![s].at = IF stream[s].verdict = "maybe" THEN "idle" ELSE "settled"]
    /\ Unaffected /\ UNCHANGED <<sink, lost, ruleHits, suppressed, quiet, crossings>>

Full(k) == Len(sink[k].queue) = sink[k].size

\* Mutant: what finds no room is not counted.
EmitUncounted(k, event) ==
    \/ /\ ~Full(k)
       /\ sink' = [sink EXCEPT ![k].queue = Append(@, event)] /\ UNCHANGED lost
    \/ /\ sink[k].stopped \/ Full(k)
       /\ UNCHANGED <<sink, lost>>

\* Emit and Quarantine: a place in the queue or the closed stop channel,
\* whichever the select takes; with neither the event is dropped.
Emit(k, event) ==
    \/ /\ ~Full(k)
       /\ sink' = [sink EXCEPT ![k].queue = Append(@, event)] /\ UNCHANGED lost
    \/ /\ sink[k].stopped
       /\ lost' = [lost EXCEPT ![k].discarded = @ \cup {event}] /\ UNCHANGED sink
    \/ /\ Full(k) /\ ~sink[k].stopped
       /\ lost' = [lost EXCEPT ![k].dropped = @ \cup {event}] /\ UNCHANGED sink

\* The next call of the hit goes to a sink.
Tell(s) ==
    /\ Working /\ stream[s].work # <<>> /\ Head(stream[s].work).to \in Sinks
    /\ stream' = [stream EXCEPT ![s].work = Tail(@)]
    /\ Emit(Head(stream[s].work).to, Head(stream[s].work).event)
    /\ Unaffected /\ UNCHANGED <<ruleHits, suppressed, quiet, crossings>>

\* Risk.Add: thresholds the hit crosses, if any, are told before the call returns.
AddRisk(s) ==
    /\ Working /\ stream[s].work # <<>> /\ Head(stream[s].work).to = "risk"
    /\ \E crossed \in SUBSET Sinks :
          LET event == [Head(stream[s].work).event EXCEPT !.kind = "risk"]
              Told(k) == IF k \in crossed /\ config[k] > 0 THEN <<[to |-> k, event |-> event]>> ELSE <<>>
          IN /\ crossings.all + Cardinality(crossed) <= MaxCrossings
             /\ crossings' = [all |-> crossings.all + Cardinality(crossed),
                              alerts |-> crossings.alerts + Len(Told("alert"))]
             /\ stream' = [stream EXCEPT ![s].work = Told("alert") \o Told("response") \o Tail(@)]
    /\ Unaffected /\ UNCHANGED <<sink, lost, ruleHits, suppressed, quiet>>

-----------------------------------------------------------------------------
(* The goroutines of the sinks. *)

\* Mutant: the newest event first.
TakeNewest(k) ==
    /\ main \notin Ended
    /\ sink[k].running /\ sink[k].busy = <<>> /\ sink[k].queue # <<>>
    /\ sink' = [sink EXCEPT ![k].busy = <<Last(sink[k].queue)>>, ![k].queue = Front(@)]
    /\ Unaffected /\ UNCHANGED <<stream, lost, ruleHits, suppressed, quiet, crossings>>

\* Mutant: only a full queue is worked on.
TakeWhenFull(k) ==
    /\ main \notin Ended
    /\ sink[k].running /\ sink[k].busy = <<>> /\ Full(k)
    /\ sink' = [sink EXCEPT ![k].busy = <<Head(sink[k].queue)>>, ![k].queue = Tail(@)]
    /\ Unaffected /\ UNCHANGED <<stream, lost, ruleHits, suppressed, quiet, crossings>>

Take(k) ==
    /\ main \notin Ended
    /\ sink[k].running /\ sink[k].busy = <<>> /\ sink[k].queue # <<>>
    /\ sink' = [sink EXCEPT ![k].busy = <<Head(sink[k].queue)>>, ![k].queue = Tail(@)]
    /\ Unaffected /\ UNCHANGED <<stream, lost, ruleHits, suppressed, quiet, crossings>>

\* A post, or a response, ends with success, an error or a timeout: all the same here.
Finish(k) ==
    /\ main \notin Ended /\ sink[k].busy # <<>>
    /\ sink' = [sink EXCEPT ![k].busy = <<>>, ![k].served = @ \o sink[k].busy]
    /\ Unaffected /\ UNCHANGED <<stream, lost, ruleHits, suppressed, quiet, crossings>>

Stop(k) ==
    /\ main \notin Ended
    /\ sink[k].running /\ sink[k].busy = <<>> /\ sink[k].stopped
    /\ sink' = [sink EXCEPT ![k].running = FALSE]
    /\ Unaffected /\ UNCHANGED <<stream, lost, ruleHits, suppressed, quiet, crossings>>

-----------------------------------------------------------------------------
(* The end: deferred calls, the last one deferred first. *)

\* What follows once Close of a sink, or of the inventory, has returned.
Following(place) == CASE place = "run" -> "closeResponse"
                      [] place = "closeResponse" -> "closeAlert"
                      [] place = "closeAlert" -> "closeIdentity"
                      [] place = "closeIdentity" -> "exited"

Closing(place) == CASE place = "closeResponse" -> {"response"}
                    [] place = "closeAlert" -> {"alert"}
                    [] OTHER -> {}

Returned == \/ main = "run"
            \/ main = "closeResponse" /\ ~sink["response"].running
            \/ main = "closeAlert" /\ ~sink["alert"].running
            \/ main = "closeIdentity" /\ refresh.at = "none"

\* Run returns after a signal or an error, or one Close does; the next begins.
Shutdown ==
    /\ Returned
    /\ main' = Following(main)
    /\ sink' = [k \in Sinks |->
                  [sink[k] EXCEPT !.stopped = @ \/ k \in Closing(main')]]
    /\ UNCHANGED <<config, identityVars, analyzers, compiled, stream, lost, ruleHits,
                   suppressed, quiet, crossings>>

-----------------------------------------------------------------------------

Worker(s) == NewStream(s) \/ Learn(s) \/ Evaluate(s) \/ Return(s) \/ Tell(s) \/ AddRisk(s)

Goroutine(k) == Take(k) \/ Finish(k) \/ Stop(k)

\* What changes identities touches none of the rest.
Inventory ==
    /\ Change \/ RefreshStep \/ RefreshStops
    /\ UNCHANGED <<analyzers, compiled, hitVars>>

Next ==
    \/ Compile \/ Run \/ Shutdown
    \/ \E s \in Streams : Worker(s)
    \/ \E k \in Sinks : Goroutine(k)
    \/ Inventory

Matching(s) == Evaluate(s) \/ Return(s) \/ Tell(s) \/ AddRisk(s)
Refreshing == RefreshStep /\ UNCHANGED <<analyzers, compiled, hitVars>>
Stopping == RefreshStops /\ UNCHANGED <<analyzers, compiled, hitVars>>

\* Goroutines run when they can; a select takes a channel that stays ready.
\* Run need not return. That ends the other steps of main, but for Run itself.
Fairness ==
    /\ WF_vars(Compile) /\ WF_vars(Run) /\ WF_vars(main # "run" /\ Shutdown)
    /\ \A s \in Streams : WF_vars(Matching(s))
    /\ \A k \in Sinks : WF_vars(Take(k)) /\ WF_vars(Finish(k)) /\ SF_vars(Stop(k))
    /\ WF_vars(Refreshing) /\ SF_vars(Stopping)

Spec == Init /\ [][Next]_vars /\ Fairness

-----------------------------------------------------------------------------
(* Properties *)

Events == [stream : Streams, rule : STRING, kind : {"hit", "suppressed", "risk"}, hit : Nat]

InspectionTypeOK ==
    /\ IdentityTypeOK
    /\ main \in {"compile", "run", "closeResponse", "closeAlert", "closeIdentity"} \cup Ended
    /\ analyzers \subseteq Analyzers /\ compiled \in 0..Len(config.rules)
    /\ \A s \in Streams :
          /\ stream[s].at \in {"unseen", "match", "idle", "settled"}
          /\ stream[s].props \in [Analyzers -> Values \cup {None}]
          /\ stream[s].next \in 1..(Len(config.rules) + 1)
          /\ stream[s].work \in Seq([to : Sinks \cup {"risk"}, event : Events])
    /\ \A k \in Sinks :
          /\ sink[k].queue \in Seq(Events) /\ Len(sink[k].queue) <= sink[k].size
          /\ sink[k].busy \in Seq(Events) /\ Len(sink[k].busy) <= 1
          /\ lost[k].dropped \cup lost[k].discarded \subseteq Events
    /\ {ruleHits, suppressed, quiet} \subseteq Nat

\* What a ruleset means for these reports: of the rules that are true, the first
\* with an action decides, and those with log up to it are heard.
Holding(rules, props) == {j \in DOMAIN rules : Outcome(rules[j], props) = "true"}
Acting(rules, props) == {j \in Holding(rules, props) : rules[j].action # ""}
Heard(rules, props) ==
    {j \in Holding(rules, props) : rules[j].log /\ \A i \in Acting(rules, props) : j <= i}

\* A verdict is the one of the deciding rule.
Decides(rules, props, verdict) ==
    IF Acting(rules, props) = {} THEN verdict = "maybe"
    ELSE \E j \in Acting(rules, props) : /\ \A i \in Acting(rules, props) : j <= i
                                         /\ verdict = rules[j].action

\* A list names the rules at these places, each once, in the order of the file.
NamesOf(rules, told, places) ==
    \E place \in [DOMAIN told -> places] :
        /\ \A j \in places : \E i \in DOMAIN told : place[i] = j
        /\ \A i \in DOMAIN told : told[i] = rules[place[i]].name
        /\ \A i, k \in DOMAIN told : i < k => place[i] < place[k]

\* A finished match is what the ruleset means for what the stream's analyzers
\* reported: a failing expression hides no later rule, and nothing behind the
\* deciding rule is told (exprRuleset.Match).
FirstActionWins ==
    \A s \in Streams : stream[s].at \in {"idle", "settled"} =>
        /\ Decides(config.rules, stream[s].props, stream[s].verdict)
        /\ NamesOf(config.rules, stream[s].told, Heard(config.rules, stream[s].props))

\* Streams only run with rules that are all valid, and with every analyzer any
\* of them asks for (CompileExprRules).
RulesCanSee ==
    \A s \in Streams : stream[s].at # "unseen" =>
        \A j \in DOMAIN config.rules : /\ Compiles(config.rules[j])
                                      /\ config.rules[j].analyzer \in analyzers

Taken(k) == sink[k].served \o sink[k].busy \o sink[k].queue

\* The verdict and the events of a stream are what the rules mean, and the rules
\* see every analyzer they ask for.
RulesHold == RulesCanSee /\ FirstActionWins

\* Nothing that is on the allowlist is acted against: not by its own hit, nor
\* by the risk it adds up, and a machine of the configuration also not while
\* the inventory changes around it (rulesetLogger.Log, allowlist.Match).
AllowlistedIsSafe ==
    config.allow.on =>
        \A e \in ToSet(Taken("response")) :
            LET packet == stream[e.stream].packet
            IN /\ e.rule \notin config.allow.rules
               /\ packet.macs \cap config.allow.macs = {}
               /\ packet.ips \cap config.allow.ips = {}
               /\ Enrich(StaticEntries, packet).id \notin config.allow.ids

\* The metrics and the webhook agree: every counted hit, and every alert of the
\* risk aggregator, is exactly once still to be queued, queued, posted, counted
\* as dropped, given up after the end began, or a suppressed hit that is not to
\* be sent (rulesetLogger.Log, webhookAlertSink.Emit and run).
HitsAccounted ==
    config.alert > 0 =>
        LET pending == UNION {{c.event : c \in {c \in ToSet(stream[s].work) : c.to = "alert"}} : s \in Streams}
            known == ToSet(Taken("alert")) \cup lost["alert"].dropped \cup lost["alert"].discarded
        IN /\ pending \cap known = {}
           /\ Len(Taken("alert")) = Cardinality(ToSet(Taken("alert")))
           /\ ruleHits + crossings.alerts = quiet + Cardinality(known \cup pending)
           /\ suppressed = quiet + Cardinality({e \in known \cup pending : e.kind = "suppressed"})

\* Of one stream, the webhook gets events in the order of its hits, and the
\* alert about a risk after the hit that raised it, whatever other workers
\* queue in between (rulesetLogger.Log, riskAggregator.Add).
EventsInOrder ==
    \A i, j \in DOMAIN Taken("alert") :
        LET e == Taken("alert")[i]
            f == Taken("alert")[j]
        IN i < j /\ e.stream = f.stream => e.hit < f.hit \/ (e.hit = f.hit /\ e.kind = "hit")

\* What is in a queue is worked off while nobody stops the sink (run).
QueueServed ==
    \A k \in Sinks : sink[k].queue # <<>> ~> sink[k].queue = <<>> \/ sink[k].stopped

\* Once the engine has returned, the program ends: whatever the workers still
\* put into queues, and in the middle of a refresh (runMain's deferred calls).
ProgramEnds == main = "closeResponse" ~> main = "exited"

\* Every match ends while the program runs: no expression that fails, no full
\* queue and no sink that is busy holds up a worker (Match, Emit).
MatchReturns ==
    \A s \in Streams : stream[s].at = "match" ~> stream[s].at # "match" \/ main \in Ended

\* No alert is lost, told twice or told out of order without being counted.
AlertsExact == InspectionTypeOK /\ HitsAccounted /\ EventsInOrder

\* Nothing holds up the matching, the sinks or the end of the program for ever.
NothingStuck == QueueServed /\ MatchReturns /\ ProgramEnds

=============================================================================
