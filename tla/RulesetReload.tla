--------------------------- MODULE RulesetReload ---------------------------
(***************************************************************************)
(* Replacing the ruleset of a running engine: the reload goroutine of the  *)
(* program (cmd/root.go, runMain), engine.UpdateRuleset, and the stream    *)
(* factories of the workers it visits one lock at a time while the workers *)
(* create streams.                                                         *)
(***************************************************************************)
EXTENDS Integers, FiniteSets

CONSTANTS
    ReloadWorkers,    \* config.Workers
    MaxEdits       \* bound: edits of the ruleset file

ASSUME ReloadAssumption == ReloadWorkers \in Nat \ {0} /\ MaxEdits \in Nat

\* The factories in the order a reload visits them: TCP, then UDP, of each
\* worker in turn.
Factories == 0..2 * ReloadWorkers - 1

Versions == 0..MaxEdits

VARIABLES
    file,       \* the ruleset file: its version, and whether it compiles
    hangup,     \* a SIGHUP waits in reloadChan
    reload,     \* the goroutine: "idle", "loading", "installing"
    version,    \* the ruleset being installed
    place,      \* the factory it goes to next
    factory,    \* the ruleset of each factory
    latest      \* the ruleset of the last stream each factory created

reloadVars == <<file, hangup, reload, version, place, factory, latest>>

ReloadInit ==
    /\ file = [version |-> 0, good |-> TRUE]
    /\ hangup = FALSE
    /\ reload = "idle" /\ version = 0 /\ place = 0
    /\ factory = [k \in Factories |-> 0]
    /\ latest = [k \in Factories |-> 0]

\* The administrator edits the file; the new version may compile or not.
Edit ==
    /\ file.version < MaxEdits
    /\ \E good \in BOOLEAN : file' = [version |-> file.version + 1, good |-> good]
    /\ UNCHANGED <<hangup, reload, version, place, factory, latest>>

\* SIGHUP: the channel has room for one, more are dropped.
Hangup ==
    /\ hangup' = TRUE
    /\ UNCHANGED <<file, reload, version, place, factory, latest>>

Receive ==
    /\ reload = "idle" /\ hangup
    /\ hangup' = FALSE
    /\ reload' = "loading"
    /\ UNCHANGED <<file, version, place, factory, latest>>

\* Mutant: rules that do not compile are replaced by the ones of the start.
LoadOrReset ==
    /\ reload = "loading"
    /\ reload' = "installing" /\ place' = 0
    /\ version' = IF file.good THEN file.version ELSE 0
    /\ UNCHANGED <<file, hangup, factory, latest>>

\* A file that does not load or compile leaves the old rules in place.
Load ==
    /\ reload = "loading"
    /\ \/ /\ file.good
          /\ reload' = "installing" /\ version' = file.version /\ place' = 0
       \/ /\ ~file.good
          /\ reload' = "idle" /\ UNCHANGED <<version, place>>
    /\ UNCHANGED <<file, hangup, factory, latest>>

\* Mutant: only the TCP factories are visited.
UpdateTCPOnly ==
    /\ reload = "installing"
    /\ factory' = [factory EXCEPT ![place] = version]
    /\ \/ place + 2 \in Factories /\ place' = place + 2 /\ UNCHANGED reload
       \/ place + 2 \notin Factories /\ reload' = "idle" /\ UNCHANGED place
    /\ UNCHANGED <<file, hangup, version, latest>>

\* Mutant: a signal that came meanwhile is thought to be served as well.
UpdateAndDrain ==
    /\ reload = "installing"
    /\ factory' = [factory EXCEPT ![place] = version]
    /\ \/ place + 1 \in Factories /\ place' = place + 1 /\ UNCHANGED <<reload, hangup>>
       \/ place + 1 \notin Factories /\ reload' = "idle" /\ hangup' = FALSE /\ UNCHANGED place
    /\ UNCHANGED <<file, version, latest>>

\* One factory gets the new ruleset.
UpdateRuleset ==
    /\ reload = "installing"
    /\ factory' = [factory EXCEPT ![place] = version]
    /\ \/ place + 1 \in Factories /\ place' = place + 1 /\ UNCHANGED reload
       \/ place + 1 \notin Factories /\ reload' = "idle" /\ UNCHANGED place
    /\ UNCHANGED <<file, hangup, version, latest>>

\* A factory creates a stream, which keeps the ruleset it finds here.
New(k) ==
    /\ latest' = [latest EXCEPT ![k] = factory[k]]
    /\ UNCHANGED <<file, hangup, reload, version, place, factory>>

ReloadNext ==
    \/ Edit \/ Hangup \/ Receive \/ Load \/ UpdateRuleset
    \/ \E k \in Factories : New(k)

\* The goroutine does not stop; signals, edits and streams come or do not.
ReloadSpec ==
    /\ ReloadInit /\ [][ReloadNext]_reloadVars
    /\ WF_reloadVars(Receive) /\ WF_reloadVars(Load) /\ WF_reloadVars(UpdateRuleset)

-----------------------------------------------------------------------------
(* Properties *)

ReloadTypeOK ==
    /\ file \in [version : Versions, good : BOOLEAN]
    /\ hangup \in BOOLEAN
    /\ reload \in {"idle", "loading", "installing"}
    /\ version \in Versions /\ place \in Factories
    /\ factory \in [Factories -> Versions]
    /\ latest \in [Factories -> Versions]

\* Between two reloads all workers, and both protocols of each, run the same
\* ruleset; during one, the factories already visited have the new ruleset and
\* the others one and the same old one.
OneRuleset ==
    LET done == IF reload = "installing" THEN {k \in Factories : k < place} ELSE {}
    IN /\ \A k \in done : factory[k] = version
       /\ \A j, k \in Factories \ done : factory[j] = factory[k]

\* Streams of one worker and protocol never go back to a ruleset that was
\* replaced, however edits, signals and a reload in progress overlap.
NoOldRuleset ==
    [][\A k \in Factories : latest'[k] >= latest[k]]_reloadVars

\* A SIGHUP is never lost, not even when it comes in the middle of a reload:
\* what the file held when it came is installed everywhere, unless the file
\* was changed again.
ReloadTakesEffect ==
    \A v \in Versions :
        (hangup /\ file = [version |-> v, good |-> TRUE]) ~>
            (file.version # v \/ \A k \in Factories : factory[k] = v)

=============================================================================
