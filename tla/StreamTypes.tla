---------------------------- MODULE StreamTypes ----------------------------
(***************************************************************************)
(* Vocabulary shared by the stream engines: the verdicts the engine hands  *)
(* to the packet IO, the actions a ruleset answers with, and the life of   *)
(* one analyzer stream as the analyzer itself sees it through its          *)
(* interface (Feed and Close calls).                                       *)
(***************************************************************************)

\* io.Verdict.
Verdicts == {"Accept", "AcceptModify", "AcceptStream", "Drop", "DropStream"}

\* Verdicts after which the IO no longer needs the engine for the stream.
FinalVerdicts == {"AcceptStream", "DropStream"}

\* ruleset.Action.
Actions == {"Maybe", "Allow", "Block", "Drop", "Modify"}

(***************************************************************************)
(* An analyzer stream is "absent" when the ruleset does not use its        *)
(* analyzer, "open" from NewUDP / NewTCP on, "done" once Feed returned     *)
(* done, "closed" once Close was called, and "misused" as soon as the      *)
(* engine breaks the contract of the interface: a Feed after done or after *)
(* Close, a second Close, or a call on a stream that was never created.    *)
(***************************************************************************)
AnalyzerStates == {"absent", "open", "done", "closed", "misused"}

AfterFeed(state, done) ==
    IF state # "open" THEN "misused" ELSE IF done THEN "done" ELSE "open"

AfterClose(state) ==
    IF state \in {"open", "done"} THEN "closed" ELSE "misused"

=============================================================================
