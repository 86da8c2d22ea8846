--------------------------- MODULE MCTCPStreams ---------------------------
(* Instances of TCPStreams for TLC.                                        *)
EXTENDS TCPStreams

CONSTANTS http, trojan, rOld, rNew

(***************************************************************************)
(* Two analyzers, one with a limit of two bytes, under two rulesets that   *)
(* answer what the other cannot.                                           *)
(***************************************************************************)
MCAnalyzers == {http, trojan}
MCLimit == [a \in MCAnalyzers |-> IF a = trojan THEN 2 ELSE 0]
MCRulesets == {rOld, rNew}
MCRsAnalyzers == [r \in MCRulesets |-> IF r = rOld THEN MCAnalyzers ELSE {trojan}]
MCRsActions == [r \in MCRulesets |-> IF r = rOld THEN {"Block", "Modify"} ELSE {"Allow"}]

=============================================================================
