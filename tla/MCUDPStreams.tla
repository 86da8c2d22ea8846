--------------------------- MODULE MCUDPStreams ---------------------------
(* Instances of UDPStreams for TLC.                                        *)
EXTENDS UDPStreams

CONSTANTS f1, f2, f3, f4, i1, i2, i3, dns, quic, rOld, rNew

(***************************************************************************)
(* UDPStreams.cfg: four flows with three hashes compete for two places; f1 *)
(* and f2 collide.  The old ruleset uses two analyzers, of which dns may   *)
(* take one byte, the new one none, and each can answer what the other     *)
(* cannot.                                                                 *)
(***************************************************************************)
MCFlows == {f1, f2, f3, f4}
MCIDs == {i1, i2, i3}
MCIDOf == [f \in MCFlows |-> CASE f = f3 -> i2 [] f = f4 -> i3 [] OTHER -> i1]
MCAnalyzers == {dns, quic}
MCLimit == [a \in MCAnalyzers |-> IF a = dns THEN 1 ELSE 0]
MCRulesets == {rOld, rNew}
MCRsAnalyzers == [r \in MCRulesets |-> IF r = rOld THEN {dns, quic} ELSE {}]
MCRsActions ==
    [r \in MCRulesets |-> IF r = rOld THEN {"Block"} ELSE {"Allow", "Drop", "Modify"}]

(***************************************************************************)
(* UDPReplay.cfg: rules that drop or modify by address and port alone, and *)
(* rules that need an analyzer to do so.                                   *)
(***************************************************************************)
ReplayRsActions == [r \in MCRulesets |-> {"Drop", "Modify"}]

=============================================================================
