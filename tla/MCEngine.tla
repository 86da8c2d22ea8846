------------------------------ MODULE MCEngine ------------------------------
(* Instances of Engine for TLC.                                            *)
EXTENDS Engine

CONSTANTS s1, s2, s3

\* Two workers; the second has two streams, the first one.
FlowStreams == {s1, s2, s3}
FlowStreamID == [s \in FlowStreams |-> CASE s = s1 -> 2 [] s = s2 -> 1 [] s = s3 -> 5]

\* One stream is enough when the packets do not matter.
OneStream == {s1}
OneStreamID == [s \in OneStream |-> 1]

=============================================================================
