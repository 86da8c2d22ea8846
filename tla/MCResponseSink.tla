--------------------------- MODULE MCResponseSink ---------------------------
(* An instance of ResponseSink for TLC.                                    *)
EXTENDS ResponseSink

CONSTANT m1

MCMacs == {m1}

=============================================================================
