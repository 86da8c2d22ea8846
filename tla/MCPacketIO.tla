----------------------------- MODULE MCPacketIO -----------------------------
EXTENDS PacketIO

CONSTANTS connA, connB, connP

\* A block cut off by a bad frame after a frame without IP and a packet, and one
\* with two packets.
BlockContents == { <<"ip", "bad", "ip">>, <<"other", "ip">> }

\* The ring and the plain socket have the same counters.
MCStats == [how \in {"ring", "raw"} |-> IF how = "ring" THEN 1 ELSE 2]

MCConns == {connA, connB, connP}
MCProtected == {connP}
MCFamilyOf == (connA :> "ipv4" @@ connB :> "ipv6" @@ connP :> "ipv6")

=============================================================================
