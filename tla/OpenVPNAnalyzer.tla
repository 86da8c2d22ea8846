-------------------------- MODULE OpenVPNAnalyzer ---------------------------
(***************************************************************************)
(* The OpenVPN analyzer (analyzer/udp/openvpn.go): both machines check the *)
(* hard resets of the handshake and then count packets, a packet per Feed. *)
(* Over UDP a packet comes with every Feed; over TCP packets are cut out   *)
(* of the buffers.                                                         *)
(***************************************************************************)
EXTENDS ByteStream

CONSTANTS OpenVPNMinPktLen,   \* 6 in the code
          PktLimit            \* OpenVPNTCPPktDefaultLimit and OpenVPNUDPPktDefaultLimit, 256 each

ASSUME LimitAssumption == PktLimit \in Nat

ClientResets == {1, 7, 10}
ServerResets == {2, 8}
Following == {3, 4, 5, 6, 9, 11}
ValidOpcode(opcode) == opcode \in ClientResets \cup ServerResets \cup Following

\* The first byte of a packet is opcode << 3 | keyId.
Opcode(byte) == byte \div 8

OpenVPNStream(analyzer) ==
    NewStream(analyzer,
              <<"openvpn.clientReset", "openvpn.req">>, <<"openvpn.serverReset", "openvpn.resp">>,
              [rx |-> 0, tx |-> 0, lastOpcode |-> 0, pkt |-> 0])

\* The packet a parse function looks at: the stream left behind, and the
\* opcode in mem.pkt when it says "next" (openvpnTCPStream.parsePkt).
TCPPacket(s, dir) ==
    LET b == s.buf[dir]
        len == Uint16(b, 1)
    IN Given(s, dir, 2,
         IF len < OpenVPNMinPktLen THEN Cancel(s)
         ELSE Given(s, dir, 3,
                IF ~ValidOpcode(Opcode(b[3])) THEN Cancel(s)
                ELSE Given(s, dir, len + 2,
                       Next_([Skip(s, dir, len + 2) EXCEPT !.mem.pkt = Opcode(b[3])]))))

\* openvpnUDPStream.parsePkt: the packet of this Feed, which stands in the
\* buffer until it is parsed.
UDPPacket(s, dir) ==
    LET b == s.buf[dir]
    IN IF b = <<>> THEN Pause(s)
       ELSE IF ~ValidOpcode(Opcode(b[1])) THEN Cancel(s)
       ELSE Next_([s EXCEPT !.mem.pkt = Opcode(b[1]), !.buf[dir] = <<>>])

ClientReset(s, r) ==
    IF r.says # "next" THEN r
    ELSE IF r.mem.pkt \notin ClientResets THEN Cancel(r)
    ELSE [r EXCEPT !.mem.lastOpcode = r.mem.pkt]

\* Only once the last reset was the client's.
ServerReset(s, r) ==
    IF s.mem.lastOpcode \notin ClientResets THEN Cancel(s)
    ELSE IF r.says # "next" THEN r
    ELSE IF r.mem.pkt \notin ServerResets THEN Cancel(r)
    ELSE [r EXCEPT !.mem.lastOpcode = r.mem.pkt]

\* One packet is counted, then the machine pauses: a second one that came in
\* the same segment waits for the next Feed.
CountReq(s, r) ==
    IF r.says # "next" THEN r
    ELSE IF r.mem.pkt \notin Following THEN Cancel(r)
    ELSE Pause([r EXCEPT !.mem.tx = @ + 1, !.updated["req"] = TRUE])

CountResp(s, r) ==
    IF r.says # "next" THEN r
    ELSE IF r.mem.pkt \notin Following THEN Cancel(r)
    ELSE Pause([r EXCEPT !.mem.rx = @ + 1, !.updated["resp"] = TRUE])

OpenVPNParse(step, s) ==
    LET Packet(dir) == IF s.analyzer = "openvpn" THEN TCPPacket(s, dir) ELSE UDPPacket(s, dir)
    IN CASE step = "openvpn.clientReset" -> ClientReset(s, Packet("req"))
         [] step = "openvpn.serverReset" -> ServerReset(s, Packet("resp"))
         [] step = "openvpn.req" -> CountReq(s, Packet("req"))
         [] step = "openvpn.resp" -> CountResp(s, Packet("resp"))

OpenVPNUpdate(s) == [rx_pkt_cnt |-> s.mem.rx, tx_pkt_cnt |-> s.mem.tx]

\* The limit ends the stream as well.
OpenVPNOver(s, dir) == Over(s, dir) \/ s.mem.rx + s.mem.tx > PktLimit

\* openvpnUDPStream.Feed: what an earlier packet left behind is forgotten.
WithoutPacket(s) == [s EXCEPT !.buf = [dir \in Dirs |-> <<>>]]

=============================================================================
