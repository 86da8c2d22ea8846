---------------------------- MODULE DNSAnalyzer -----------------------------
(***************************************************************************)
(* The DNS analyzer (analyzer/udp/dns.go): over TCP, messages behind their *)
(* lengths, one after the other; over UDP, a message in every packet.      *)
(***************************************************************************)
EXTENDS ByteStream

CONSTANTS IsDNS(_),                     \* gopacket decodes these bytes
          DNSUDPInvalidCountThreshold   \* 4 in the code

ASSUME DNSAssumption == DNSUDPInvalidCountThreshold \in Nat \ {0}

\* parseDNSMessage: what the decoder makes of a message is left to it.
ParseDNSMessage(bytes) == IF IsDNS(bytes) THEN {[message |-> bytes]} ELSE {}

-----------------------------------------------------------------------------
(* TCP *)

DNSStream ==
    NewStream("dns", <<"dns.reqLength", "dns.reqMessage">>,
              <<"dns.respLength", "dns.respMessage">>,
              [msgLen |-> [dir \in Dirs |-> 0]])

DNSMessageLength(s, dir) ==
    Given(s, dir, 2,
      Next_([Skip(s, dir, 2) EXCEPT !.mem.msgLen[dir] = Uint16(s.buf[dir], 1)]))

DNSMessage(s, dir) ==
    LET len == s.mem.msgLen[dir]
        m == ParseDNSMessage(Get(s, dir, len))
        r == Skip(s, dir, len)
    IN Given(s, dir, len,
         IF m = {} THEN Cancel(r)
         ELSE Reset([r EXCEPT !.map[dir] = CHOOSE n \in m : TRUE, !.updated[dir] = TRUE]))

DNSParse(step, s) ==
    CASE step = "dns.reqLength" -> DNSMessageLength(s, "req")
      [] step = "dns.respLength" -> DNSMessageLength(s, "resp")
      [] step = "dns.reqMessage" -> DNSMessage(s, "req")
      [] step = "dns.respMessage" -> DNSMessage(s, "resp")

\* Replaces the properties.
DNSUpdate(s, dir) == s.map[dir]

-----------------------------------------------------------------------------
(* UDP *)

DNSUDPStream == [invalidCount |-> 0, reported |-> Nothing, done |-> FALSE]

DNSUDPFeed(s, data) ==
    LET m == ParseDNSMessage(data)
    IN IF m = {}
       THEN [s EXCEPT !.invalidCount = @ + 1,
                      !.done = s.invalidCount + 1 >= DNSUDPInvalidCountThreshold]
       ELSE [s EXCEPT !.invalidCount = 0, !.reported = CHOOSE n \in m : TRUE]

=============================================================================
