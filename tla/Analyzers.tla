----------------------------- MODULE Analyzers ------------------------------
(***************************************************************************)
(* One stream of one analyzer as the engine feeds it.  The analyzers that  *)
(* read byte streams get a conversation of two peers, cut into segments    *)
(* anywhere and its directions in any order a capture may show them; those *)
(* that look at packets get any packets.                                   *)
(***************************************************************************)
EXTENDS SocksAnalyzer, TextAnalyzers, TLSHello, DNSAnalyzer, OpenVPNAnalyzer, QUICAnalyzer, FlowAnalyzers

CONSTANTS Conversations,   \* a sequence of records: the analyzer that reads it; req and resp, what
                           \* is sent; first, the bytes the client sends before the server answers;
                           \* valid, whether this is the analyzer's protocol; says, what a reader of
                           \* all of it is told; meanwhile, values of fields that a later part of
                           \* the conversation corrects; ends, the ends of its messages;
                           \* open, its analyzer waits for more after all of it is reported
          ChunkSizes,      \* how many bytes a segment may hold, beside all the rest
          Hello,           \* a ClientHello QUIC clients send, and what it says
          PacketsOf,       \* packets for each analyzer that looks at packets
          MaxPackets       \* how many each of them gets at most

PacketAnalyzers == DOMAIN PacketsOf

\* What each of them looks at of a packet.
PacketType(name) ==
    CASE name = "wireguard" ->
            [type : {"bad", "handshake_initiation", "handshake_response", "packet_data",
                     "packet_cookie_reply"},
             rev : BOOLEAN, sender : Nat, receiver : Nat]
      [] name = "udpflow" -> [rev : BOOLEAN, len : Nat, time : Nat]
      [] name = "dns_udp" -> [data : Seq(0..255)]
      [] name = "openvpn_udp" -> [rev : BOOLEAN, byte : 0..255]
      [] name = "trojan" -> [rev : BOOLEAN, form : {"ccs", "record", "other"}, len : Nat]
      [] name = "fet" -> [data : Seq(0..255)]
      [] name = "quic" -> [rev : BOOLEAN, readable : BOOLEAN,
                           frames : Seq([type : STRING, offset : Nat, data : Seq(0..255)])]

ASSUME TalkAssumption == 0 \notin DOMAIN Conversations

ASSUME PacketAssumption ==
    /\ PacketAnalyzers \subseteq {"wireguard", "udpflow", "dns_udp", "openvpn_udp", "trojan", "fet", "quic"}
    /\ \A name \in PacketAnalyzers : PacketsOf[name] \subseteq PacketType(name)

VARIABLES analyzer,   \* the analyzer of the stream
          talk,       \* which conversation this is; 0 for packets
          early,      \* the capture may show the server's bytes before the client's
          taken,      \* bytes fed of each direction
          gap,        \* a segment was lost
          fed,        \* the packets fed
          stream,     \* the analyzer's stream
          reported,   \* the properties rules see (engine/utils.go, processPropUpdate)
          over        \* the stream said it is done

vars == <<analyzer, talk, early, taken, gap, fed, stream, reported, over>>

Talk == Conversations[talk]

StreamOf(name) ==
    CASE name = "socks" -> SocksStream
      [] name = "http" -> HTTPStream
      [] name = "ssh" -> SSHStream
      [] name = "tls" -> TLSStream
      [] name = "dns" -> DNSStream
      [] name \in {"openvpn", "openvpn_udp"} -> OpenVPNStream(name)
      [] name = "dns_udp" -> DNSUDPStream
      [] name = "quic" -> QUICStream
      [] name = "wireguard" -> WireGuardStream
      [] name = "udpflow" -> UDPFlowStream
      [] name = "trojan" -> TrojanStream
      [] name = "fet" -> FETStream

Init ==
    /\ \/ talk \in DOMAIN Conversations /\ early \in BOOLEAN /\ analyzer = Talk.analyzer
       \/ talk = 0 /\ early = FALSE /\ analyzer \in PacketAnalyzers
    /\ taken = [dir \in Dirs |-> 0] /\ gap = FALSE /\ fed = <<>>
    /\ stream = StreamOf(analyzer)
    /\ reported = Nothing /\ over = FALSE

-----------------------------------------------------------------------------

(* The linear state machine of a direction *)

Parse(step, s) ==
    CASE s.analyzer = "socks" -> SocksParse(step, s)
      [] s.analyzer = "http" -> HTTPParse(step, s)
      [] s.analyzer = "ssh" -> SSHParse(step, s)
      [] s.analyzer = "tls" -> TLSParse(step, s)
      [] s.analyzer = "dns" -> DNSParse(step, s)
      [] s.analyzer \in {"openvpn", "openvpn_udp"} -> OpenVPNParse(step, s)

\* What Run's loop does with the stream a parse function leaves behind.
Moved(r, dir) ==
    CASE r.says = "pause" -> r
      [] r.says = "next" -> [r EXCEPT !.at[dir] = @ + 1]
      [] r.says = "reset" -> [r EXCEPT !.at[dir] = 1]
      [] r.says = "cancel" -> [r EXCEPT !.cancelled[dir] = TRUE]
      [] r.says = "panic" -> r

RunStep(s, dir) == Moved(Parse(s.steps[dir][s.at[dir]], s), dir)

\* A step eats a byte, or is one of the few a machine has that need none.
MaxRounds(s, dir) == Len(s.buf[dir]) + Len(s.steps[dir]) + 4

\* Run: rounds until a parse function pauses or cancels or the steps are
\* through; says is "next" at the end when they are.
Run(s, dir) ==
    LET after[n \in Nat] ==
            IF n = 0 THEN Next_(s)
            ELSE LET r == after[n - 1]
                 IN IF r.says \in {"next", "reset"} /\ r.at[dir] <= Len(r.steps[dir])
                    THEN RunStep(r, dir) ELSE r
    IN after[MaxRounds(s, dir)]

\* What Feed of every analyzer with two machines does with data: append it,
\* run the machine of its direction, and note whether it is through.
NoteDone(r, dir) == [r EXCEPT !.done[dir] = r.says # "pause"]

FeedMachine(s, dir, data) ==
    NoteDone(Run([Append_(s, dir, data) EXCEPT !.updated[dir] = FALSE], dir), dir)

-----------------------------------------------------------------------------
(* The stream *)

\* The properties after a Feed that updated something.
Processed(s, dir) ==
    CASE analyzer = "socks" -> SocksUpdate(s, dir) @@ reported
      [] analyzer = "http" -> HTTPUpdate(s, dir) @@ reported
      [] analyzer = "ssh" -> SSHUpdate(s, dir) @@ reported
      [] analyzer = "tls" -> TLSUpdate(s, dir) @@ reported
      [] analyzer = "dns" -> DNSUpdate(s, dir)
      [] analyzer \in {"openvpn", "openvpn_udp"} -> OpenVPNUpdate(s)

\* What a Feed leaves behind.
Report(s, dir) ==
    /\ stream' = [s EXCEPT !.updated[dir] = FALSE]
    /\ reported' = IF s.updated[dir] THEN Processed(s, dir) ELSE reported
    /\ over' = IF analyzer \in {"openvpn", "openvpn_udp"} THEN OpenVPNOver(s, dir) ELSE Over(s, dir)

\* The next segment of a direction.
Feed(dir) ==
    /\ talk # 0 /\ ~over /\ taken[dir] < Len(Talk[dir])
    /\ dir = "resp" /\ ~early => taken["req"] >= Talk.first
    /\ \E size \in ChunkSizes \cup {Len(Talk[dir]) - taken[dir]} :
          /\ taken[dir] + size <= Len(Talk[dir])
          /\ taken' = [taken EXCEPT ![dir] = @ + size]
          /\ Report(FeedMachine(stream, dir, SubSeq(Talk[dir], taken[dir] + 1, taken[dir] + size)), dir)
    /\ UNCHANGED <<analyzer, talk, early, gap, fed>>

\* A segment behind bytes that were lost: every TCP analyzer gives up.
FeedSkip ==
    /\ talk # 0 \/ analyzer \in {"trojan", "fet"}
    /\ ~over
    /\ over' = TRUE /\ gap' = TRUE
    /\ UNCHANGED <<analyzer, talk, early, taken, fed, stream, reported>>

FeedPacket(p) ==
    /\ talk = 0 /\ ~over /\ Len(fed) < MaxPackets[analyzer]
    /\ fed' = Append(fed, p)
    /\ \/ /\ analyzer = "openvpn_udp"
          /\ LET dir == IF p.rev THEN "resp" ELSE "req"
             IN Report(FeedMachine(WithoutPacket(stream), dir, <<p.byte>>), dir)
       \/ /\ analyzer = "udpflow"
          /\ fed # <<>> => Last(fed).time <= p.time
          /\ stream' = UDPFlowFeed(stream, p)
          /\ reported' = UDPFlowProps(stream') /\ UNCHANGED over
       \/ /\ analyzer \in {"dns_udp", "quic", "wireguard", "trojan", "fet"}
          /\ stream' = CASE analyzer = "dns_udp" -> DNSUDPFeed(stream, p.data)
                         [] analyzer = "quic" -> QUICFeed(stream, p)
                         [] analyzer = "wireguard" -> WireGuardFeed(stream, p)
                         [] analyzer = "trojan" -> TrojanFeed(stream, p)
                         [] analyzer = "fet" -> FETFeed(stream, p)
          /\ reported' = stream'.reported /\ over' = stream'.done
    /\ UNCHANGED <<analyzer, talk, early, taken, gap>>

Next ==
    \/ \E dir \in Dirs : Feed(dir)
    \/ FeedSkip
    \/ analyzer \in PacketAnalyzers /\ \E p \in PacketsOf[analyzer] : FeedPacket(p)

Spec == Init /\ [][Next]_vars

-----------------------------------------------------------------------------
(* Byte streams *)

\* Messages of a conversation that were fed, and those not in the buffer any
\* more.
Fed(dir) == {k \in DOMAIN Talk.ends[dir] : Talk.ends[dir][k] <= taken[dir]}
Eaten(dir) == {k \in DOMAIN Talk.ends[dir] : Talk.ends[dir][k] <= taken[dir] - Len(stream.buf[dir])}

Message(dir, k) ==
    SubSeq(Talk[dir], (IF k = 1 THEN 0 ELSE Talk.ends[dir][k - 1]) + 3, Talk.ends[dir][k])

\* Properties of a DNS stream are those of the last message of a direction; an
\* earlier one in the same segment is overwritten before any rule sees it.
DNSTrue ==
    /\ reported = Nothing <=> Fed("req") \cup Fed("resp") = {}
    /\ reported # Nothing =>
          \E dir \in Dirs : Fed(dir) # {} /\ reported.message = Message(dir, Cardinality(Fed(dir)))

\* An OpenVPN stream counts what it has cut off its buffers, whole packets
\* only, without the two resets; what it has not counted is still there.
OpenVPNTrue ==
    LET Counted(dir) == IF Eaten(dir) = {} THEN 0 ELSE Cardinality(Eaten(dir)) - 1
    IN /\ stream.mem.tx = Counted("req") /\ stream.mem.rx = Counted("resp")
       /\ reported # Nothing => reported = OpenVPNUpdate(stream)
       /\ \A dir \in Dirs : taken[dir] - Len(stream.buf[dir]) \in {0} \cup ToSet(Talk.ends[dir])

\* A field of the properties is what the conversation says, or, until all of a
\* request is there, what its first part says.
FieldsTrue ==
    \A key \in DOMAIN reported :
        \/ key = "version" /\ reported[key] = Talk.says[key]
        \/ /\ key # "version"
           /\ \A field \in DOMAIN reported[key] :
                 \/ reported[key][field] = Talk.says[key][field]
                 \/ /\ key = "req" /\ field \in DOMAIN Talk.meanwhile /\ ~stream.done["req"]
                    /\ reported[key][field] = Talk.meanwhile[field]

\* A client is known by its hello as soon as one readable packet carries all of
\* it, in frames of any order, and what one packet carries a part of is no hello.
QUICTrue ==
    LET Pieces(p) == {k \in DOMAIN p.frames : p.frames[k].type = "crypto"}
        Covered(p) == UNION {p.frames[k].offset + 1 .. p.frames[k].offset + Len(p.frames[k].data) :
                                k \in Pieces(p)}
        whole == {k \in DOMAIN fed : /\ ~fed[k].rev /\ Readable(fed[k])
                                     /\ Covered(fed[k]) = DOMAIN Hello.bytes}
    IN /\ over <=> whole # {} \/ Len(fed) >= QUICInvalidCountThreshold
       /\ reported = IF whole = {} THEN Nothing ELSE [req |-> Hello.says]

\* Whatever segments, or frames of a packet, the bytes come in, in whatever
\* order the directions are captured, and whether or not this is the analyzer's
\* protocol: rules only see what the peers said (Feed and the parse functions
\* of the TCP analyzers and of QUIC).
ReportsTrue ==
    /\ talk # 0 => CASE analyzer = "dns" -> DNSTrue
                     [] analyzer = "openvpn" -> OpenVPNTrue
                     [] OTHER -> FieldsTrue
    /\ talk = 0 /\ analyzer = "quic" => QUICTrue

AllFed == \A dir \in Dirs : taken[dir] = Len(Talk[dir])

\* Only these two need the client's first message before the server's.
Disordered == early /\ analyzer \in {"socks", "openvpn"}

\* As long as no segment is lost, the cuts decide nothing: a conversation of
\* the analyzer's protocol is not given up before all is reported, all of it
\* is reported in the end, and any other conversation is given up.
CutsDecideNothing ==
    talk # 0 /\ ~gap =>
        LET endless == analyzer \in {"dns", "openvpn"}
            complete == ~endless /\ reported = Talk.says
            limited == analyzer = "openvpn" /\ stream.mem.rx + stream.mem.tx > PktLimit
        IN /\ over => ~Talk.valid \/ Disordered \/ complete \/ limited
           /\ AllFed /\ Talk.valid /\ ~over => endless \/ (Talk.open /\ complete)
           /\ AllFed /\ ~Talk.valid => over

-----------------------------------------------------------------------------
(* Packets *)

\* The stream is over after as many bad packets in a row as the threshold says.
OverIfBad(Bad_(_), threshold) ==
    over <=> Len(fed) >= threshold /\ \A k \in Len(fed) - threshold + 1 .. Len(fed) : Bad_(fed[k])

\* A receiver index matches when it is among the last indexes the other side
\* sent: one fewer than the ring has places.
WireGuardTrue ==
    LET senders == {k \in DOMAIN fed : Sends(fed[k])}
        p == Last(fed)
    IN /\ OverIfBad(LAMBDA q : q.type = "bad", WireGuardInvalidCountThreshold)
       /\ fed # <<>> /\ p.type \notin {"bad", "handshake_initiation"} =>
             reported[p.type].receiver_index_matched <=>
                \E j \in senders :
                    /\ fed[j].rev # p.rev /\ fed[j].sender = p.receiver
                    /\ Cardinality({k \in senders : k >= j}) < RememberedIndexCount

DNSUDPTrue ==
    LET messages == {k \in DOMAIN fed : IsDNS(fed[k].data)}
    IN /\ OverIfBad(LAMBDA p : ~IsDNS(p.data), DNSUDPInvalidCountThreshold)
       /\ messages = {} => reported = Nothing
       /\ \A k \in messages :
             (\A j \in messages : j <= k) => reported.message = fed[k].data

Lengths == [k \in DOMAIN fed |-> fed[k].len]

\* Counts, runs and lengths of a flow are those of its packets.  The smallest
\* length is that of the packets behind the last empty one: there it starts over.
UDPFlowTrue ==
    LET All == DOMAIN fed
        Way(rev) == {k \in All : fed[k].rev = rev}
        turns == {k \in All : k > 1 /\ fed[k].rev # fed[k - 1].rev}
        Run_(i, j) == i <= j /\ \A k \in i..j : fed[k].rev = fed[j].rev
        sizes == {fed[k].len : k \in All}
        since == {k \in All : \A j \in k..Len(fed) : fed[j].len # 0}
        Large == {k \in All : fed[k].len > 1024}
    IN /\ reported # Nothing => reported.packet_count = Len(fed) /\ reported.large = Cardinality(Large)
       /\ reported # Nothing =>
             reported.long_lived <=> Last(fed).time - fed[1].time >= LongLivedThreshold
       /\ stream.packets = [tx |-> Cardinality(Way(FALSE)), rx |-> Cardinality(Way(TRUE))]
       /\ stream.bytes = [tx |-> SumFunctionOnSet(Lengths, Way(FALSE)),
                           rx |-> SumFunctionOnSet(Lengths, Way(TRUE))]
       /\ stream.turns = Cardinality(turns)
       /\ \A i, j \in All : Run_(i, j) => j - i + 1 <= stream.maxRun
       /\ fed # <<>> => \E i, j \in All : Run_(i, j) /\ j - i + 1 = stream.maxRun
       /\ \A n \in sizes : n <= stream.maxLen
       /\ since = {} => stream.minLen = 0
       /\ since # {} => \E k \in since : stream.minLen = fed[k].len
       /\ \A k \in since : stream.minLen <= fed[k].len

\* Over UDP every packet is counted behind the two resets, and a packet out of
\* turn ends the stream.
OpenVPNUDPTrue ==
    LET Way(rev) == {k \in DOMAIN fed : fed[k].rev = rev}
        First(k) == \A j \in Way(fed[k].rev) : k <= j
        Resets(rev) == IF rev THEN ServerResets ELSE ClientResets
        valid == \A k \in DOMAIN fed :
                    /\ Opcode(fed[k].byte) \in IF First(k) THEN Resets(fed[k].rev) ELSE Following
                    /\ fed[k].rev => \E j \in Way(FALSE) : j < k
        Behind_(rev) == IF Way(rev) = {} THEN 0 ELSE Cardinality(Way(rev)) - 1
    IN /\ over <=> ~valid \/ Behind_(TRUE) + Behind_(FALSE) > PktLimit
       /\ valid => stream.mem.tx = Behind_(FALSE) /\ stream.mem.rx = Behind_(TRUE)

\* The lengths Trojan's tree judges are those of the first four turns from the
\* client's Change Cipher Spec on.
TrojanTrue ==
    LET ccs == {k \in DOMAIN fed : ~fed[k].rev /\ fed[k].form = "ccs"}
        start == CHOOSE k \in ccs : \A j \in ccs : k <= j
        Turn(k) == 1 + Cardinality({j \in (start + 1)..k : fed[j].rev # fed[j - 1].rev})
        counted == IF ccs = {} THEN {} ELSE start..Len(fed)
    IN gap \/ /\ over <=> \E k \in counted : Turn(k) = 5
              /\ over => reported.seq = [n \in 1..4 |->
                            SumFunctionOnSet(Lengths, {k \in counted : Turn(k) = n})]

\* The longest printable stretch is the longest of all there are.
FETTrue ==
    LET data == fed[1].data
        Stretch(i, j) == \A k \in i..j : Printable(data[k])
    IN gap \/ /\ over <=> fed # <<>>
              /\ over => \A i, j \in DOMAIN data : Stretch(i, j) => j < i + reported.ex4
              /\ over => reported.ex4 = 0
                         \/ \E i \in DOMAIN data : Stretch(i, i + reported.ex4 - 1)
              /\ over /\ reported.yes => reported.ex4 <= 20

\* After any packets, in any order and with any loss, the stream knows what its
\* history says, although it only keeps counters, a ring or a flag of it.
CountsTrue ==
    talk = 0 => CASE analyzer = "wireguard" -> WireGuardTrue
                  [] analyzer = "dns_udp" -> DNSUDPTrue
                  [] analyzer = "udpflow" -> UDPFlowTrue
                  [] analyzer = "openvpn_udp" -> OpenVPNUDPTrue
                  [] analyzer = "trojan" -> TrojanTrue
                  [] analyzer = "fet" -> FETTrue
                  [] OTHER -> TRUE

=============================================================================
