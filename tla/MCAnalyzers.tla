---------------------------- MODULE MCAnalyzers -----------------------------
(***************************************************************************)
(* Conversations for every analyzer of byte streams, written down as what  *)
(* the peers say and encoded here by the rules of the protocol, and small  *)
(* sets of packets for the others.                                         *)
(***************************************************************************)
EXTENDS Analyzers

Bytes2(n) == <<n \div 256, n % 256>>
Counted1(bytes) == <<Len(bytes)>> \o bytes
Counted2(bytes) == Bytes2(Len(bytes)) \o bytes

\* A conversation of a valid protocol, with nothing special.
Conversation(name, req, resp, first, says) ==
    [analyzer |-> name, req |-> req, resp |-> resp, first |-> first, valid |-> TRUE,
     says |-> says, meanwhile |-> Nothing, ends |-> [dir \in Dirs |-> <<>>], open |-> FALSE]

\* It breaks off its protocol.
Broken(c) == [c EXCEPT !.valid = FALSE]

-----------------------------------------------------------------------------
(* SOCKS *)

Socks4 ==
    LET tell(rep, addr) == [addr |-> addr, addr_type |-> 1, port |-> 258] @@ rep
    IN Conversation("socks", <<4, 1, 1, 2, 9, 8, 7, 6, 50, 51, 0>>, <<0, 90, 1, 2, 9, 8, 7, 5>>, 11,
         [version |-> 4,
          req |-> tell([cmd |-> 1, auth |-> [user_id |-> <<50, 51>>]], <<9, 8, 7, 6>>),
          resp |-> tell([rep |-> 90], <<9, 8, 7, 5>>)])

Socks4a ==
    [Conversation("socks", <<4, 2, 1, 2, 0, 0, 0, 1, 0, 60, 61, 0>>, <<0, 91, 0, 1, 0, 0, 0, 0>>, 12,
         [version |-> 4,
          req |-> [cmd |-> 2, addr |-> <<60, 61>>, addr_type |-> 3, port |-> 258,
                   auth |-> [user_id |-> <<>>]],
          resp |-> [rep |-> 91, addr |-> <<0, 0, 0, 0>>, addr_type |-> 1, port |-> 1]])
       EXCEPT !.meanwhile = [addr |-> <<0, 0, 0, 1>>, addr_type |-> 1]]

\* A reply code that is none.
Socks4Refused == Broken([Socks4 EXCEPT !.resp[2] = 89])

\* Two methods are offered; the client's choice among them is method 0.
Socks5 ==
    LET req == [cmd |-> 1, addr_type |-> 1, addr |-> <<9, 8, 7, 6>>, port |-> 443,
                auth |-> [method |-> 0]]
        resp == [rep |-> 0, addr_type |-> 4, addr |-> [k \in 1..16 |-> k], port |-> 1,
                 auth |-> [method |-> 0]]
    IN Conversation("socks",
         <<5, 3, 77, 0, 2>> \o <<5, 1, 0, 1>> \o req.addr \o Bytes2(443),
         <<5, 0>> \o <<5, 0, 0, 4>> \o resp.addr \o Bytes2(1), 5,
         [version |-> 5, req |-> req, resp |-> resp])

\* A user, a password and a domain.
Socks5Auth ==
    LET req == [cmd |-> 1, addr_type |-> 3, addr |-> <<70, 71, 72>>, port |-> 80,
                auth |-> [method |-> 2, username |-> <<50>>, password |-> <<60, 61>>]]
        resp == [rep |-> 0, addr_type |-> 1, addr |-> <<0, 0, 0, 0>>, port |-> 0,
                 auth |-> [method |-> 2, status |-> 0]]
    IN Conversation("socks",
         <<5>> \o Counted1(<<2, 0>>) \o <<1>> \o Counted1(<<50>>) \o Counted1(<<60, 61>>)
           \o <<5, 1, 0, 3>> \o Counted1(req.addr) \o Bytes2(80),
         <<5, 2, 1, 0>> \o <<5, 0, 0, 1, 0, 0, 0, 0, 0, 0>>, 4,
         [version |-> 5, req |-> req, resp |-> resp])

\* No method the analyzer knows; something else altogether.
Socks5Unknown == Broken([Socks5 EXCEPT !.req = <<5, 1, 9, 5, 1, 0, 1>>, !.resp = <<5, 9>>])
NotSocks == Broken([Socks4 EXCEPT !.req = <<71, 69, 84>>, !.resp = <<72>>])

-----------------------------------------------------------------------------
(* HTTP and SSH *)

Request(headers) == <<"GET", " ", "/", "a", " ", "HTTP/", "1.1">> \o CRLF \o headers \o CRLF
Response(headers) == <<"HTTP/", "1.1", " ", "200", " ", "OK">> \o CRLF \o headers \o CRLF
Host == <<"Host", " ", ":", " ", "x", ":", "8", " ">> \o CRLF

RequestLine == [method |-> <<"GET">>, path |-> <<"/", "a">>, version |-> <<"HTTP/", "1.1">>]
ResponseLine == [version |-> <<"HTTP/", "1.1">>, status |-> <<"200">>]

HTTPHost ==
    Conversation("http",
        Request(Host \o <<"A", ":">> \o CRLF), Response(Host \o Host) \o <<"body">>, 7,
        [req |-> [headers |-> (<<"host">> :> <<"x", ":", "8">>) @@ (<<"A">> :> <<>>)] @@ RequestLine,
         resp |-> [headers |-> <<"host">> :> <<"x", ":", "8">>] @@ ResponseLine])

\* Without headers there is one line end only behind the line.
HTTPBare ==
    [Conversation("http", Request(<<>>), Response(<<>>) \o <<"body">>, 7,
        [req |-> RequestLine, resp |-> ResponseLine])
       EXCEPT !.open = TRUE]

\* A header without a colon; something else altogether.
HTTPBadHeader == Broken([HTTPHost EXCEPT !.resp = Response(<<"Host">> \o CRLF)])
NotHTTP == Broken([HTTPHost EXCEPT !.req = <<"EHLO", " ", "x">> \o CRLF, !.resp = <<"250">>])

SSH ==
    Conversation("ssh",
        <<"SSH", "-", "2.0", "-", "a", "-", "1", " ", "c">> \o CRLF \o <<"kex">>,
        <<"SSH", "-", "1.99", "-", "b">> \o CRLF, 0,
        [client |-> [protocol |-> <<"2.0">>, software |-> <<"a", "-", "1">>, comments |-> <<"c">>],
         server |-> [protocol |-> <<"1.99">>, software |-> <<"b">>]])
SSHNoSoftware == Broken([SSH EXCEPT !.resp = <<"SSH", "-", "2.0">> \o CRLF])
SSHTooMuch == Broken([SSH EXCEPT !.req = <<"SSH", "-", "2.0", "-", "a", " ", "c", " ", "d">> \o CRLF])

-----------------------------------------------------------------------------
(* TLS, with a random of one byte *)

Ext(type, data) == Bytes2(type) \o Counted2(data)
Handshake(type, body) == <<type, 0>> \o Counted2(body)
TLSMessage(type, body) == <<22, 3, 1>> \o Counted2(Handshake(type, body))

BareBody == <<3, 3, 99>> \o Counted1(<<7>>) \o Counted2(<<19, 1, 19, 2>>) \o Counted1(<<0>>)
ClientBody(exts) == BareBody \o Counted2(exts)
ClientHello(exts) == TLSMessage(1, ClientBody(exts))
ServerHello(exts) == TLSMessage(2, <<3, 3, 98>> \o Counted1(<<>>) \o <<19, 1>> \o <<0>> \o Counted2(exts))

ClientSays ==
    [version |-> 771, random |-> <<99>>, session |-> <<7>>, ciphers |-> <<4865, 4866>>,
     cipher_count |-> 2, compression |-> <<0>>]
ServerSays == [version |-> 771, random |-> <<98>>, session |-> <<>>, cipher |-> 4865, compression |-> 0]

TLSHellos ==
    Conversation("tls",
        ClientHello(Ext(0, Counted2(<<0>> \o Counted2(<<97, 98>>)))
                    \o Ext(16, Counted2(Counted1(<<104>>) \o Counted1(<<>>)))
                    \o Ext(43, Counted1(<<3, 4>>)) \o Ext(21, <<0>>)),
        ServerHello(Ext(43, <<3, 4>>)) \o <<22>>, 9,
        [req |-> [sni |-> <<97, 98>>, alpn |-> <<<<104>>, <<>>>>, supported_versions |-> <<772>>,
                  ech |-> FALSE, extension_types |-> <<0, 16, 43, 21>>] @@ ClientSays,
         resp |-> [supported_versions |-> 772] @@ ServerSays])

\* Groups, point formats and signature algorithms, which rules never see, and
\* ECH, which they do.
TLSGroups ==
    Conversation("tls",
        ClientHello(Ext(10, Counted2(<<0, 29>>)) \o Ext(11, Counted1(<<0>>))
                    \o Ext(13, Counted2(<<4, 3>>)) \o Ext(65037, <<>>)),
        ServerHello(<<>>), 9,
        [req |-> [ech |-> TRUE, extension_types |-> <<10, 11, 13, 65037>>] @@ ClientSays,
         resp |-> ServerSays])

\* No extensions at all.
TLSBare ==
    Conversation("tls",
        TLSMessage(1, BareBody), TLSMessage(2, <<3, 3, 98>> \o Counted1(<<>>) \o <<19, 1, 0>>), 9,
        [req |-> [ech |-> FALSE, extension_types |-> <<>>] @@ ClientSays, resp |-> ServerSays])

\* A name longer than its extension; a record that is no handshake.
TLSBadName == Broken([TLSHellos EXCEPT !.req = ClientHello(Ext(0, <<0, 5, 0, 0, 9, 97>>))])
NotTLS == Broken([TLSHellos EXCEPT !.req[1] = 23, !.resp = <<>>])

-----------------------------------------------------------------------------
(* DNS and OpenVPN over TCP *)

\* Messages behind one another, and where they end.
Ends(messages) ==
    [k \in DOMAIN messages |-> FoldLeft(LAMBDA n, m : n + Len(m), 0, SubSeq(messages, 1, k))]
Messages(name, req, resp, first) ==
    [Conversation(name, FlattenSeq(req), FlattenSeq(resp), first, Nothing)
       EXCEPT !.ends = [req |-> Ends(req), resp |-> Ends(resp)]]

\* Anything that starts with a byte from 100 on.
MCIsDNS(bytes) == bytes # <<>> /\ bytes[1] >= 100

DNSTalk ==
    Messages("dns", <<Counted2(<<100, 1, 2>>), Counted2(<<101>>), Counted2(<<102, 3>>)>>,
                    <<Counted2(<<110, 1>>), Counted2(<<111, 4, 4>>)>>, 5)
NotDNS == Broken([DNSTalk EXCEPT !.resp = @ \o Counted2(<<9, 9>>)])

Packet(opcode) == Counted2(<<8 * opcode + 3, 5>>)
OpenVPNTalk ==
    Messages("openvpn", <<Packet(7), Packet(5), Packet(4), Packet(9)>>,
                        <<Packet(8), Packet(4), Counted2(<<48, 1, 2>>)>>, 4)
NotOpenVPN == Broken([OpenVPNTalk EXCEPT !.req = Packet(7) \o <<0, 2, 255, 0>>, !.ends.req = <<4>>])
ShortOpenVPN == Broken([OpenVPNTalk EXCEPT !.req = Packet(10) \o <<0, 1, 32>>, !.ends.req = <<4>>])

-----------------------------------------------------------------------------

MCConversations ==
    <<Socks4, Socks4a, Socks4Refused, Socks5, Socks5Auth, Socks5Unknown, NotSocks,
      HTTPHost, HTTPBare, HTTPBadHeader, NotHTTP, SSH, SSHNoSoftware, SSHTooMuch,
      TLSHellos, TLSGroups, TLSBare, TLSBadName, NotTLS, DNSTalk, NotDNS, OpenVPNTalk, NotOpenVPN, ShortOpenVPN>>

MCChunkSizes == {1, 2, 3, 7}

MCLowerCase(words) == IF words = <<"Host">> THEN <<"host">> ELSE words
MCNumbers == {<<"200">>}

WGPacket(type, rev, sender, receiver) ==
    [type |-> type, rev |-> rev, sender |-> sender, receiver |-> receiver]
WGPackets ==
    {WGPacket("bad", FALSE, 0, 0), WGPacket("packet_cookie_reply", TRUE, 0, 1)} \cup
    UNION {{WGPacket("handshake_initiation", rev, n, 0), WGPacket("handshake_response", rev, n, 1),
            WGPacket("packet_data", rev, 0, n)} : rev \in BOOLEAN, n \in {1, 2}}

\* A hello in three pieces, each in a frame of its own or behind one another,
\* in packets that hold some of them in any order.
MCHello == [bytes |-> Handshake(1, ClientBody(Ext(43, Counted1(<<3, 4>>)))),
            says |-> [supported_versions |-> <<772>>, ech |-> FALSE,
                      extension_types |-> <<43>>] @@ ClientSays]
Piece_(from, to) ==
    [type |-> "crypto", offset |-> from - 1, data |-> SubSeq(MCHello.bytes, from, to)]
Pieces3 == {Piece_(1, 6), Piece_(7, 14), Piece_(15, Len(MCHello.bytes))}
Frame(type) == [type |-> type, offset |-> 0, data |-> <<>>]
QUICPacket(rev, readable, frames) == [rev |-> rev, readable |-> readable, frames |-> frames]
QUICPackets ==
    {QUICPacket(FALSE, TRUE, frames) : frames \in SetToAllKPermutations(Pieces3)}
    \cup {QUICPacket(FALSE, TRUE, <<Frame("ping"), Piece_(1, Len(MCHello.bytes)), Frame("padding")>>),
          QUICPacket(FALSE, TRUE, <<Piece_(1, Len(MCHello.bytes)), Frame("ack")>>),
          QUICPacket(FALSE, FALSE, <<Piece_(1, Len(MCHello.bytes))>>),
          QUICPacket(TRUE, TRUE, <<Piece_(1, Len(MCHello.bytes))>>)}

Times(byte, n) == [k \in 1..n |-> byte]
FETData ==
    {<<71, 69, 84, 200>>, Times(65, 6) \o Times(139, 9), Times(139, 3),
     Times(139, 1) \o Times(101, 3) \o Times(139, 1) \o Times(101, 2) \o Times(139, 6)}
    \cup {Times(139, 30) \o Times(101, n) \o Times(139, 2) \o <<101>> : n \in 19..22}

MCPacketsOf ==
    [wireguard |-> WGPackets,
     udpflow |-> [rev : BOOLEAN, len : {0, 64, 1025}, time : {0, 30}],
     dns_udp |-> [data : {<<0>>, <<100>>, <<101>>}],
     openvpn_udp |-> [rev : BOOLEAN, byte : {8 * op + 1 : op \in {7, 8, 4, 0}}],
     trojan |-> [rev : {FALSE}, form : {"ccs"}, len : {14}] \cup
                [rev : BOOLEAN, form : {"record", "other"}, len : {3}] \cup
                [rev : BOOLEAN, form : {"other"}, len : {5}],
     quic |-> QUICPackets,
     fet |-> [data : FETData]]
MCMaxPackets ==
    [wireguard |-> 5, udpflow |-> 4, dns_udp |-> 6, openvpn_udp |-> 6, trojan |-> 6, quic |-> 3, fet |-> 1]

MCIsTrojanSeq(seq) == seq[1] > 14
=============================================================================
