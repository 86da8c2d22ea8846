--------------------------- MODULE SocksAnalyzer ----------------------------
(***************************************************************************)
(* The SOCKS analyzer (analyzer/tcp/socks.go): versions 4, 4a and 5, with  *)
(* the version found in the request, and steps added to both machines once *)
(* it is known.                                                            *)
(***************************************************************************)
EXTENDS ByteStream

Socks4Version == 4
Socks5Version == 5
NoMatchingMethod == 255
AddrTypeIPv4 == 1
AddrTypeDomain == 3
AddrTypeIPv6 == 4

SocksStream ==
    NewStream("socks", <<"socks.reqVersion">>, <<"socks.respVersion">>,
              [version |-> "invalid", reqMethod |-> 0, respMethod |-> 0])

\* s.reqMap[key] = value for every key of m.
Tell(s, dir, m) == [s EXCEPT !.map[dir] = m @@ @, !.updated[dir] = TRUE]

SocksReqVersion(s) ==
    LET ver == s.buf["req"][1]
        r == [Skip(s, "req", 1) EXCEPT !.map["req"] = Nothing, !.updated["req"] = TRUE]
    IN Given(s, "req", 1,
         IF ver = Socks4Version
         THEN Next_(AppendSteps([r EXCEPT !.mem.version = "4"], "req",
                  <<"socks4.ipAndPort", "socks4.userId", "socks4.hostname">>))
         ELSE IF ver = Socks5Version
         THEN Next_(AppendSteps([r EXCEPT !.mem.version = "5"], "req",
                  <<"socks5.reqMethod", "socks5.reqAuth", "socks5.reqConnInfo">>))
         ELSE Cancel(Skip(s, "req", 1)))

\* A response before the version is known is not parsed.
SocksRespVersion(s) ==
    LET ver == s.buf["resp"][1]
        r == Skip(s, "resp", 1)
    IN Given(s, "resp", 1,
         IF s.mem.version \in {"4", "4a"} /\ ver = 0
         THEN Next_(AppendSteps(r, "resp", <<"socks4.respPacket">>))
         ELSE IF s.mem.version = "5" /\ ver = Socks5Version
         THEN Next_(AppendSteps(r, "resp",
                  <<"socks5.respMethod", "socks5.respAuth", "socks5.respConnInfo">>))
         ELSE Cancel(r))

\* The number of methods is taken off the buffer before they are there.
Socks5ReqMethodConsuming(s) ==
    LET count == s.buf["req"][1]
        r == Skip(s, "req", 1)
        known == SelectSeq(SubSeq(r.buf["req"], 1, count), LAMBDA method : method \in {0, 2})
    IN Given(s, "req", 1, Given(r, "req", count,
         Next_([Skip(r, "req", count) EXCEPT
                  !.mem.reqMethod = IF known = <<>> THEN NoMatchingMethod ELSE known[1]])))

\* The first method on the list that can be processed.
Socks5ReqMethod(s) ==
    LET methods == SubSeq(s.buf["req"], 2, s.buf["req"][1] + 1)
        known == SelectSeq(methods, LAMBDA method : method \in {0, 2})
    IN Given(s, "req", 1, Given(s, "req", s.buf["req"][1] + 1,
         Next_([Skip(s, "req", Len(methods) + 1) EXCEPT
                  !.mem.reqMethod = IF known = <<>> THEN NoMatchingMethod ELSE known[1]])))

Socks5ReqAuth(s) ==
    LET b == s.buf["req"]
        user == b[2]
        password == b[user + 3]
        auth == [method |-> 2, username |-> SubSeq(b, 3, user + 2),
                 password |-> SubSeq(b, user + 4, user + password + 3)]
    IN CASE s.mem.reqMethod = 0 -> Next_(Tell(s, "req", "auth" :> [method |-> 0]))
         [] s.mem.reqMethod = 2 ->
              Given(s, "req", 2,
                IF b[1] # 1 THEN Cancel(s)
                ELSE Given(s, "req", user + 3, Given(s, "req", user + password + 3,
                       Next_(Tell(Skip(s, "req", user + password + 3), "req", "auth" :> auth)))))
         [] OTHER -> Cancel(s)

\* The byte with a domain's length is not counted.
PacketLenShort(b) ==
    CASE b[4] = AddrTypeIPv4 -> 10
      [] b[4] = AddrTypeDomain -> 6 + b[5]
      [] b[4] = AddrTypeIPv6 -> 22

\* The length of a packet with an address, from its first five bytes.
PacketLen(b) ==
    CASE b[4] = AddrTypeIPv4 -> 10
      [] b[4] = AddrTypeDomain -> 7 + b[5]
      [] b[4] = AddrTypeIPv6 -> 22

\* A domain's end is computed in a byte: from 251 bytes on it wraps around, and
\* the slice panics.
DomainEnd(b) == (5 + b[5]) % 256
Panics(b) == b[4] = AddrTypeDomain /\ DomainEnd(b) < 5

Address(b) ==
    CASE b[4] = AddrTypeIPv4 -> SubSeq(b, 5, 8)
      [] b[4] = AddrTypeDomain -> SubSeq(b, 6, DomainEnd(b))
      [] b[4] = AddrTypeIPv6 -> SubSeq(b, 5, 20)

AddressInfo(b) ==
    [addr_type |-> b[4], addr |-> Address(b), port |-> Uint16(b, PacketLen(b) - 1)]

ConnInfoStart(s, dir, parsed) ==
    Given(s, dir, 5,
      IF s.buf[dir][1] # Socks5Version
         \/ s.buf[dir][4] \notin {AddrTypeIPv4, AddrTypeDomain, AddrTypeIPv6}
      THEN Cancel(s) ELSE Given(s, dir, PacketLen(s.buf[dir]), parsed))

Socks5ReqConnInfo(s) ==
    LET b == s.buf["req"]
        r == Skip(s, "req", PacketLen(b))
    IN ConnInfoStart(s, "req",
         IF b[2] \notin {1, 2, 3} THEN Cancel(r)
         ELSE IF Panics(b) THEN [r EXCEPT !.says = "panic"]
         ELSE Next_(Tell(r, "req", ("cmd" :> b[2]) @@ AddressInfo(b))))

Socks5RespMethod(s) ==
    Given(s, "resp", 1,
      Next_([Skip(s, "resp", 1) EXCEPT !.mem.respMethod = s.buf["resp"][1],
                                       !.map["resp"] = Nothing]))

Socks5RespAuth(s) ==
    LET b == s.buf["resp"]
    IN CASE s.mem.respMethod = 0 -> Next_(Tell(s, "resp", "auth" :> [method |-> 0]))
         [] s.mem.respMethod = 2 ->
              Given(s, "resp", 2,
                IF b[1] # 1 THEN Cancel(Skip(s, "resp", 2))
                ELSE Next_(Tell(Skip(s, "resp", 2), "resp",
                                "auth" :> [method |-> 2, status |-> b[2]])))
         [] OTHER -> Cancel(s)

Socks5RespConnInfo(s) ==
    LET b == s.buf["resp"]
        r == Skip(s, "resp", PacketLen(b))
    IN ConnInfoStart(s, "resp",
         IF Panics(b) THEN [r EXCEPT !.says = "panic"]
         ELSE Next_(Tell(r, "resp", ("rep" :> b[2]) @@ AddressInfo(b))))

\* What stands behind the version in version 4, and the 4a extension.
Socks4ReqIpAndPort(s) ==
    LET b == s.buf["req"]
        r == Skip(s, "req", 7)
    IN Given(s, "req", 7,
         IF b[1] \notin {1, 2} THEN Cancel(r)
         ELSE Next_(Tell([r EXCEPT !.mem.version = IF SubSeq(b, 4, 6) = <<0, 0, 0>> THEN "4a" ELSE @],
                "req", [cmd |-> b[1], addr |-> SubSeq(b, 4, 7), addr_type |-> AddrTypeIPv4,
                        port |-> Uint16(b, 2)])))

Socks4ReqUserId(s) ==
    IF Places(s, "req", <<0>>) = {} THEN Pause(s)
    ELSE Next_(Tell(Behind(s, "req", <<0>>), "req",
                    "auth" :> [user_id |-> Before(s, "req", <<0>>)]))

Socks4ReqHostname(s) ==
    IF s.mem.version # "4a" THEN Next_(s)
    ELSE IF Places(s, "req", <<0>>) = {} THEN Pause(s)
    ELSE Next_(Tell(Behind(s, "req", <<0>>), "req",
                    [addr |-> Before(s, "req", <<0>>), addr_type |-> AddrTypeDomain]))

Socks4RespPacket(s) ==
    LET b == s.buf["resp"]
        r == Skip(s, "resp", 7)
    IN Given(s, "resp", 7,
         IF b[1] \notin 90..93 THEN Cancel(r)
         ELSE Next_([r EXCEPT !.updated["resp"] = TRUE,
                !.map["resp"] = [rep |-> b[1], addr |-> SubSeq(b, 4, 7),
                                 addr_type |-> AddrTypeIPv4, port |-> Uint16(b, 2)]]))

SocksParse(step, s) ==
    CASE step = "socks.reqVersion" -> SocksReqVersion(s)
      [] step = "socks.respVersion" -> SocksRespVersion(s)
      [] step = "socks5.reqMethod" -> Socks5ReqMethod(s)
      [] step = "socks5.reqAuth" -> Socks5ReqAuth(s)
      [] step = "socks5.reqConnInfo" -> Socks5ReqConnInfo(s)
      [] step = "socks5.respMethod" -> Socks5RespMethod(s)
      [] step = "socks5.respAuth" -> Socks5RespAuth(s)
      [] step = "socks5.respConnInfo" -> Socks5RespConnInfo(s)
      [] step = "socks4.ipAndPort" -> Socks4ReqIpAndPort(s)
      [] step = "socks4.userId" -> Socks4ReqUserId(s)
      [] step = "socks4.hostname" -> Socks4ReqHostname(s)
      [] step = "socks4.respPacket" -> Socks4RespPacket(s)

\* The version a rule sees: 4a is a 4.
SocksVersion(s) ==
    CASE s.mem.version \in {"4", "4a"} -> 4
      [] s.mem.version = "5" -> 5
      [] OTHER -> 0

\* The update of a Feed: nothing, or what is merged into the properties.
SocksUpdate(s, dir) ==
    IF dir = "req" THEN [version |-> SocksVersion(s), req |-> s.map["req"]]
    ELSE [resp |-> s.map["resp"]]

=============================================================================
