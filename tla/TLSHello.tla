------------------------------ MODULE TLSHello ------------------------------
(***************************************************************************)
(* The TLS analyzer (analyzer/tcp/tls.go) and the hello messages it reads  *)
(* (analyzer/internal/tls.go), without the text of their fingerprints.     *)
(***************************************************************************)
EXTENDS ByteStream

CONSTANT RandomLen   \* bytes of a hello's random, 32 in TLS

ASSUME RandomAssumption == RandomLen \in Nat \ {0}

RecordTypeHandshake == 22
TypeClientHello == 1
TypeServerHello == 2
HeadersSize == 9

\* The shortest hellos: 41 and 38 bytes with a random of 32.
MinClientHello == RandomLen + 9
MinServerHello == RandomLen + 6

TLSStream ==
    NewStream("tls", <<"tls.clientPreprocess", "tls.clientData">>,
              <<"tls.serverPreprocess", "tls.serverData">>, [helloLen |-> [dir \in Dirs |-> 0]])

TLSPreprocess(s, dir, type, min) ==
    LET b == s.buf[dir]
        len == b[7] * 65536 + b[8] * 256 + b[9]
        r == Skip(s, dir, HeadersSize)
    IN Given(s, dir, HeadersSize,
         IF b[1] # RecordTypeHandshake \/ b[6] # type \/ len < min THEN Cancel(r)
         ELSE Next_([r EXCEPT !.mem.helloLen[dir] = len]))

-----------------------------------------------------------------------------
(* Hello messages.  A result is a property map, or Bad for nil. *)

Bad == [bad |-> TRUE]
IsBad(m) == "bad" \in DOMAIN m

\* Items of two bytes, or of one, to the end of the data.
Pairs(data) == [i \in 1..(Len(data) \div 2) |-> Uint16(data, 2 * i - 1)]
Even(data) == Len(data) % 2 = 0

From(data, n) == SubSeq(data, n + 1, Len(data))

\* The strings of an ALPN list, each behind its length.
Protocols(data) ==
    LET list[at \in 0..Len(data)] ==
            IF at = Len(data) THEN [alpn |-> <<>>]
            ELSE LET end == at + 1 + data[at + 1]
                 IN IF Len(data) < end THEN Bad
                    ELSE IF IsBad(list[end]) THEN Bad
                    ELSE [alpn |-> <<SubSeq(data, at + 2, end)>> \o list[end].alpn]
    IN list[0]

\* The property of one extension; unknown ones have none.
Extension(type, data) ==
    CASE type = 0 ->
           IF Len(data) < 5 \/ data[3] # 0 THEN Bad
           ELSE IF Len(data) < 5 + Uint16(data, 4) THEN Bad
           ELSE [sni |-> SubSeq(data, 6, 5 + Uint16(data, 4))]
      [] type = 16 ->
           IF Len(data) < 2 THEN Bad ELSE Protocols(From(data, 2))
      [] type = 10 ->
           IF Len(data) < 2 \/ ~Even(data) THEN Bad ELSE [supported_groups |-> Pairs(From(data, 2))]
      [] type = 11 ->
           IF Len(data) < 1 THEN Bad ELSE [ec_point_formats |-> From(data, 1)]
      [] type = 13 ->
           IF Len(data) < 2 \/ ~Even(data) THEN Bad ELSE [signature_algorithms |-> Pairs(From(data, 2))]
      [] type = 43 ->
           IF Len(data) = 2 THEN [supported_versions |-> Uint16(data, 1)]
           ELSE IF Len(data) < 1 \/ Even(data) THEN Bad
           ELSE [supported_versions |-> Pairs(From(data, 1))]
      [] type = 65037 -> [ech |-> TRUE]
      [] OTHER -> Nothing

\* All extensions of a hello, the later ones overwriting the earlier, and
\* their types.
Extensions(data) ==
    LET parsed[at \in 0..Len(data)] ==
            IF at = Len(data) THEN [m |-> Nothing, types |-> <<>>]
            ELSE IF Len(data) < at + 4 THEN Bad
            ELSE LET type == Uint16(data, at + 1)
                     end == at + 4 + Uint16(data, at + 3)
                     one == Extension(type, SubSeq(data, at + 5, end))
                 IN IF Len(data) < end THEN Bad
                    ELSE IF IsBad(one) \/ IsBad(parsed[end]) THEN Bad
                    ELSE [m |-> parsed[end].m @@ one, types |-> <<type>> \o parsed[end].types]
    IN parsed[0]

\* The place behind version, random and session.  The random is there in TLS,
\* as the shortest hello is longer; what is not there is not skipped.
RandomEnd(b) == IF Len(b) < RandomLen + 2 THEN 2 ELSE RandomLen + 2
StartLen(b) ==
    LET r == RandomEnd(b) IN IF Len(b) < r + 1 THEN r ELSE r + 1 + b[r + 1]

HelloStart(b) ==
    [version |-> Uint16(b, 1), random |-> SubSeq(b, 3, RandomEnd(b)),
     session |-> SubSeq(b, RandomEnd(b) + 2, StartLen(b))]

\* What a ClientHello's fingerprint leaves of its properties: three that only
\* the fingerprint needs are taken away, and ech is there in any case.
ClientFingerprint(m) ==
    [p \in (DOMAIN m \cup {"ech"})
            \ {"supported_groups", "ec_point_formats", "signature_algorithms"} |->
        IF p \in DOMAIN m THEN m[p] ELSE FALSE]

ParseClientHello(b) ==
    LET c == StartLen(b)
        suites == SubSeq(b, c + 3, c + 2 + Uint16(b, c + 1))
        k == c + 2 + Len(suites)
        e == k + 1 + b[k + 1]
        m == [ciphers |-> Pairs(suites), cipher_count |-> Len(suites) \div 2,
              compression |-> SubSeq(b, k + 2, e)] @@ HelloStart(b)
        exts == Extensions(SubSeq(b, e + 3, e + 2 + Uint16(b, e + 1)))
    IN IF Len(b) < c + 2 THEN Bad
       ELSE IF Len(b) < c + 2 + Uint16(b, c + 1) \/ ~Even(suites) THEN Bad
       ELSE IF Len(b) < k + 1 THEN Bad
       ELSE IF Len(b) < e THEN Bad
       ELSE IF Len(b) < e + 2 THEN ClientFingerprint([extension_types |-> <<>>] @@ m)
       ELSE IF Len(b) < e + 2 + Uint16(b, e + 1) \/ IsBad(exts) THEN Bad
       ELSE ClientFingerprint([extension_types |-> exts.types] @@ exts.m @@ m)

ParseServerHello(b) ==
    LET c == StartLen(b)
        m == [cipher |-> Uint16(b, c + 1), compression |-> b[c + 3]] @@ HelloStart(b)
        exts == Extensions(SubSeq(b, c + 6, c + 5 + Uint16(b, c + 4)))
    IN IF Len(b) < c + 3 THEN Bad
       ELSE IF Len(b) < c + 5 THEN m
       ELSE IF Len(b) < c + 5 + Uint16(b, c + 4) \/ IsBad(exts) THEN Bad
       ELSE exts.m @@ m

-----------------------------------------------------------------------------

TLSData(s, dir) ==
    LET len == s.mem.helloLen[dir]
        hello == Get(s, dir, len)
        m == IF dir = "req" THEN ParseClientHello(hello) ELSE ParseServerHello(hello)
        r == Skip(s, dir, len)
    IN Given(s, dir, len,
         IF IsBad(m) THEN Cancel(r)
         ELSE Next_([r EXCEPT !.map[dir] = m, !.updated[dir] = TRUE]))

TLSParse(step, s) ==
    CASE step = "tls.clientPreprocess" -> TLSPreprocess(s, "req", TypeClientHello, MinClientHello)
      [] step = "tls.clientData" -> TLSData(s, "req")
      [] step = "tls.serverPreprocess" -> TLSPreprocess(s, "resp", TypeServerHello, MinServerHello)
      [] step = "tls.serverData" -> TLSData(s, "resp")

TLSUpdate(s, dir) == IF dir = "req" THEN [req |-> s.map["req"]] ELSE [resp |-> s.map["resp"]]

=============================================================================
