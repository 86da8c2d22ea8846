---------------------------- MODULE QUICAnalyzer ----------------------------
(***************************************************************************)
(* The QUIC analyzer (analyzer/udp/quic.go): the ClientHello in the crypto *)
(* frames of one of the client's initial packets.  Headers and packet      *)
(* protection are left to whether a packet is readable.                    *)
(***************************************************************************)
EXTENDS TLSHello

CONSTANT QUICInvalidCountThreshold   \* 4 in the code

QUICStream == [invalidCount |-> 0, reported |-> Nothing, done |-> FALSE]

\* extractCryptoFrames: padding and pings are passed over, any other frame
\* makes the packet unreadable.
Readable(p) ==
    p.readable /\ \A k \in DOMAIN p.frames : p.frames[k].type \in {"padding", "ping", "crypto"}
CryptoFrames(p) == SelectSeq(p.frames, LAMBDA frame : frame.type = "crypto")

\* assembleCryptoFrames: data of contiguous frames behind as many zeros as the
\* first offset says; a single frame is taken as it is; <<>> for nil.
Assemble(frames) ==
    LET sorted == SortSeq(frames, LAMBDA f, g : f.offset < g.offset)
        zeros == [k \in 1..sorted[1].offset |-> 0]
    IN IF Len(frames) < 2 THEN FlattenSeq([k \in DOMAIN frames |-> frames[k].data])
       ELSE IF \E k \in 2..Len(sorted) :
                  sorted[k].offset # sorted[k - 1].offset + Len(sorted[k - 1].data)
       THEN <<>>
       ELSE zeros \o FlattenSeq([k \in DOMAIN sorted |-> sorted[k].data])

\* A payload that is not the start of a long enough ClientHello, or one that
\* cannot be parsed, is Bad.
QUICHello(p) ==
    LET pl == Assemble(CryptoFrames(p))
    IN IF p.rev \/ ~Readable(p) THEN Bad
       ELSE IF Len(pl) < 4 THEN Bad
       ELSE IF pl[1] # TypeClientHello \/ pl[2] * 65536 + pl[3] * 256 + pl[4] < MinClientHello
       THEN Bad
       ELSE ParseClientHello(From(pl, 4))

QUICFeed(s, p) ==
    LET m == QUICHello(p)
    IN IF IsBad(m)
       THEN [s EXCEPT !.invalidCount = @ + 1,
                      !.done = s.invalidCount + 1 >= QUICInvalidCountThreshold]
       ELSE [s EXCEPT !.reported = [req |-> m], !.done = TRUE]

=============================================================================
