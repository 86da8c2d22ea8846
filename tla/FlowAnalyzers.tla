--------------------------- MODULE FlowAnalyzers ----------------------------
(***************************************************************************)
(* The analyzers that look at whole packets or segments: WireGuard and     *)
(* udpflow over UDP (analyzer/udp/wireguard.go, analyzer/udp/udpflow.go),  *)
(* Trojan and FET over TCP (analyzer/tcp/trojan.go, analyzer/tcp/fet.go).  *)
(***************************************************************************)
EXTENDS Naturals, Sequences, SequencesExt, TLC

CONSTANTS RememberedIndexCount,             \* 6 in the code
          WireGuardInvalidCountThreshold,   \* 4 in the code
          LongLivedThreshold,               \* 30 seconds in the code
          IsTrojanSeq(_)                    \* Trojan's decision tree over four lengths

ASSUME RingAssumption ==
    RememberedIndexCount \in Nat \ {0} /\ WireGuardInvalidCountThreshold \in Nat \ {0}

-----------------------------------------------------------------------------
(* WireGuard *)

Cells == 0..(RememberedIndexCount - 1)
NoIndex == [index |-> 0, rev |-> FALSE, set |-> FALSE]

\* The ring of remembered sender indexes, and the cell the next one goes to.
WireGuardStream ==
    [invalidCount |-> 0, ring |-> [c \in Cells |-> NoIndex], cell |-> 0,
     reported |-> <<>>, done |-> FALSE]

Prev(c) == (c + RememberedIndexCount - 1) % RememberedIndexCount

\* ring.Next, k times from the cell the next index goes to: the k-th youngest.
Younger(s, k) == s.ring[(s.cell + k) % RememberedIndexCount]

PutSenderIndex(s, rev, index) ==
    [s EXCEPT !.ring[s.cell] = [index |-> index, rev |-> rev, set |-> TRUE],
              !.cell = Prev(@)]

\* The oldest index is not looked at.
MatchReceiverIndexLess(s, rev, index) ==
    \E k \in 1..(RememberedIndexCount - 2) :
        /\ \A j \in 1..k : Younger(s, j).set
        /\ Younger(s, k).index = index /\ Younger(s, k).rev = ~rev

\* From the youngest until the cell the next index goes to, which is not
\* looked at, or one that was never set.
MatchReceiverIndex(s, rev, index) ==
    \E k \in 1..(RememberedIndexCount - 1) :
        /\ \A j \in 1..k : Younger(s, j).set
        /\ Younger(s, k).index = index /\ Younger(s, k).rev = ~rev

\* The properties of a packet: its type, and its fields by the type's name.
WireGuardMap(type, fields) ==
    [key \in {"message_type", type} |-> IF key = type THEN fields ELSE type]

\* PropUpdateMerge
Merged(new, old) ==
    [key \in DOMAIN new \cup DOMAIN old |-> IF key \in DOMAIN new THEN new[key] ELSE old[key]]

Sends(p) == p.type \in {"handshake_initiation", "handshake_response"}

\* A packet has a type, or is "bad": too short, of another size or type.  An
\* initiation replaces what was known.
WireGuardFeed(s, p) ==
    LET r == IF Sends(p) THEN PutSenderIndex(s, p.rev, p.sender) ELSE s
        matched == MatchReceiverIndex(r, p.rev, p.receiver)
    IN IF p.type = "bad"
       THEN [s EXCEPT !.invalidCount = @ + 1,
                      !.done = s.invalidCount + 1 >= WireGuardInvalidCountThreshold]
       ELSE [r EXCEPT !.invalidCount = 0, !.reported =
               CASE p.type = "handshake_initiation" ->
                       WireGuardMap(p.type, [sender_index |-> p.sender])
                 [] p.type = "handshake_response" ->
                       Merged(WireGuardMap(p.type,
                                [sender_index |-> p.sender, receiver_index |-> p.receiver,
                                 receiver_index_matched |-> matched]), @)
                 [] OTHER ->
                       Merged(WireGuardMap(p.type,
                                [receiver_index |-> p.receiver,
                                 receiver_index_matched |-> matched]), @)]

-----------------------------------------------------------------------------
(* udpflow *)

UDPFlowStream ==
    [packets |-> [tx |-> 0, rx |-> 0], bytes |-> [tx |-> 0, rx |-> 0],
     firstLen |-> [tx |-> 0, rx |-> 0], firstLens |-> <<>>,
     minLen |-> 0, maxLen |-> 0, lenBuckets |-> [b \in 0..7 |-> 0],
     lastDirection |-> "none", currentRun |-> 0, maxRun |-> 0, turns |-> 0,
     started |-> 0, lastSeen |-> 0]

PacketCount(s) == s.packets.tx + s.packets.rx

Larger(a, b) == IF a < b THEN b ELSE a

\* updateDirectionRun
DirectionRun(s, direction) ==
    LET run == IF s.lastDirection = direction THEN s.currentRun + 1 ELSE 1
    IN [s EXCEPT !.lastDirection = direction, !.currentRun = run,
                 !.maxRun = Larger(run, @),
                 !.turns = IF s.lastDirection \in {"none", direction} THEN @ ELSE @ + 1]

LenBounds == <<0, 64, 128, 256, 512, 1024, 1200>>
LenBucket(len) == Cardinality({k \in DOMAIN LenBounds : LenBounds[k] < len})

\* Zero stands for "none yet" in the first lengths and in the smallest one.
UDPFlowFeed(s, p) ==
    LET way == IF p.rev THEN "rx" ELSE "tx"
    IN [DirectionRun(s, way) EXCEPT
          !.started = IF PacketCount(s) = 0 THEN p.time ELSE @,
          !.lastSeen = p.time,
          !.packets[way] = @ + 1,
          !.bytes[way] = @ + p.len,
          !.firstLens = IF PacketCount(s) < 4 THEN Append(@, p.len) ELSE @,
          !.firstLen[way] = IF @ = 0 THEN p.len ELSE @,
          !.minLen = IF @ = 0 \/ p.len < @ THEN p.len ELSE @,
          !.maxLen = Larger(p.len, @),
          !.lenBuckets[LenBucket(p.len)] = @ + 1]

\* What propMap says a flow is, beside its counts: ratios compare counts.
UDPFlowProps(s) ==
    LET count == PacketCount(s)
    IN [packet_count |-> count,
        tx_dominant |-> 100 * s.packets.tx >= 80 * count,
        rx_dominant |-> 100 * s.packets.rx >= 80 * count,
        balanced |-> 100 * s.packets.tx >= 20 * count /\ 100 * s.packets.rx >= 20 * count,
        bidirectional |-> s.packets.tx > 0 /\ s.packets.rx > 0,
        large |-> s.lenBuckets[6] + s.lenBuckets[7],
        small |-> s.lenBuckets[1] + s.lenBuckets[2],
        long_lived |-> s.lastSeen - s.started >= LongLivedThreshold]

-----------------------------------------------------------------------------
(* Trojan *)

\* first is never set, so a connection that is not TLS is not sorted out.
TrojanStream ==
    [first |-> FALSE, count |-> FALSE, rev |-> FALSE, seq |-> <<0, 0, 0, 0>>, index |-> 1,
     reported |-> <<>>, done |-> FALSE]

\* A segment is a "ccs", which starts with the client's Change Cipher Spec, a
\* "record", which starts like a TLS record, or "other".
TrojanFeed(s, p) ==
    LET r == [s EXCEPT !.first = FALSE, !.count = @ \/ (~p.rev /\ p.form = "ccs")]
    IN IF s.first /\ (p.rev \/ p.form # "record") THEN [s EXCEPT !.first = FALSE, !.done = TRUE]
       ELSE IF ~r.count THEN r
       ELSE IF p.rev = r.rev THEN [r EXCEPT !.seq[r.index] = @ + p.len]
       ELSE IF r.index = 4
       THEN [r EXCEPT !.done = TRUE, !.reported = [seq |-> r.seq, yes |-> IsTrojanSeq(r.seq)]]
       ELSE [r EXCEPT !.index = @ + 1, !.seq[r.index + 1] = @ + p.len, !.rev = p.rev]

-----------------------------------------------------------------------------
(* FET *)

FETStream == [reported |-> <<>>, done |-> FALSE]

Printable(byte) == byte \in 32..126
PopCount(byte) == Cardinality({k \in 0..7 : (byte \div 2^k) % 2 = 1})

\* Counts over a segment; the code divides them by its length.
PopCounts(data) == FoldSeq(LAMBDA byte, n : PopCount(byte) + n, 0, data)
Printables(data) == Cardinality({k \in DOMAIN data : Printable(data[k])})

\* The longest printable stretch, in one pass.
ContiguousPrintable(data) ==
    FoldLeft(LAMBDA run, byte :
               LET now == IF Printable(byte) THEN run.now + 1 ELSE 0
               IN [now |-> now, max |-> Larger(now, run.max)],
             [now |-> 0, max |-> 0], data).max

FirstSixPrintable(data) == Len(data) >= 6 /\ \A k \in 1..6 : Printable(data[k])

\* The first three letters of GET, HEAD, POST, PUT, DELETE, CONNECT, OPTIONS,
\* TRACE and PATCH.
Methods ==
    {<<71, 69, 84>>, <<72, 69, 65>>, <<80, 79, 83>>, <<80, 85, 84>>, <<68, 69, 76>>,
     <<67, 79, 78>>, <<79, 80, 84>>, <<84, 82, 65>>, <<80, 65, 84>>}
TLSOrHTTP(data) ==
    /\ Len(data) >= 3
    /\ \/ data[1] \in 22..23 /\ data[2] = 3 /\ data[3] <= 9
       \/ SubSeq(data, 1, 3) \in Methods

Exempt(data) ==
    \/ 10 * PopCounts(data) <= 34 * Len(data) \/ 10 * PopCounts(data) >= 46 * Len(data)
    \/ FirstSixPrintable(data)
    \/ 2 * Printables(data) > Len(data)
    \/ ContiguousPrintable(data) > 20
    \/ TLSOrHTTP(data)

\* Only the first segment with data is looked at, whichever direction it has.
FETFeed(s, p) ==
    [reported |-> [ex4 |-> ContiguousPrintable(p.data), yes |-> ~Exempt(p.data)], done |-> TRUE]

=============================================================================
