# OpenGFW-Next in TLA+

OpenGFW-Next inspects the traffic of a gateway or of a mirror port, matches every stream against a
ruleset and accepts, drops or modifies packets; it logs and reports what the rules hit, adds the hits
up to a risk per machine, and can quarantine a machine in Open vSwitch. This directory holds TLA+
modules of the parts whose behaviour depends on order, time and concurrency, configurations that
check them with TLC, and proofs that TLAPS checks. `PROJECT.json` lists the components, the runs, the
mutants that show each property can fail, the source lines every definition stands for, the hazards
the properties are aimed at, the findings, and the theorems.

All modules are written from the Go code. Paths below are relative to `src/`.

## 1. Inventory

### The data path

| Part | State | Operations | What is hard | What makes it correct |
|---|---|---|---|---|
| Packet IO (`io/nfqueue.go`, `io/afpacket.go`, `io/pcap.go`) | sockets, ring of blocks, firewall rules, counters | `Register` starts a reader that calls back for every packet, `SetVerdict`, `Close` | readers that have to stop, a ring shared with the kernel, verdicts that are remembered as connection marks, a set-up of several steps | packets in order, a verdict for every packet, nothing read after `Close`, no rules left behind |
| Engine (`engine/engine.go`) | workers, the error channel, contexts | `Run`, `UpdateRuleset`, `dispatch` | cancellation from three sides, one slow worker holds up all | packets of a stream in order and once, `Run` returns |
| Worker (`engine/worker.go`) | `packetChan`, flush ticker | `Feed`, `Run`, `handle`, `UpdateRuleset` | full queues, stopping with packets queued, reload between two packets | every packet gets its verdict, the loop ends when told |
| UDP streams (`engine/udp.go`) | LRU table by stream ID, a state per stream | packet, reload | hash collisions, evictions, limits, `done` and verdicts in one packet | analyzer contract, every stream matched at least once, a final verdict is kept |
| TCP streams (`engine/tcp.go`) | stream pool, reassembly buffers, a state per stream | packet, flush, end of the connection, reload | out of order data, pages that wait with the context of an old packet, flushes without a packet | the same, and the verdict reaches the IO |
| Property helpers (`engine/utils.go`) | analyzers' property maps | merge, replace, delete | maps shared with loggers | an update is reported exactly when something changed |
| Ruleset (`ruleset/`) | compiled rules, immutable | `Match`, `Analyzers` | order of rules, rules that only log, failing expressions | first match wins, a failing rule does not end the matching |
| Analyzers (`analyzer/`) | a parser state per stream and direction | `Feed`, `Close` | gaps, segments cut anywhere, directions captured in any order, counters and rings at their limits | rules see what the peers said, wherever it was cut |
| Modifiers (`modifier/`) | none | `Process` | - | a packet of the same question |

`io` reads a packet and calls `engine.dispatch`, which hands it to `worker.Feed` of the worker its
stream ID selects. The worker takes it from its channel, looks its stream up or creates it, feeds the
analyzers of the stream, asks the ruleset when properties changed or the stream is new, and passes a
verdict to `io.SetVerdict`. The flush ticker of the worker delivers TCP data that waited too long.

### The control path

| Part | State | Operations | What is hard | What makes it correct |
|---|---|---|---|---|
| Program (`cmd/root.go`) | contexts, signal channels | start, SIGHUP, SIGTERM, deferred closes | reload while workers create streams, signals in the middle of a reload | one ruleset everywhere after a reload, no signal lost |
| Rule hit logging (`rulesetLogger` in `cmd/root.go`) | none | `Log` | called by all workers at once | allowlist, identity, alert and risk in this order |
| Alert sink (`cmd/alert.go`) | bounded queue, one goroutine | `Emit`, `Close` | full queue, slow webhook, sharing the properties of a live stream | no worker waits for it |
| Allowlist (`cmd/allowlist.go`) | sets of machines, addresses, rules and domains, loaded once | `Match` | who a machine is depends on an inventory that changes | one entry that fits suffices, and nothing it names is acted against |
| Risk aggregator (`cmd/risk.go`) | a bucket of hits per machine | `Add`, `BucketCount` | many workers around a lock, time read before it, pruning by the metrics endpoint | one event per crossing, none missed |
| Response sink (`cmd/response.go`) | bounded queue, one goroutine, time of the last attempt | `Emit`, `Quarantine`, `Close` | two commands per machine that fail or hang, the switch forgets by itself, restart | an applied quarantine holds, `Close` returns |
| `ovs-quarantine` (`cmd/ovs_quarantine.go`) | none | `list`, `release`, `clear` | works on the flows of the running program | - |
| Identity inventory (`cmd/identity.go`) | static and discovered machines, refresh goroutine | `Enrich`, refresh, `Close` | replacement during lookups, failing refresh | old or new inventory, never a mix |
| Metrics (`cmd/metrics.go`) | counters | scrape, drop monitor | two readers of counters that reset on read | nothing is counted twice or lost |
| Datasets (`cmd/datasets.go`) | none | load at start | - | - |

## 2. Modules

| Module | Models | Checked by | Proofs |
|---|---|---|---|
| `StreamTypes` | verdicts, actions, the life of an analyzer stream | used by the stream modules and `NFQueue` | - |
| `UDPStreams` | `engine/udp.go`, the UDP half of `worker.handle` | `MCUDPStreams` | `UDPStreams_proofs` |
| `TCPStreams` | `engine/tcp.go`, the TCP half of `worker.handle`, `flush` | `MCTCPStreams` | `TCPStreams_proofs` |
| `PacketFlow` | what the engine promises about packets (abstract) | as a property of `Engine` | `Engine_proofs` (its safety part) |
| `Engine` | `engine/engine.go`, the queues and loops of `engine/worker.go`, the end of `io/pcap.go` | `MCEngine` | `Engine_proofs` |
| `PacketIOLife` | the life of the one packet IO of a program | used by the two below | - |
| `AFPacket` | `io/afpacket.go` | `MCPacketIO` | `PacketIO_proofs` |
| `NFQueue` | `io/nfqueue.go` | `MCPacketIO` | `PacketIO_proofs` |
| `PacketIO` | both, as `io.mode` selects one | `MCPacketIO` | `PacketIO_proofs` |
| `RulesetReload` | the reload goroutine of `cmd/root.go`, `UpdateRuleset` of engine, worker and factories | itself | `Engine_proofs` |
| `Identity` | `cmd/identity.go` | `MCInspection` | `Inspection_proofs` |
| `Inspection` | `ruleset/expr.go`, `rulesetLogger` and `runMain` of `cmd/root.go`, `cmd/allowlist.go`, `cmd/alert.go`, with `Identity` | `MCInspection` | `Inspection_proofs` |
| `RiskAggregator` | `cmd/risk.go` | `MCRiskAggregator` | `RiskAggregator_proofs` |
| `ResponseSink` | `cmd/response.go`, `cmd/ovs_quarantine.go` next to it | `MCResponseSink` | `ResponseSink_proofs` |
| `ByteStream` | `analyzer/utils`: the byte buffer and what a parse function says | used by the analyzers below | - |
| `SocksAnalyzer` | `analyzer/tcp/socks.go` | `MCAnalyzers` | - |
| `TextAnalyzers` | `analyzer/tcp/http.go`, `analyzer/tcp/ssh.go` | `MCAnalyzers` | - |
| `TLSHello` | `analyzer/tcp/tls.go`, `analyzer/internal/tls.go` | `MCAnalyzers` | - |
| `DNSAnalyzer` | `analyzer/udp/dns.go`, both transports | `MCAnalyzers` | `Analyzers_proofs` (over UDP) |
| `OpenVPNAnalyzer` | `analyzer/udp/openvpn.go`, both transports | `MCAnalyzers` | `Analyzers_proofs` (over UDP) |
| `QUICAnalyzer` | `analyzer/udp/quic.go`, the frames of `udp/internal/quic` | `MCAnalyzers` | - |
| `FlowAnalyzers` | `udp/wireguard.go`, `udp/udpflow.go`, `tcp/fet.go`, the counting of `tcp/trojan.go` | `MCAnalyzers` | `Analyzers_proofs` |
| `Analyzers` | one stream of any analyzer above as the engine feeds it; the linear state machine | `MCAnalyzers` | `Analyzers_proofs` (streams of packets) |

**StreamTypes.** `AfterFeed` and `AfterClose` follow one analyzer stream through the calls the engine
makes. A call that `analyzer/interface.go` does not allow (a feed after done, a second close) moves it to
`"misused"`, from where there is no way back, so that one invariant sees every misuse.

**UDPStreams.** One worker. A worker is one goroutine, so a packet is one step (`Packet`): `Touch` and
`Store` are the LRU table (`newUDPStreamManager`, `MatchWithContext`), `Replay` is the path of a stream that
does not accept packets any more, `Inspect` the other one: `FeedEntries`, the match, `ApplyAction`,
`AcceptIfAllDone`, in the code's order. What an analyzer reports, and what the ruleset answers, are inputs;
the answers are drawn from the actions the ruleset of *this* stream can give. The LRU cache is a library;
it is modelled from its use, with an eviction that nobody is told of. The payload is its length. `out`
is what the worker handed to the IO last, with the cause, so that properties can speak about a single
packet.

**TCPStreams.** One connection; connections share only the ruleset and the total number of buffered pages
(the `crowded` input). The reassembler is a library, modelled from how `worker.handle` and
`tcp.go` use it: a packet brings nothing new, is kept as a page, is delivered at once with the pages
that follow, or makes the buffer overflow; a flush delivers pages with the context they were kept with. A
context is represented by the only field the engine writes, its verdict. The copy of the verdict
in the context and the one in the stream are separate in the model as in the code, because that is where
they come apart.

**PacketFlow and Engine.** `PacketFlow` says: the packets of one stream are judged in order, once, all of
them unless the engine is shut down. `Engine` has the reader, the queues, the workers, `Run` and the
contexts as separate processes. The refinement maps the waiting packets of a stream to what is in the
hands of its worker, in that worker's queue and in the hands of the reader, in this order.
`finite` tells a capture file, which ends the run by itself, from a live IO, which stops when it sees its
context done. The second the code sleeps after the last packet of a file is not modelled as a bound on
anything.

**PacketIOLife, AFPacket, NFQueue, PacketIO.** A program has one packet IO; `kind` says which, and `life`
follows it from its creation over `Register` to `Close`, which `runMain` calls when the engine has returned,
whether or not the reader has stopped. Every step of opening can fail.

`AFPacket` has the kernel and the reader as processes around the blocks of a TPACKET_V3 ring. A block has an
owner, the number the kernel gave it and its frames. The scan of `registerRing` is taken block by block and
frame by frame: its start moves with every block that is processed while its offset goes on counting
(`Scanned`), as in the code, so with several blocks ready it jumps. Looking at the ring after `Close` has
unmapped it is a step of its own (`Fault`), which ends the process. The plain socket is a queue of the
kernel and a reader that looks at its context only after a failing read. The callback that delivers a packet ends in
`worker.Feed`, so a reader that delivered one is in it (`calling`) until `CallbackReturns`, and that may never happen once the
workers have stopped (finding `engine_stop`). `Stats` takes three steps, reading and
resetting the kernel's counter, adding, reporting, for each of its two callers.

`NFQueue` has the chains of both address families, and one step per command: `nft` replaces the table as a
whole, `iptables` is called rule by rule and family by family (`CallAt`), adds only what is missing and
stops at the first failure. An initial state may hold the complete rules of a run that was killed. `Register` binds the queue
before it sets the rules; it is unbound (`Listening`) when its callbacks end, after an error (`HookFails`) or once the library notices
that the context is done (`HookStops`, at any time after a signal, which may come while the rules are still being added), or when it is
closed: the kernel then drops what waits (`Flushed`) and the queue rule's bypass lets the later packets pass. A packet
goes through its chain (`Verdict`): by the mark of its connection, into the queue, past it, or dropped
when the queue is full. The callback answers by itself what fails the sanity check. Which verdict a worker
gives to a packet is open. Protected connections are those of `ProtectedDialContext`: the program may dial one for the first packet it
is handed, before the last rule is there, and `dialed` remembers whether the rules were all set when its first packet was sent.

**RulesetReload.** The ruleset file with its version, the signal channel with its one place, the
goroutine that loads and installs, and the factories it visits one lock at a time (TCP, then UDP, of
each worker), while any of them creates streams. A stream keeps the ruleset it found; `latest` is the last one.

**Identity and Inspection.** `Identity` has libvirt's domains, which change at any time, and the goroutine that
lists them, reads them one by one and replaces the inventory as a whole or not at all. `Inspection` composes
it with everything behind it: `CompileExprRules` rule by rule with its checks; workers that look up the
identity of a new stream once, match it when an analyzer has reported something, rule by rule, and make the
calls a hit leads to in the order of `rulesetLogger.Log` (`Calls`), each call a step other
workers may come between; the two queues with their goroutines; and the deferred closes, one after the
other, while workers go on, since nobody waits for them. An expression is reduced to the values of one
report for which it is true, and whether it fails without that report. Whether a hit crosses a risk threshold,
and what a response does, is open here: `RiskAggregator` and `ResponseSink` are about that.

**RiskAggregator.** One aggregation key. `Add` takes three steps, as in the code: the time is read
(`Stamp`), the bucket is changed under the lock (`Locked`), the events are sent after it (`Emit`).
`BucketCount` also reads its time before the lock, and deletes empty buckets. Hits carry their time
and weight; the loops that sum and prune them are recursive functions. The choice of the key and the text
of an event are left out.

**ResponseSink.** The queue, the goroutine with its two commands per machine, the cooldown, `Close`,
the end and restart of the process, and an operator's `release` and `clear`. The switch is
external: for each machine and direction the instant its drop flow goes away. A command that fails may have
changed the switch or not. A flow is installed for whole seconds, rounded down (`FlowTimeout`, of `Second` instants
each), while the cooldown is compared exactly. `outcome` is history: how the last attempt for a machine ended. A running
command takes at most `CommandTimeout`, which is a guard of `Tick`. The flows' idle timeout is taken
as unset, which is its default.

**The analyzers.** `ByteStream` has the record all byte-stream analyzers share: two buffers, two machines,
flags, property maps. A parse function takes such a record and gives the one it leaves behind, with what it
says: pause, next, reset, cancel. Each analyzer's module has one definition per parse function. `Analyzers`
runs the machines (`RunStep`, `Run`, `FeedMachine`) on one stream of one analyzer and keeps what rules would see of it
(`reported`, which is `processPropUpdate` over several feeds). A byte is a number, or for HTTP and SSH a word,
because there only separators matter. Of a ClientHello's fingerprint the model has what it does to the other properties
(`ClientFingerprint`: groups, point formats and signature algorithms are taken away, `ech` is always told), not its text. For the analyzers that look at whole packets a packet is a record of
what they look at.

## 3. Runs

Nine runs pass, three end in a violation (section 4).

| Run | Instance | Shows |
|---|---|---|
| `udp_streams` | 4 flows, 3 hashes, 2 places, 2 analyzers (one limited to 1 byte), payloads of up to 2 bytes, 2 rulesets | `AnalyzersTold`: analyzers are fed while open and told once that it is over; `StreamsConsistent`: limits, verdicts, rulesets of a stream fit together; `TableConsistent`; `VerdictsFollow`: a first packet is matched, a stream accepted or blocked for good stays so |
| `udp_replay` | the same, rules that drop or modify | finding, against `PerPacketVerdict` |
| `tcp_streams` | 2 analyzers (one limited to 2 bytes), 3 bytes a delivery, 3 pages, 2 rulesets | `AnalyzersTold`, `StreamConsistent`; `PagesConsistent`: which contexts may wait; `VerdictsReach`: the packet that settles a stream and all later ones carry its verdict; `OnlyFlushOverturns` |
| `tcp_block` | the same | finding, against `OneFinalVerdict` |
| `engine` | 2 workers, queues of 1, 3 streams, 4 packets, live or file | `FlowSpec`: implements `PacketFlow`; `Shutdown`; `ReplayEnds` |
| `engine_stop` | 1 worker, 1 stream | finding, against `ReaderStops` |
| `packet_io` | ring of 2 blocks of 2 kinds, or a socket; 3 blocks, 1 drop, 2 errors, 2 readers of statistics. nft or iptables, both modes, with or without reset; 3 connections of both families, 2 packets, 1 failure | `ReadsOwnBlocks`, `DeliveredInOrder`, `OneError`; `NothingLeft`: descriptors, mappings, rules; `CountersComplete`; `KernelAgrees`: the kernel goes by the verdicts given; `ProtectedBypass`; `GivenBack`: every block and packet; `ReaderStops`, unless in a callback that never returns |
| `ruleset_reload` | 2 workers, 2 edits | `OneRuleset`, `NoOldRuleset`, `ReloadTakesEffect`: no mix, no way back, no signal lost |
| `inspection` | 6 configurations: identities that change during matches, one stream with three rules and all sinks, two streams on one queue, rules that are refused | `LookupsExact`, `InventoryFollows`; `RulesHold`: a match is what the rules mean; `AllowlistedIsSafe`; `AlertsExact`: every hit and alert told once, in order, or counted; `NothingStuck` |
| `risk_aggregator` | 2 workers, weights -1, 1 and 2, window 1, thresholds 2 and 3, 4 instants | `NothingMissed`, `EventTrue`, `OncePerCrossing` |
| `response_sink` | 1 machine, queue of 2, cooldown 2, hard timeout 3 with 2 instants to a second, 6 instants, 1 restart | `AppliedHolds`; `SwallowedIsBlocked`: the cooldown hides nothing; `QueuedIsDecided`, `CloseReturns` |
| `analyzers` | 24 conversations of SOCKS, HTTP, SSH, TLS, DNS and OpenVPN, some of them broken, cut after 1, 2, 3 or 7 units or sent whole, directions in two orders, segments lost; up to 6 packets of the other analyzers | `ReportsTrue`: rules only see what the peers said; `CutsDecideNothing`: the cuts of the stream neither hide nor refuse anything; `CountsTrue`: counters, rings and flags agree with the whole history |

*Why these bounds.* UDP: collision, eviction of another stream, hit and replacement need two flows with
one hash and one hash more than places; a limit that is used up exactly and a `done` in the same packet need
one byte, a quota below zero two. TCP: pages enough for some to be delivered and one to stay, three bytes to
exceed a quota of two. Engine: with two streams on a worker and a queue of one, a packet of each can be in
every place and the reader can wait. Packet IO: with three blocks retired, a ring of two goes round and the
scan can find two blocks ready and skip one; two errors, because one too many is what `OneError` is about; one failure
per run of the commands, at any of up to 16 calls of `iptables`; two packets, so that the second sees the first one's
verdict. Reload: the second edit can fall before, into and after the
first reload. Inspection: one domain with two addresses, two changes (one inside a refresh, one
after it) and one failing command; queues of one place, so that one worker
fills what another one needs; one crossing, which may reach both sinks. The identities change in one configuration only
and the sinks are all busy in the others, because nothing but `who` connects the two halves, and that is looked up once.
Risk: thresholds that one hit crosses together and two hits one after the other; a window of
one instant makes hits leave while a worker still holds an older time. Response: the cooldown equals
what is left of the hard timeout in whole seconds, the boundary at which it is still right; the clock is long enough for the flows of one
attempt to expire during the next. Analyzers: segments of one unit put a cut at every place, larger ones combine
steps of a machine in one feed; DNS, WireGuard and QUIC streams give up after 2 or 3 bad packets instead of 4, the OpenVPN
limit is 3 packets instead of 256, the ring of WireGuard holds 4 instead of 6 and a TLS random one byte instead of 32:
the same comparisons at smaller numbers. Where a theorem exists (section 5) the instance only has to be large enough
for the mutants to be found.

*Bounds in guards.* `MaxPayload`, `MaxData` (lengths), `MaxPackets` (packets read or fed), `MaxEdits`,
`MaxHits` (hits in a bucket), `MaxTime` (the clock), `MaxRestarts`, `MaxRetired` (blocks), `MaxDrops`, `MaxErrors`,
`MaxStats` (calls of `Stats`), `MaxArrivals` (packets), `MaxFailures` (commands), `MaxChanges` (of domains),
`MaxCrossings`. `MaxPages`, `MaxStreams`, `QueueSize`, `QueueLength`, `NumBlocks`, `NumWorkers` and `ReloadWorkers` are the program's own limits.

Deadlock is checked in `udp_streams`, `tcp_streams`, `ruleset_reload`, `response_sink` and the two findings about streams. The
others really stop: the engine when run, reader and workers have ended, a packet IO when it is closed, the program of
`inspection` when it has exited or refused its rules, an analyzer's stream when it is done, and
`risk_aggregator` when clock and hits have reached their bounds. That they do not stop too early is what their liveness
properties say.

*Fairness.* The stream modules, the risk aggregator and the analyzers have safety properties only. In `Engine` every goroutine that can go on
does (weak fairness); `Take` and `StopWorker` have strong fairness because Go's `select` chooses
at random among the ready cases, so neither is put off for ever. Nobody has to send packets, signals or errors. In
`RulesetReload` only the reload goroutine is fair. In `PacketIO` the readers go on outside of a callback, `iptables` and `nft` return, and the program closes an IO whose engine has
returned. Callbacks return, and workers answer the packets they hold, only while the context of the engine is not done:
workers that have stopped do neither. Errors, drops, packets and signals need not come, and callbacks of the queue need not end
before it is closed. In `Inspection` goroutines go on, commands and posts return (they have timeouts), and main takes its steps, except that `Run` need
not return; `Stop` of a sink and the end of the refresh goroutine have strong fairness, again for `select`.
In `ResponseSink` the goroutine is fair, because each of its
commands has a timeout, and `Stop` strongly so for the same reason.

## 4. Findings

- **udp_replay**: `engine/udp.go:185` replays `lastVerdict` when no analyzer is active any more. If the last
  match answered *drop* or *modify*, which are answers for one packet, every later packet is dropped, or
  gets `AcceptModify` without a packet.
- **tcp_block**: `engine/tcp.go:168` accepts the stream when no entry is active and the context says
  Accept. A page queued before the stream was blocked is flushed after it with such a context, and
  the blocked stream becomes an accepted one.
- **engine_stop**: `engine/worker.go:122` sends to `packetChan` without a look at a context; a reader in it
  does not stop when the workers have.

Things the properties had to be worded around, because the code behaves so and no document says otherwise:

- The ring's reader may be inside a block when `Close` unmaps it; the process then dies at its end
  (`ReaderStops` counts that as stopping). Blocks are delivered out of order when several are ready.
- A capture reader that is in a callback when the workers stop may stay there (finding `engine_stop`); `ReaderStops` and
  `GivenBack` end in that case (`[]reader.calling`).
- `UDPStreams` repeats every stored verdict while a stream does not accept packets, also one for a single packet (finding
  `udp_replay`). `VerdictsFollow` asks that of final verdicts only.
- `io/interface.go:49-51` says that protected connections are not handled by the engine. With `iptables`, a connection dialed
  for one of the first packets may be: `INPUT` queues before `OUTPUT` marks. `ProtectedBypass` is about the connections
  whose first packet found all rules set.
- When the queue's callbacks have ended and the rules are still there, packets without a verdict pass
  by the bypass of the queue rule; `KernelAgrees` says so.
- The hard timeout of a flow is rounded down to seconds, so a cooldown that is shorter than the configured timeout may still be
  longer than the flow lasts. `AppliedHolds` and `SwallowedIsBlocked` speak of the whole seconds. A machine whose attempt failed
  stays open for the rest of the cooldown; neither is about such attempts.
- Rules that were added before a failing command stay: `Close` removes only a complete set-up. `NothingLeft` excludes
  runs with a failing command.
- A risk alert that finds its queue full is counted as dropped and not told again before the score has fallen
  below the threshold.
- DNS over TCP reports the last of several messages of one segment, and OpenVPN counts one packet
  per segment; the others follow with later segments (`DNSTrue`, `OpenVPNTrue`).
- A response captured before its request ends a SOCKS or OpenVPN stream (`Disordered`). HTTP without headers is
  reported and then waits for a second empty line (`open`). An empty packet makes `udpflow` start its
  smallest length over; `UDPFlowTrue` says of which packets it then is the smallest.
- A SOCKS5 domain of 251 bytes or more overflows the byte its end is computed in (`Panics`); the conversations keep
  to shorter ones.

## 5. Proofs

The theorems hold for every value of the constants that satisfies the named assumptions.

- `UDPStreams_proofs`. The inductive invariant is the conjunction of the types, the table's consistency and
  `Good` for every stream in it: active entries and open analyzer streams agree, limits,
  settled streams have a verdict and final ones are settled, and all of it belongs to the stream's
  ruleset. The verdict half needs that conjunction, because a stream may only be replayed if the
  earlier packet that settled it also stored its verdict. A few lemmas say what removing and appending
  do to a sequence without repetitions, which the LRU order is.
- `TCPStreams_proofs`. The invariant ties the stream to the contexts of its pages: a page waits with a verdict
  other than Accept only when the stream is settled. Without it a flush could start from
  AcceptStream in an unsettled stream, and the consistency of verdict and state would not be inductive. Every delivery, from a
  packet or a flush, goes through one lemma about `ReassembledSG`.
- `Engine_proofs`. `KeepsPacketFlow` is the refinement without its fairness: the initial states of `Engine` are initial states
  of `PacketFlow`, and every step is one of its steps or changes nothing it sees. `Dispatch` is `Arrive`, `SetVerdict` is `Judge`; `Feed` and
  `Take` move a packet within its worker's line; what begins the shutdown is `Shut`. It needs `IInv`: a packet is in the reader's hands exactly
  while it is fed, a worker has packets of its own streams only (`AtHome`, without which the packet judged need not be
  the first of its stream), and none has a number that was not read (`NoneAhead`, without which a new one might wait already).
  The rest is about lines: what appending a packet and taking the first one do to the packets of every stream (`NumbersAppend`,
  `NumbersTail`), by the ranks of their places.
  The reload is proved beside it: the invariant says what each factory holds while a reload is at a place, and
  that the versions only grow: file, version being installed, factories, latest streams.
- `PacketIO_proofs`. For the ring the invariant says how blocks are numbered (`Numbered`: none beyond what the kernel
  retired, and no two blocks of the program with one number) and that, of a block that has not gone back, only the reader's own
  has been delivered from, up to the place it is at (`OnlyCurrent`). So no frame comes twice, however the scan jumps. For the
  plain socket the kernel's queue is numbered upwards and ahead of all that was delivered. One error is told because telling
  it and leaving the loop are one step, and the engine's channel is not written again.
  For the counters (`NoDropUncounted`) what every reader of the statistics has taken from the kernel and not yet added is summed over a set of
  any size, of which the code justifies that it is finite (`ReadersAssumption`: the callers that ask). A fold over such a set is the value of a
  recursive function on its subsets, whose existence is proved by taking members away (`SumExists`, `SubsetInduction`).
  For the rules (`NothingIsLeft`, `ProtectedNeverQueued`, `RulesDoWhatVerdictsSay`) the invariant says what the chains hold while
  commands are in progress: `iptables` is called rule by rule in a fixed order, so a chain has a prefix of its rules
  while they are added, or all of them when an earlier run had left them, and a suffix while they are removed; none are there after the end
  unless a command failed (`RulesInv`). A connection the program dials while they are set is marked accepted by its first packet, and no packet of it is
  in the queue or with a worker as long as they are; one of an exposed connection may be. An arriving packet is looked up in
  the chain as it stands, with callbacks bound to the queue and without (`BypassInv`). Types of both halves are part of it.
- `Inspection_proofs`. `LookupsAreExact` needs `Reading`: while the domains have not changed since a refresh
  began, what it has read are exactly the entries of the domains not left on its list; and `InUse`: the same of
  the stored inventory while `trueSince = changes`. The rest is that the first match in a concatenation is the first match in its first
  part if there is one. `AllowlistedIsAlwaysSafe` needs that the identity a stream keeps agrees with the static entries
  whatever the inventory held when it was looked up (`WhoInv`), and that every call still to be made, and
  every event in the response queue, in hand or served, is of a hit the allowlist does not name, with the packet its stream
  still has (`AllowInv`).
  `RulesAlwaysHold` needs `MatchInv`: a match that has not decided has passed the rules before the one it is at, none
  of which acts, and has told those that log; one that has decided is over. `AlertsAreExact` needs `AlertInv` for every stream: the calls still to be made are
  the rest of the calls of one hit, alert before risk, and a risk event only where the hit has none yet; the alerts pending and sent
  have nothing in common, the queue keeps their order, and the counters add up (`Accounts`: every hit and every crossing is an alert or was kept back). `SinkInv`
  bounds the queue and what its goroutine has in hand.
- `RiskAggregator_proofs`. The sum and the pruning are recursive functions over a sequence. Induction over them is done by hand:
  the set of indices up to which a statement holds contains 0 and with every index the next one (`Induction`), and
  the values of such a function exist and are unique (`LoopExists`, `LoopUnique`). With that, an appended hit adds its weight, a later window keeps
  fewer hits of any given one, and the invariant says that a flag is set whenever the bucket's sum is at its threshold.
- `ResponseSink_proofs`. The invariant relates the outcome of an attempt to the expiry of the flows: after the
  first command its flow lasts until `last + FlowTimeout`, after both the machine is blocked so
  long. An installation that a release undid is not counted any more.

- `Analyzers_proofs`. `CountsTrueCorrect` is about the six analyzers that get packets and keep a counter, a ring or a flag of
  them: for histories of any length, packets of the types `PacketType` says, and any thresholds and ring size, what the stream reports,
  counts and decides is what the history says. The history (`fed`) is a variable of the model, so the invariants relate it to the stream:
  - *DNS over UDP*: the counter is the number of bad packets at the end of the history (`InARow`), the report is of the last good one.
  - *WireGuard*: `Remembers` says of each place of the ring, by its age, which sender index of the history it holds or that there is none; the age
    of a packet is its rank among the senders from the end. The walk from the youngest place (`WalkFinds`) then finds an index iff it is young enough.
  - *udpflow*: `FlowRun` describes the run the last packet is in, `FlowMaxRun` that no run is longer and one is as long; the smallest length is that of the packets
    behind the last empty one (`SinceOf`); counts
    are cardinalities and sums folds over sets of places, which grow by one place per packet (`Grows`, `SumAdd`).
  - *Trojan*: four sums over the packets of the first four turns from the first Change Cipher Spec of the client on; the fifth turn ends the
    stream (`TurnLengthsMore`: a packet belongs to one turn only).
  - *FET*: one segment, but a fold over its bytes: after every byte the pass knows the longest stretch so far and the one that ends here (`Longest`).
  - *OpenVPN*: the rounds of the linear state machine for the packet of a Feed: a parse function, at most one more that finds nothing, then no
    change (`RunSettles`), so a Feed accepts or refuses (`RunReset`, `RunCount`). `IsValid` says which histories are in turn, and a machine
    accepts a packet exactly when the history stays valid (`AcceptsRight`).

  Sums and folds are values of recursive functions on finite sets and sequences, whose existence is proved first (`SumExists`, `FoldExists`, `PassExists`).

Only model-checked: the fairness in the refinement of `PacketFlow` (so `FlowSpec` as a whole) and all liveness properties
(`Shutdown`, `ReplayEnds`, `ReloadTakesEffect`, `QueuedIsDecided`, `CloseReturns`, `GivenBack`, `ReaderStops`, `InventoryFollows`,
`NothingStuck`), which are out of the prover's reach; and of the analyzers
`ReportsTrue` and `CutsDecideNothing`: what the parsers of byte streams, and of QUIC, make of a conversation. The conversations are constants that say
themselves what a reader of them must be told, so for all values of the constants a theorem would be about what a parser computes for every input,
by induction over its loops. Every other property of a passing run is a theorem.

## 6. Not modelled

- Trojan's decision tree over four lengths (`IsTrojanSeq` is a constant) and its check of the first packet, which nothing ever asks for (`first` is never set); the
  text of the JA3 and JA4 fingerprints; QUIC's headers and packet protection (`readable` says whether they worked), and hellos that
  span packets, which the code does not put together; what gopacket makes of a DNS message (`IsDNS`); averages, rates and
  buckets' shares of `udpflow`.
- The expression language (a library), the built-in functions, the GeoIP and GeoSite matchers and their generated
  protobuf code: pure functions of data files, sequential.
- Data races on a property map that an alert shares with its stream: what Go does then is no state of the program.
- Wording: logs, texts of alerts, labels of metrics; the drop ratio monitor, which only warns.
- Configuration: parsing, checks and recommended sizes; normal forms of addresses; data sets, loaded once. Decoding of frames;
  modifiers, which are pure functions of a packet; the pacing of a capture file.
- Two evicted or replaced LRU entries are never told apart from forgotten ones, as in the code: eviction calls nobody.

## 7. Where it can grow

1. Theorems about the analyzers of byte streams that need no reading of contents: that DNS and OpenVPN over TCP cut whole messages off
   their buffers wherever the segments are cut, by the rounds of the linear state machine as in `Analyzers_proofs`.
2. `RiskAggregator` and `ResponseSink` in the place of the open choices of `Inspection`, as refinements of the steps `AddRisk` and `Finish`.
3. The CIDR search against membership for lists without nested blocks; `Engine` driving the analyzers of `Analyzers` through its streams.
