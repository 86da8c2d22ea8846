------------------------------- MODULE Engine -------------------------------
(***************************************************************************)
(* The engine (engine/engine.go), its workers' queues and loops            *)
(* (engine/worker.go), and what drives them: the reader of the packet IO,  *)
(* the engine's Run and whoever cancels the program's context.             *)
(*                                                                         *)
(* How a worker comes to its verdict is the subject of TCPStreams and      *)
(* UDPStreams, how its rulesets are replaced that of RulesetReload; here a *)
(* packet is only its number and its stream.                               *)
(***************************************************************************)
EXTENDS Integers, Sequences, FiniteSets

CONSTANTS
    NumWorkers,    \* config.Workers
    QueueSize,     \* capacity of a worker's packetChan
    Streams,       \* streams, as the packet IO tells them apart
    StreamID,      \* the ID the packet IO gives each stream
    MaxPackets     \* bound: packets the IO reads

ASSUME SizeAssumption ==
    /\ NumWorkers \in Nat \ {0}
    /\ QueueSize \in Nat \ {0}
    /\ MaxPackets \in Nat

ASSUME StreamAssumption == StreamID \in [Streams -> Nat]

Workers == 0..NumWorkers - 1

Packet == [number : 1..MaxPackets, stream : Streams]

NoPacket == [number |-> 0]

VARIABLES
    read,       \* packets the IO has read so far
    reader,     \* the reader's goroutine: "off", "reading", "feeding", "stopped"
    inHand,     \* the packet whose Feed has not returned
    queue,      \* packetChan of each worker
    worker,     \* each worker's goroutine: "running", "stopped"
    working,    \* the packet each worker is handling
    judged,     \* numbers of the packets that got their verdict
    run,        \* Run: "registering", "waiting", "returned"
    errChan,    \* errors reported to Run, not yet received
    cancelled,  \* the program's context
    ioCancel,   \* the context given to the IO, when cancelled by itself
    finite      \* the IO replays a capture file and ends the run with it

packets == <<read, reader, inHand, queue, worker, working, judged>>
control == <<run, errChan, cancelled, ioCancel, finite>>

vars == <<packets, control>>

\* Load balance by stream ID.
WorkerOf(s) == StreamID[s] % NumWorkers

IODone == cancelled \/ ioCancel

\* Workers are stopped with the program, or by the deferred call when Run
\* returns.
WorkerDone == cancelled \/ run = "returned"

-----------------------------------------------------------------------------

Init ==
    /\ read = 0 /\ reader = "off" /\ inHand = NoPacket
    /\ queue = [w \in Workers |-> <<>>]
    /\ worker = [w \in Workers |-> "running"]
    /\ working = [w \in Workers |-> NoPacket]
    /\ judged = {}
    /\ run = "registering" /\ errChan = 0
    /\ cancelled = FALSE /\ ioCancel = FALSE
    /\ finite \in BOOLEAN

(* Run *)

\* Registering with the IO starts its reader, or fails and ends the run.
Register ==
    /\ run = "registering"
    /\ \/ /\ run' = "waiting" /\ reader' = "reading"
          /\ UNCHANGED <<errChan, cancelled, ioCancel>>
       \/ /\ run' = "returned" /\ ioCancel' = TRUE
          /\ UNCHANGED <<errChan, cancelled, reader>>
    /\ UNCHANGED <<read, inHand, queue, worker, working, judged, finite>>

\* Mutant: Run only waits for an error.
ReturnOnError ==
    /\ run = "waiting" /\ errChan > 0
    /\ errChan' = errChan - 1
    /\ run' = "returned" /\ ioCancel' = TRUE
    /\ UNCHANGED <<cancelled, finite, packets>>

\* Run waits for an error or the end of a context; on its way out it cancels
\* the contexts of the IO and of the workers.
Return ==
    /\ run = "waiting"
    /\ \/ errChan > 0 /\ errChan' = errChan - 1
       \/ IODone /\ UNCHANGED errChan
    /\ run' = "returned" /\ ioCancel' = TRUE
    /\ UNCHANGED <<cancelled, finite, packets>>

\* SIGINT or SIGTERM.
Cancel ==
    /\ cancelled' = TRUE
    /\ UNCHANGED <<run, errChan, ioCancel, finite, packets>>

(* The reader, in the IO and in the callback Run registered *)

\* A packet is read and dispatched to the worker of its stream.
Dispatch(s) ==
    /\ reader = "reading" /\ read < MaxPackets
    /\ read' = read + 1
    /\ inHand' = [number |-> read + 1, stream |-> s]
    /\ reader' = "feeding"
    /\ UNCHANGED <<queue, worker, working, judged, control>>

\* A packet that is neither IPv4 nor IPv6 gets its verdict on the spot.
Bypass ==
    /\ reader = "reading" /\ read < MaxPackets
    /\ read' = read + 1
    /\ UNCHANGED <<reader, inHand, queue, worker, working, judged, control>>

\* Mutant: Feed does not wait, and the packet is lost when the queue is full.
FeedOrDrop ==
    LET w == WorkerOf(inHand.stream)
    IN /\ reader = "feeding"
       /\ queue' = IF Len(queue[w]) < QueueSize
                   THEN [queue EXCEPT ![w] = Append(@, inHand)] ELSE queue
       /\ inHand' = NoPacket
       /\ reader' = "reading"
       /\ UNCHANGED <<read, worker, working, judged, control>>

\* Feed sends to the channel and waits, for as long as it takes, until there is
\* room.
Feed ==
    LET w == WorkerOf(inHand.stream)
    IN /\ reader = "feeding"
       /\ Len(queue[w]) < QueueSize
       /\ queue' = [queue EXCEPT ![w] = Append(@, inHand)]
       /\ inHand' = NoPacket
       /\ reader' = "reading"
       /\ UNCHANGED <<read, worker, working, judged, control>>

\* A read error is reported once; the callback's answer ends the reader.
ReadError ==
    /\ ~finite
    /\ reader = "reading" /\ errChan < 1
    /\ errChan' = errChan + 1
    /\ reader' = "stopped"
    /\ UNCHANGED <<read, inHand, queue, worker, working, judged>>
    /\ UNCHANGED <<run, cancelled, ioCancel, finite>>

\* Mutant: the end of the file does not cancel the context.
StopQuietly ==
    /\ reader = "reading"
    /\ (finite /\ read = MaxPackets) \/ (~finite /\ IODone)
    /\ reader' = "stopped"
    /\ UNCHANGED <<read, inHand, queue, worker, working, judged, control>>

\* A live IO stops when it sees its context done; a file does not look, but
\* ends, and then cancels the context itself.
StopReading ==
    /\ reader = "reading"
    /\ \/ finite /\ read = MaxPackets /\ ioCancel' = TRUE
       \/ ~finite /\ IODone /\ UNCHANGED ioCancel
    /\ reader' = "stopped"
    /\ UNCHANGED <<read, inHand, queue, worker, working, judged>>
    /\ UNCHANGED <<run, errChan, cancelled, finite>>

(* The workers *)

\* A worker that is between two packets takes the next one, even when it could
\* stop as well.
Take(w) ==
    /\ worker[w] = "running" /\ working[w] = NoPacket
    /\ queue[w] # <<>>
    /\ working' = [working EXCEPT ![w] = Head(queue[w])]
    /\ queue' = [queue EXCEPT ![w] = Tail(@)]
    /\ UNCHANGED <<read, reader, inHand, worker, judged, control>>

\* The packet has its verdict.
SetVerdict(w) ==
    /\ working[w] # NoPacket
    /\ judged' = judged \cup {working[w].number}
    /\ working' = [working EXCEPT ![w] = NoPacket]
    /\ UNCHANGED <<read, reader, inHand, queue, worker, control>>

\* The worker sees its context done; what is left in its queue stays there.
StopWorker(w) ==
    /\ worker[w] = "running" /\ working[w] = NoPacket
    /\ WorkerDone
    /\ worker' = [worker EXCEPT ![w] = "stopped"]
    /\ UNCHANGED <<read, reader, inHand, queue, working, judged, control>>

Next ==
    \/ Register \/ Return \/ Cancel
    \/ \E s \in Streams : Dispatch(s)
    \/ Bypass \/ Feed \/ ReadError \/ StopReading
    \/ \E w \in Workers : Take(w) \/ SetVerdict(w) \/ StopWorker(w)

(***************************************************************************)
(* Every goroutine that can go on does.  A worker that can both take a     *)
(* packet and stop chooses at random (Go's select), so neither is put off  *)
(* for ever.  Nobody has to send packets or signals.                       *)
(***************************************************************************)
Fairness ==
    /\ WF_vars(Register) /\ WF_vars(Return)
    /\ WF_vars(Feed) /\ WF_vars(StopReading)
    /\ \A w \in Workers :
          SF_vars(Take(w)) /\ WF_vars(SetVerdict(w)) /\ SF_vars(StopWorker(w))

Spec == Init /\ [][Next]_vars /\ Fairness

-----------------------------------------------------------------------------
(* Properties *)

\* Every variable keeps its type, and no queue more than it can hold.
TypeOK ==
    /\ read \in 0..MaxPackets
    /\ reader \in {"off", "reading", "feeding", "stopped"}
    /\ inHand \in Packet \cup {NoPacket}
    /\ queue \in [Workers -> Seq(Packet)]
    /\ \A w \in Workers : Len(queue[w]) <= QueueSize
    /\ worker \in [Workers -> {"running", "stopped"}]
    /\ working \in [Workers -> Packet \cup {NoPacket}]
    /\ judged \in SUBSET (1..MaxPackets)
    /\ run \in {"registering", "waiting", "returned"}
    /\ errChan \in 0..1 /\ cancelled \in BOOLEAN /\ ioCancel \in BOOLEAN
    /\ finite \in BOOLEAN

(***************************************************************************)
(* The engine gives what PacketFlow promises.  The packets of a worker     *)
(* wait, in this order, in the hands of the worker, in its queue and in    *)
(* the hands of the reader; those of a stream are the ones of the stream   *)
(* among its worker's, in the same order.                                  *)
(***************************************************************************)
Line(w) ==
    (IF working[w] = NoPacket THEN <<>> ELSE <<working[w]>>)
        \o queue[w]
        \o (IF inHand = NoPacket \/ WorkerOf(inHand.stream) # w THEN <<>> ELSE <<inHand>>)

Places(line, s) == {i \in DOMAIN line : line[i].stream = s}

\* The k-th smallest member of a set of numbers.
Nth(S, k) == CHOOSE i \in S : Cardinality({j \in S : j < i}) = k - 1

NumbersOf(line, s) ==
    [k \in 1..Cardinality(Places(line, s)) |-> line[Nth(Places(line, s), k)].number]

InLine(s) == NumbersOf(Line(WorkerOf(s)), s)

Flow == INSTANCE PacketFlow WITH
    Packets <- 1..MaxPackets,
    waiting <- [s \in Streams |-> InLine(s)],
    closing <- WorkerDone

\* Packets of one stream are judged in order, once, and all of them unless the
\* engine is shut down.
FlowSpec == Flow!Spec

\* When the program is told to stop, Run returns and every worker ends, however
\* many packets still arrive.
Shutdown ==
    cancelled ~> (run = "returned" /\ \A w \in Workers : worker[w] = "stopped")

\* A replay ends by itself: once the last packet was read, however full the
\* queues are, Run returns without anybody cancelling it.
ReplayEnds == (finite /\ run = "waiting" /\ read = MaxPackets) ~> run = "returned"

\* io/interface.go: the callback should "stop when the context is cancelled".
\* A live IO's reader that sees the end of its context comes to an end.
ReaderStops == (~finite /\ IODone /\ reader = "reading") ~> (reader = "stopped")

=============================================================================
