------------------------------ MODULE AFPacket ------------------------------
(***************************************************************************)
(* Capture from an AF_PACKET socket (io/afpacket.go): the TPACKET_V3 ring  *)
(* whose blocks the kernel fills and the reader hands back, the plain      *)
(* socket read packet by packet, their statistics, read by two goroutines, *)
(* and what a failed start and Close release.                              *)
(***************************************************************************)
EXTENDS PacketIOLife, Integers, Sequences, FiniteSets, Folds, Functions

CONSTANTS
    NumBlocks,     \* config.NumBlocks
    Contents,      \* what a block may hold: sequences of packet kinds
    StatsReaders,  \* the monitor and the metrics endpoint
    MaxRetired,    \* bound: blocks (ring) or packets (raw) captured
    MaxDrops,      \* bound: packets the kernel drops
    MaxErrors,     \* bound: failing reads
    MaxStats       \* bound: calls of Stats, for each backend

\* A frame with an IP packet, one without, one whose bounds leave the block.
FrameKinds == {"ip", "other", "bad"}

ASSUME RingAssumption ==
    /\ NumBlocks \in Nat \ {0}
    /\ Contents \subseteq Seq(FrameKinds)

ASSUME AFBoundsAssumption ==
    {MaxRetired, MaxDrops, MaxErrors} \subseteq Nat /\ MaxStats \in [{"ring", "raw"} -> Nat]

ASSUME ReadersAssumption == IsFiniteSet(StatsReaders)

Blocks == 0..NumBlocks - 1

VARIABLES
    backend,    \* "ring" or "raw"
    socket,     \* the file descriptor is open
    mapped,     \* the ring is mapped
    slot,       \* the blocks of the ring
    kernel,     \* the kernel: block it fills, blocks retired, counters not read yet
    reader,     \* the goroutine of Register; calling: it is in the engine's callback
    delivered,  \* the packets given to the callback: block number, place in it
    errors,     \* readErrors, losingBlocks and the errors the engine was told
    stats,      \* kernelDrops; kernelPackets is counted in the same way
    asking,     \* the calls of Stats in progress and their last results
    asked       \* calls of Stats so far

afVars == <<backend, socket, mapped, slot, kernel, reader, delivered, errors,
            stats, asking, asked>>

role == <<kind, backend>>
opened == <<role, life, socket, mapped>>
counting == <<stats, asking, asked>>

\* A block: its owner, the number the kernel gave it, its frames, and whether
\* packets were lost before it.
Block == [owner : {"kernel", "user"}, seq : Nat, frames : Seq(FrameKinds), losing : BOOLEAN]

Idle == [at |-> "none", next |-> 0, i |-> 0, block |-> 0, place |-> 0, processed |-> FALSE,
         calling |-> FALSE]

AFInit ==
    /\ backend \in {"ring", "raw"}
    /\ socket = FALSE /\ mapped = FALSE
    /\ slot = [b \in Blocks |-> [owner |-> "kernel", seq |-> 0, frames |-> <<>>, losing |-> FALSE]]
    /\ kernel = [fills |-> 0, retired |-> 0, queue |-> <<>>, unread |-> 0, total |-> 0]
    /\ reader = Idle
    /\ delivered = <<>>
    /\ errors = [read |-> 0, losing |-> 0, told |-> 0]
    /\ stats = 0
    /\ asking = [r \in StatsReaders |-> [at |-> "idle", got |-> 0, last |-> 0]]
    /\ asked = 0

-----------------------------------------------------------------------------
(* Opening *)

OpenSocket ==
    /\ life = "opening" /\ ~socket
    /\ \/ socket' = TRUE /\ UNCHANGED life
       \/ UNCHANGED socket /\ life' = "failed"
    /\ UNCHANGED <<role, mapped, slot, kernel, reader, delivered, errors, counting>>

\* A ring that cannot be set up or mapped closes the socket.
MapRing ==
    /\ life = "opening" /\ backend = "ring" /\ socket /\ ~mapped
    /\ \/ mapped' = TRUE /\ UNCHANGED <<life, socket>>
       \/ life' = "failed" /\ socket' = FALSE /\ UNCHANGED mapped
    /\ UNCHANGED <<role, slot, kernel, reader, delivered, errors, counting>>

\* Binding to the interface and joining the fanout group, or giving up.
Bind ==
    /\ life = "opening" /\ socket /\ (backend = "ring" => mapped)
    /\ \/ life' = "open" /\ UNCHANGED <<socket, mapped>>
       \/ life' = "failed" /\ socket' = FALSE /\ mapped' = FALSE
    /\ UNCHANGED <<role, slot, kernel, reader, delivered, errors, counting>>

Register ==
    /\ life = "open"
    /\ life' = "running"
    /\ reader' = [Idle EXCEPT !.at = IF backend = "ring" THEN "top" ELSE "receive"]
    /\ UNCHANGED <<role, socket, mapped, slot, kernel, delivered, errors, counting>>

-----------------------------------------------------------------------------
(* The kernel *)

Capturing == socket /\ life \in {"open", "running", "cancelled"}

\* The kernel fills the blocks in turn and retires one when it is full or its
\* timeout is over. A block is losing while drops have not been read.
Retire ==
    /\ backend = "ring" /\ mapped /\ Capturing /\ kernel.retired < MaxRetired
    /\ slot[kernel.fills].owner = "kernel"
    /\ \E frames \in Contents :
          /\ slot' = [slot EXCEPT ![kernel.fills] =
                        [owner |-> "user", seq |-> kernel.retired + 1, frames |-> frames,
                         losing |-> kernel.unread > 0]]
          /\ kernel' = [kernel EXCEPT !.retired = @ + 1, !.fills = (@ + 1) % NumBlocks]
    /\ UNCHANGED <<opened, reader, delivered, errors, counting>>

Arrive ==
    /\ backend = "raw" /\ Capturing /\ kernel.retired < MaxRetired
    /\ Len(kernel.queue) < NumBlocks
    /\ \E frame \in FrameKinds \ {"bad"} :
          kernel' = [kernel EXCEPT !.retired = @ + 1,
                        !.queue = Append(@, [seq |-> kernel.retired + 1, frame |-> frame])]
    /\ UNCHANGED <<opened, slot, reader, delivered, errors, counting>>

\* With the next block, or the socket's buffer, still full, packets are lost.
Lose ==
    /\ Capturing /\ kernel.total < MaxDrops
    /\ \/ backend = "ring" /\ mapped /\ slot[kernel.fills].owner = "user"
       \/ backend = "raw" /\ Len(kernel.queue) = NumBlocks
    /\ kernel' = [kernel EXCEPT !.unread = @ + 1, !.total = @ + 1]
    /\ UNCHANGED <<opened, slot, reader, delivered, errors, counting>>

-----------------------------------------------------------------------------
(* The reader of the ring *)

\* Register's loop: one scan of the ring, unless the context is cancelled.
BeginScan ==
    /\ reader.at = "top"
    /\ reader' = IF Cancelled THEN [reader EXCEPT !.at = "gone"]
                 ELSE [reader EXCEPT !.at = "scan"]
    /\ UNCHANGED <<opened, slot, kernel, delivered, errors, counting>>

\* Looking at memory that Close has unmapped ends the process.
Fault ==
    /\ reader.at \in {"scan", "block"} /\ ~reader.calling /\ ~mapped
    /\ reader' = [reader EXCEPT !.at = "fault"]
    /\ UNCHANGED <<opened, slot, kernel, delivered, errors, counting>>

\* The block the scan looks at: the start moves with every block processed,
\* the offset goes on counting.
Scanned == (reader.next + reader.i) % NumBlocks

\* Mutant: the start moves with every block looked at.
SkipBlockTwice ==
    /\ reader.at = "scan" /\ reader.i < NumBlocks /\ mapped
    /\ slot[Scanned].owner = "kernel"
    /\ reader' = [reader EXCEPT !.i = @ + 1, !.next = (@ + 1) % NumBlocks]
    /\ UNCHANGED <<opened, slot, kernel, delivered, errors, counting>>

SkipBlock ==
    /\ reader.at = "scan" /\ reader.i < NumBlocks /\ mapped
    /\ slot[Scanned].owner = "kernel"
    /\ reader' = [reader EXCEPT !.i = @ + 1]
    /\ UNCHANGED <<opened, slot, kernel, delivered, errors, counting>>

\* Mutant: the status of the block is not looked at.
TakeAnyBlock ==
    /\ reader.at = "scan" /\ reader.i < NumBlocks /\ mapped
    /\ reader' = [reader EXCEPT !.at = "block", !.block = Scanned, !.place = 1, !.processed = TRUE]
    /\ errors' = [errors EXCEPT !.losing = @ + IF slot[Scanned].losing THEN 1 ELSE 0]
    /\ UNCHANGED <<opened, slot, kernel, delivered, counting>>

TakeBlock ==
    /\ reader.at = "scan" /\ reader.i < NumBlocks /\ mapped
    /\ slot[Scanned].owner = "user"
    /\ reader' = [reader EXCEPT !.at = "block", !.block = Scanned, !.place = 1, !.processed = TRUE]
    /\ errors' = [errors EXCEPT !.losing = @ + IF slot[Scanned].losing THEN 1 ELSE 0]
    /\ UNCHANGED <<opened, slot, kernel, delivered, counting>>

\* A packet goes to the engine's callback, which returns in a step of its own.
ReadFrame ==
    /\ reader.at = "block" /\ ~reader.calling /\ mapped
    /\ reader.place <= Len(slot[reader.block].frames)
    /\ LET frame == slot[reader.block].frames[reader.place]
       IN \/ /\ frame = "ip"
             /\ delivered' = Append(delivered, <<slot[reader.block].seq, reader.place>>)
             /\ reader' = [reader EXCEPT !.place = @ + 1, !.calling = TRUE]
             /\ UNCHANGED errors
          \/ /\ frame = "other"
             /\ reader' = [reader EXCEPT !.place = @ + 1]
             /\ UNCHANGED <<delivered, errors>>
          \/ /\ frame = "bad"  \* the rest of the block is given up
             /\ errors' = [errors EXCEPT !.read = @ + 1]
             /\ reader' = [reader EXCEPT !.place = Len(slot[reader.block].frames) + 1]
             /\ UNCHANGED delivered
    /\ UNCHANGED <<opened, slot, kernel, counting>>

\* Mutant: the block stays with the program.
KeepBlock ==
    /\ reader.at = "block" /\ ~reader.calling /\ mapped
    /\ reader.place > Len(slot[reader.block].frames)
    /\ reader' = [reader EXCEPT !.at = "scan", !.next = (reader.block + 1) % NumBlocks, !.i = @ + 1,
                                !.block = 0, !.place = 0]
    /\ UNCHANGED <<opened, slot, kernel, delivered, errors, counting>>

ReleaseBlock ==
    /\ reader.at = "block" /\ ~reader.calling /\ mapped
    /\ reader.place > Len(slot[reader.block].frames)
    /\ slot' = [slot EXCEPT ![reader.block].owner = "kernel"]
    /\ reader' = [reader EXCEPT !.at = "scan", !.next = (reader.block + 1) % NumBlocks, !.i = @ + 1,
                                !.block = 0, !.place = 0]
    /\ UNCHANGED <<opened, kernel, delivered, errors, counting>>

EndScan ==
    /\ reader.at = "scan" /\ reader.i = NumBlocks
    /\ reader' = [Idle EXCEPT !.at = IF reader.processed THEN "top" ELSE "poll",
                              !.next = reader.next]
    /\ UNCHANGED <<opened, slot, kernel, delivered, errors, counting>>

\* Events, the timeout and a closed descriptor all end the wait.
Poll ==
    /\ reader.at = "poll"
    /\ reader' = [reader EXCEPT !.at = "top"]
    /\ UNCHANGED <<opened, slot, kernel, delivered, errors, counting>>

-----------------------------------------------------------------------------
(* The reader of the socket *)

Receive ==
    /\ reader.at = "receive" /\ ~reader.calling /\ socket /\ kernel.queue # <<>>
    /\ LET frame == Head(kernel.queue)
       IN /\ delivered' = IF frame.frame = "ip" THEN Append(delivered, <<frame.seq, 1>>)
                          ELSE delivered
          /\ reader' = [reader EXCEPT !.calling = frame.frame = "ip"]
    /\ kernel' = [kernel EXCEPT !.queue = Tail(@)]
    /\ UNCHANGED <<opened, slot, errors, counting>>

\* Mutant: the context is not looked at.
ReceiveAgain ==
    /\ reader.at = "receive" /\ ~reader.calling /\ (socket => kernel.queue = <<>>)
    /\ UNCHANGED <<opened, slot, kernel, reader, delivered, errors, counting>>

\* The receive timeout, or a descriptor that was closed: only here does this
\* reader look at its context.
ReceiveNothing ==
    /\ reader.at = "receive" /\ ~reader.calling /\ (socket => kernel.queue = <<>>)
    /\ reader' = IF Cancelled THEN [reader EXCEPT !.at = "gone"] ELSE reader
    /\ UNCHANGED <<opened, slot, kernel, delivered, errors, counting>>

-----------------------------------------------------------------------------
(* Errors, statistics and the end *)

\* The callback hands the packet to its worker and returns when there is room in
\* the worker's queue; a worker that has stopped makes none.
CallbackReturns ==
    /\ reader.calling
    /\ reader' = [reader EXCEPT !.calling = FALSE]
    /\ UNCHANGED <<opened, slot, kernel, delivered, errors, counting>>

\* An error of recvfrom or poll: the engine is told, and the callback says stop.
ReadFails ==
    /\ reader.at \in {"receive", "poll"} /\ ~reader.calling /\ errors.read < MaxErrors
    /\ \/ Cancelled /\ UNCHANGED errors
       \/ ~Cancelled /\ errors' = [errors EXCEPT !.read = @ + 1, !.told = @ + 1]
    /\ reader' = [reader EXCEPT !.at = "gone"]
    /\ UNCHANGED <<opened, slot, kernel, delivered, counting>>

\* Run returns on a signal, or on the error in its channel.
Signal ==
    /\ life = "running"
    /\ life' = "cancelled"
    /\ UNCHANGED afVars /\ UNCHANGED kind

ReturnError ==
    /\ life = "running" /\ errors.told > 0
    /\ life' = "cancelled"
    /\ UNCHANGED afVars /\ UNCHANGED kind

\* Close does not wait for the reader.
AFClose ==
    /\ life = "cancelled"
    /\ life' = "closed"
    /\ socket' = FALSE /\ mapped' = FALSE
    /\ UNCHANGED <<role, slot, kernel, reader, delivered, errors, counting>>

\* Stats, in steps another caller may come between. Reading the kernel's
\* counter resets it; a closed socket has none.
AskKernel(r) ==
    /\ asking[r].at = "idle" /\ asked < MaxStats[backend]
    /\ life \notin {"opening", "failed"}
    /\ asking' = [asking EXCEPT ![r].at = "add", ![r].got = IF socket THEN kernel.unread ELSE 0]
    /\ asked' = asked + 1
    /\ kernel' = IF socket THEN [kernel EXCEPT !.unread = 0] ELSE kernel
    /\ UNCHANGED <<opened, slot, reader, delivered, errors, stats>>

\* Mutant: the counter is set instead of added to.
SetCounter(r) ==
    /\ asking[r].at = "add"
    /\ stats' = asking[r].got
    /\ asking' = [asking EXCEPT ![r].at = "report", ![r].got = 0]
    /\ UNCHANGED <<opened, slot, kernel, reader, delivered, errors, asked>>

AddCounter(r) ==
    /\ asking[r].at = "add"
    /\ stats' = stats + asking[r].got
    /\ asking' = [asking EXCEPT ![r].at = "report", ![r].got = 0]
    /\ UNCHANGED <<opened, slot, kernel, reader, delivered, errors, asked>>

Report(r) ==
    /\ asking[r].at = "report"
    /\ asking' = [asking EXCEPT ![r].at = "idle", ![r].last = stats]
    /\ UNCHANGED <<opened, slot, kernel, reader, delivered, errors, stats, asked>>

Read ==
    \/ BeginScan \/ SkipBlock \/ TakeBlock \/ ReadFrame \/ ReleaseBlock \/ EndScan \/ Poll
    \/ Receive \/ ReceiveNothing

AFNext ==
    \/ OpenSocket \/ MapRing \/ Bind \/ Register
    \/ Retire \/ Arrive \/ Lose
    \/ Read \/ CallbackReturns \/ Fault \/ ReadFails
    \/ Signal \/ ReturnError \/ AFClose
    \/ \E r \in StatsReaders : AskKernel(r) \/ AddCounter(r) \/ Report(r)

-----------------------------------------------------------------------------
(* Properties *)

Places == {"none", "top", "scan", "block", "poll", "receive", "gone", "fault"}

AFTypeOK ==
    /\ backend \in {"ring", "raw"} /\ socket \in BOOLEAN /\ mapped \in BOOLEAN
    /\ slot \in [Blocks -> Block]
    /\ kernel \in [fills : Blocks, retired : Nat, queue : Seq([seq : Nat, frame : FrameKinds]),
                   unread : Nat, total : Nat]
    /\ reader \in [at : Places, next : Blocks, i : 0..NumBlocks, block : Blocks,
                   place : Nat, processed : BOOLEAN, calling : BOOLEAN]
    /\ delivered \in Seq(Nat \X Nat)
    /\ errors \in [read : Nat, losing : Nat, told : Nat]
    /\ stats \in Nat
    /\ asking \in [StatsReaders -> [at : {"idle", "add", "report"}, got : Nat, last : Nat]]
    /\ asked \in Nat

\* While the reader is in a block the kernel does not own it, and does not
\* fill it again: what is copied is what was retired.
ReadsOwnBlocks == reader.at = "block" => slot[reader.block].owner = "user"

\* However the scan jumps around the ring, no packet is given to the engine
\* twice, and the packets of one block, and all packets of the plain socket, are
\* given to it in the order they were captured.
DeliveredInOrder ==
    \A j, k \in DOMAIN delivered :
        j < k => IF backend = "raw" THEN delivered[j][1] < delivered[k][1]
                 ELSE delivered[j][1] = delivered[k][1] => delivered[j][2] < delivered[k][2]

\* An IO that could not be opened, or was closed, holds no descriptor and no
\* mapping.
NothingLeftOpen == life \in {"failed", "closed"} /\ kind = "afpacket" => ~socket /\ ~mapped

\* The kernel's counter is reset by every read, and two goroutines read it:
\* nothing is counted twice or lost between them.
CountersComplete ==
    stats + FoldFunction(LAMBDA ask, sum : ask.got + sum, 0, asking) + kernel.unread = kernel.total

\* A block the kernel retired comes back to it: the jumps of the scan leave none
\* behind for ever, unless the reader has ended or waits for ever in a callback.
BlocksComeBack ==
    \A b \in Blocks :
        (slot[b].owner = "user") ~>
            (slot[b].owner = "kernel" \/ reader.at \in {"gone", "fault"} \/ []reader.calling)

\* After the engine stops, the reader stops too, or dies touching the ring
\* that Close took away; the plain socket's reader, which looks at its context
\* only after an error, relies on Close for it.  All that can keep it is one
\* callback that never returns, because the worker it waits for has stopped.
ReaderStops ==
    (kind = "afpacket" /\ life = "cancelled") ~>
        (reader.at \in {"gone", "fault"} \/ []reader.calling)

=============================================================================
