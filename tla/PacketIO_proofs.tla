--------------------------- MODULE PacketIO_proofs ---------------------------
(***************************************************************************)
(* Proofs about PacketIO, for any number of blocks, whatever they hold,    *)
(* any readers of the statistics, connections and bounds.                  *)
(***************************************************************************)
EXTENDS PacketIO, SequenceTheorems, FiniteSetTheorems,
        WellFoundedInduction, TLAPS

\* A set of numbers has a smallest one.
LEMMA Smallest ==
    ASSUME NEW I \in SUBSET Nat, I # {}
    PROVE  \E x \in I : \A y \in I : x <= y
  <1>1. \E x \in I : \A y \in I : ~ (<<y, x>> \in OpToRel(<, Nat))
    BY WFMin, NatLessThanWellFounded
  <1>2. ASSUME NEW x \in Nat, NEW y \in Nat, y < x
        PROVE  <<y, x>> \in OpToRel(<, Nat)
    <2>1. <<y, x>> \in Nat \X Nat /\ <<y, x>>[1] < <<y, x>>[2]
      BY <1>2
    <2> QED
      BY <2>1, Zenon DEF OpToRel
  <1>3. \A x, y \in Nat : x <= y \/ y < x
    OBVIOUS
  <1> QED
    BY <1>1, <1>2, <1>3

(***************************************************************************)
(* The capture: where its reader may be, how the kernel numbers what it    *)
(* hands over, and which of it the engine has been given.                  *)
(***************************************************************************)
ReaderFits ==
    /\ backend = "raw" => reader.at \in {"none", "receive", "gone"}
    /\ backend = "ring" => reader.at # "receive"
    /\ kind = "afpacket" /\ life \in {"opening", "failed", "open"} => reader.at = "none"
    /\ reader.at = "block" => reader.i < NumBlocks

Told == errors.told <= 1 /\ (errors.told > 0 => reader.at = "gone")

Numbered ==
    /\ \A b \in Blocks : slot[b].seq <= kernel.retired
    /\ \A b, c \in Blocks :
          slot[b].owner = "user" /\ slot[c].owner = "user" /\ slot[b].seq = slot[c].seq => b = c

\* Of a block that has not gone back only the reader's own has been delivered
\* from, up to the place it is at.
OnlyCurrent ==
    backend = "ring" =>
        \A j \in DOMAIN delivered :
            /\ delivered[j][1] <= kernel.retired
            /\ \A b \in Blocks :
                  slot[b].owner = "user" /\ delivered[j][1] = slot[b].seq =>
                      /\ reader.at \in {"block", "fault"} /\ reader.block = b
                      /\ delivered[j][2] < reader.place

QueueAhead ==
    backend = "raw" =>
        /\ \A i \in DOMAIN kernel.queue : kernel.queue[i].seq <= kernel.retired
        /\ \A i, k \in DOMAIN kernel.queue : i < k => kernel.queue[i].seq < kernel.queue[k].seq
        /\ \A j \in DOMAIN delivered :
              /\ delivered[j][1] <= kernel.retired
              /\ \A i \in DOMAIN kernel.queue : delivered[j][1] < kernel.queue[i].seq

AFInv ==
    /\ AFTypeOK /\ ReaderFits /\ Told /\ ReadsOwnBlocks /\ Numbered
    /\ OnlyCurrent /\ QueueAhead /\ DeliveredInOrder

Kernel == [fills : Blocks, retired : Nat, queue : Seq([seq : Nat, frame : FrameKinds]),
           unread : Nat, total : Nat]

Askings == [StatsReaders -> [at : {"idle", "add", "report"}, got : Nat, last : Nat]]

Readers == [at : Places, next : Blocks, i : 0..NumBlocks, block : Blocks, place : Nat,
            processed : BOOLEAN, calling : BOOLEAN]

-----------------------------------------------------------------------------

LEMMA AFInitInv ==
    ASSUME Init
    PROVE  AFInv
  <1> USE DEF Init, AFInit
  <1>1. Blocks = 0..NumBlocks - 1 /\ 0 \in Blocks /\ 0 \in 0..NumBlocks
    BY RingAssumption DEF Blocks
  <1>2. slot \in [Blocks -> Block]
    <2>1. <<>> \in Seq(FrameKinds)
      OBVIOUS
    <2> QED
      BY <2>1 DEF Block
  <1>3. kernel \in [fills : Blocks, retired : Nat, queue : Seq([seq : Nat, frame : FrameKinds]),
                    unread : Nat, total : Nat]
    <2>1. <<>> \in Seq([seq : Nat, frame : FrameKinds])
      OBVIOUS
    <2> QED
      BY <2>1, <1>1
  <1>4. reader \in [at : Places, next : Blocks, i : 0..NumBlocks, block : Blocks,
                    place : Nat, processed : BOOLEAN, calling : BOOLEAN]
    BY <1>1 DEF Idle, Places
  <1>5. delivered \in Seq(Nat \X Nat) /\ DOMAIN delivered = {}
    OBVIOUS
  <1>6. asking \in [StatsReaders -> [at : {"idle", "add", "report"}, got : Nat, last : Nat]]
    OBVIOUS
  <1>7. AFTypeOK
    BY <1>2, <1>3, <1>4, <1>5, <1>6 DEF AFTypeOK
  <1>8. ReaderFits /\ Told /\ ReadsOwnBlocks /\ OnlyCurrent /\ DeliveredInOrder
    BY <1>5 DEF ReaderFits, Told, ReadsOwnBlocks, OnlyCurrent, DeliveredInOrder, Idle
  <1>9. Numbered
    BY DEF Numbered
  <1>10. QueueAhead
    BY <1>5 DEF QueueAhead
  <1> QED
    BY <1>7, <1>8, <1>9, <1>10 DEF AFInv

\* Steps that touch neither the ring, the queue nor the reader.
LEMMA AFKeeps ==
    ASSUME AFInv, UNCHANGED <<backend, slot, reader, delivered, errors>>,
           kernel'.retired = kernel.retired, kernel'.queue = kernel.queue,
           ReaderFits', AFTypeOK'
    PROVE  AFInv'
  BY DEF AFInv, AFTypeOK, Told, ReadsOwnBlocks, Numbered, OnlyCurrent, QueueAhead,
         DeliveredInOrder

LEMMA AFStutter ==
    ASSUME AFInv, UNCHANGED afVars, kind' = kind, kind = "afpacket" => life' = life
    PROVE  AFInv'
  BY DEF AFInv, afVars, AFTypeOK, ReaderFits, Told, ReadsOwnBlocks, Numbered, OnlyCurrent,
         QueueAhead, DeliveredInOrder

-----------------------------------------------------------------------------

\* Opening, closing and counting.
LEMMA LifeStep ==
    ASSUME AFInv, kind = "afpacket", life \in Lives,
           \/ OpenSocket \/ MapRing \/ Bind \/ Signal \/ ReturnError \/ AFClose
           \/ \E r \in StatsReaders : AskKernel(r) \/ AddCounter(r) \/ Report(r)
    PROVE  AFInv' /\ life' \in Lives /\ kind' = kind
  <1> USE DEF AFInv
  <1>1. CASE OpenSocket \/ MapRing \/ Bind
    <2>1. UNCHANGED <<role, slot, kernel, reader, delivered, errors, counting>>
          /\ socket' \in BOOLEAN /\ mapped' \in BOOLEAN
          /\ life = "opening" /\ life' \in {"opening", "failed", "open"}
      BY <1>1 DEF OpenSocket, MapRing, Bind, AFTypeOK
    <2>2. AFTypeOK' /\ ReaderFits'
      BY <2>1 DEF AFTypeOK, ReaderFits, role, counting
    <2> QED
      BY <2>1, <2>2, AFKeeps DEF role, Lives
  <1>2. CASE Signal \/ ReturnError
    <2>1. UNCHANGED afVars /\ UNCHANGED kind /\ life' = "cancelled"
      BY <1>2 DEF Signal, ReturnError
    <2>2. AFTypeOK' /\ ReaderFits'
      BY <2>1 DEF afVars, AFTypeOK, ReaderFits
    <2> QED
      BY <2>1, <2>2, AFKeeps DEF afVars, Lives
  <1>3. CASE AFClose
    <2>1. AFTypeOK' /\ ReaderFits'
      BY <1>3 DEF AFClose, AFTypeOK, ReaderFits, role, counting
    <2> QED
      BY <1>3, <2>1, AFKeeps DEF AFClose, role, Lives
  <1>4. ASSUME NEW r \in StatsReaders, AskKernel(r)
        PROVE  AFInv' /\ life' = life /\ kind' = kind
    <2>1. UNCHANGED <<kind, backend, life, socket, mapped, slot, reader, delivered, errors, stats>>
      BY <1>4 DEF AskKernel, opened, role
    <2>2. /\ asking' = [asking EXCEPT ![r].at = "add",
                                      ![r].got = IF socket THEN kernel.unread ELSE 0]
          /\ asked' = asked + 1
          /\ kernel' = kernel \/ kernel' = [kernel EXCEPT !.unread = 0]
      BY <1>4 DEF AskKernel
    <2>3. asking' \in Askings
      <3>1. asking \in Askings /\ kernel.unread \in Nat
        BY DEF AFTypeOK, Askings
      <3> QED
        BY <2>2, <3>1 DEF Askings
    <2>4. kernel' \in Kernel /\ kernel'.retired = kernel.retired /\ kernel'.queue = kernel.queue
      <3> kernel \in Kernel
        BY DEF AFTypeOK, Kernel
      <3>1. CASE kernel' = kernel
        BY <3>1
      <3>2. CASE kernel' = [kernel EXCEPT !.unread = 0]
        BY <3>2 DEF Kernel
      <3> QED
        BY <2>2, <3>1, <3>2
    <2>5. AFTypeOK'
      <3>1. asked' \in Nat /\ stats' \in Nat
        BY <2>1, <2>2 DEF AFTypeOK
      <3> QED
        BY <2>1, <2>3, <2>4, <3>1 DEF AFTypeOK, Kernel, Askings
    <2>6. ReaderFits'
      BY <2>1 DEF ReaderFits
    <2> QED
      BY <2>1, <2>4, <2>5, <2>6, AFKeeps
  <1>5. ASSUME NEW r \in StatsReaders, AddCounter(r) \/ Report(r)
        PROVE  AFInv' /\ life' = life /\ kind' = kind
    <2>1. UNCHANGED <<kind, backend, life, socket, mapped, slot, kernel, reader, delivered,
                      errors, asked>>
      BY <1>5 DEF AddCounter, Report, opened, role
    <2>2. asking' \in Askings
      <3>1. CASE AddCounter(r)
        BY <3>1 DEF AddCounter, AFTypeOK, Askings
      <3>2. CASE Report(r)
        <4>1. asking' = [asking EXCEPT ![r].at = "idle", ![r].last = stats] /\ stats \in Nat
          BY <3>2 DEF Report, AFTypeOK
        <4> QED
          BY <4>1 DEF AFTypeOK, Askings
      <3> QED
        BY <1>5, <3>1, <3>2
    <2>3. stats' \in Nat
      BY <1>5 DEF AddCounter, Report, AFTypeOK
    <2>4. AFTypeOK'
      BY <2>1, <2>2, <2>3 DEF AFTypeOK, Askings
    <2>5. ReaderFits'
      BY <2>1 DEF ReaderFits
    <2> QED
      BY <2>1, <2>4, <2>5, AFKeeps
  <1> QED
    BY <1>1, <1>2, <1>3, <1>4, <1>5

-----------------------------------------------------------------------------

Errors == [read : Nat, losing : Nat, told : Nat]

\* Steps of the reader outside a block, which at most enter one.
LEMMA ReaderMoves ==
    ASSUME AFInv, reader.at \notin {"block", "fault"}, reader' \in Readers, errors' \in Errors,
           UNCHANGED <<backend, slot, kernel, delivered, counting>>,
           socket' \in BOOLEAN, mapped' \in BOOLEAN, ReaderFits', Told',
           reader'.at = "block" => slot[reader'.block].owner = "user"
    PROVE  AFInv'
  <1>1. AFTypeOK'
    BY DEF AFInv, AFTypeOK, Readers, Errors, counting
  <1>2. ReadsOwnBlocks' /\ Numbered' /\ QueueAhead' /\ DeliveredInOrder'
    BY DEF AFInv, ReadsOwnBlocks, Numbered, QueueAhead, DeliveredInOrder
  <1>3. OnlyCurrent'
    BY DEF AFInv, OnlyCurrent
  <1> QED
    BY <1>1, <1>2, <1>3 DEF AFInv

LEMMA RegisterStep ==
    ASSUME AFInv, kind = "afpacket", Register
    PROVE  AFInv' /\ life' \in Lives /\ kind' = kind
  <1>1. reader.at = "none" /\ errors.told = 0
    BY DEF AFInv, ReaderFits, Register, Told, AFTypeOK
  <1>2. /\ reader'.at = IF backend = "ring" THEN "top" ELSE "receive"
        /\ UNCHANGED <<role, socket, mapped, slot, kernel, delivered, errors, counting>>
        /\ life' = "running"
    BY DEF Register, Idle
  <1>3. reader' \in Readers
    <2>1. 0 \in Blocks /\ 0 \in 0..NumBlocks
      BY RingAssumption DEF Blocks
    <2> QED
      BY <2>1 DEF Register, Idle, Places, Readers
  <1>4. errors' \in Errors /\ socket' \in BOOLEAN /\ mapped' \in BOOLEAN
    BY <1>2 DEF AFInv, AFTypeOK, Errors
  <1>5. ReaderFits' /\ Told'
    BY <1>1, <1>2 DEF ReaderFits, Told, role, AFInv, AFTypeOK
  <1> QED
    BY <1>1, <1>2, <1>3, <1>4, <1>5, ReaderMoves DEF role, Lives

LEMMA MoveStep ==
    ASSUME AFInv, kind = "afpacket", life \in Lives,
           BeginScan \/ SkipBlock \/ TakeBlock \/ EndScan \/ Poll \/ ReceiveNothing \/ ReadFails
    PROVE  AFInv' /\ life' \in Lives /\ kind' = kind
  <1>0. UNCHANGED <<opened, slot, kernel, delivered, counting>> /\ reader \in Readers
        /\ errors \in Errors /\ NumBlocks \in Nat \ {0}
    BY RingAssumption
    DEF BeginScan, SkipBlock, TakeBlock, EndScan, Poll, ReceiveNothing, ReadFails, AFInv,
        AFTypeOK, Readers, Errors
  <1>1. CASE BeginScan
    <2>1. reader.at = "top" /\ errors' = errors
          /\ \E to \in {"gone", "scan"} : reader' = [reader EXCEPT !.at = to]
      BY <1>1 DEF BeginScan
    <2>2. reader' \in Readers /\ reader'.at \in {"gone", "scan"}
      BY <1>0, <2>1 DEF Readers, Places
    <2>3. ReaderFits' /\ Told'
      BY <1>0, <2>1, <2>2 DEF AFInv, ReaderFits, Told, opened, role, Errors
    <2> QED
      BY <1>0, <2>1, <2>2, <2>3, ReaderMoves DEF AFInv, AFTypeOK, opened, role
  <1>2. CASE SkipBlock
    <2>1. reader.at = "scan" /\ errors' = errors /\ reader.i < NumBlocks
          /\ reader' = [reader EXCEPT !.i = @ + 1]
      BY <1>2 DEF SkipBlock
    <2>2. reader' \in Readers /\ reader'.at = "scan"
      BY <1>0, <2>1 DEF Readers, Places
    <2>3. ReaderFits' /\ Told'
      BY <1>0, <2>1, <2>2 DEF AFInv, ReaderFits, Told, opened, role, Errors
    <2> QED
      BY <1>0, <2>1, <2>2, <2>3, ReaderMoves DEF AFInv, AFTypeOK, opened, role
  <1>3. CASE TakeBlock
    <2>1. reader.at = "scan" /\ slot[Scanned].owner = "user" /\ reader.i < NumBlocks
          /\ reader' = [reader EXCEPT !.at = "block", !.block = Scanned, !.place = 1,
                                      !.processed = TRUE]
          /\ \E n \in {0, 1} : errors' = [errors EXCEPT !.losing = @ + n]
      BY <1>3 DEF TakeBlock
    <2>2. Scanned \in Blocks
      BY <1>0 DEF Scanned, Blocks, Readers
    <2>3. reader' \in Readers /\ reader'.at = "block" /\ reader'.block = Scanned
          /\ reader'.i = reader.i
      BY <1>0, <2>1, <2>2 DEF Readers, Places
    <2>4. errors' \in Errors /\ errors'.told = errors.told
      BY <1>0, <2>1 DEF Errors
    <2>5. ReaderFits' /\ Told'
      BY <1>0, <2>1, <2>3, <2>4 DEF AFInv, ReaderFits, Told, opened, role, Errors
    <2> QED
      BY <1>0, <2>1, <2>3, <2>4, <2>5, ReaderMoves DEF AFInv, AFTypeOK, opened, role
  <1>4. CASE EndScan
    <2>1. reader.at = "scan" /\ errors' = errors
          /\ \E to \in {"top", "poll"} :
                reader' = [Idle EXCEPT !.at = to, !.next = reader.next]
      BY <1>4 DEF EndScan
    <2>2. reader' \in Readers /\ reader'.at \in {"top", "poll"}
      <3> PICK to \in {"top", "poll"} : reader' = [Idle EXCEPT !.at = to, !.next = reader.next]
        BY <2>1
      <3>1. Idle \in Readers
        BY <1>0 DEF Idle, Readers, Places, Blocks
      <3>2. reader.next \in Blocks /\ to \in Places
        BY <1>0 DEF Readers, Places
      <3>3. [Idle EXCEPT !.at = to] \in Readers
        BY <3>1, <3>2 DEF Readers
      <3>4. reader' \in Readers
        BY <3>2, <3>3 DEF Readers
      <3>5. reader'.at = to
        BY <3>1 DEF Readers
      <3> QED
        BY <3>4, <3>5
    <2>3. ReaderFits' /\ Told'
      BY <1>0, <2>1, <2>2 DEF AFInv, ReaderFits, Told, opened, role, Errors
    <2> QED
      BY <1>0, <2>1, <2>2, <2>3, ReaderMoves DEF AFInv, AFTypeOK, opened, role
  <1>5. CASE Poll
    <2>1. reader.at = "poll" /\ errors' = errors /\ reader' = [reader EXCEPT !.at = "top"]
      BY <1>5 DEF Poll
    <2>2. reader' \in Readers /\ reader'.at = "top"
      BY <1>0, <2>1 DEF Readers, Places
    <2>3. ReaderFits' /\ Told'
      BY <1>0, <2>1, <2>2 DEF AFInv, ReaderFits, Told, opened, role, Errors
    <2> QED
      BY <1>0, <2>1, <2>2, <2>3, ReaderMoves DEF AFInv, AFTypeOK, opened, role
  <1>6. CASE ReceiveNothing
    <2>1. reader.at = "receive" /\ errors' = errors
          /\ (reader' = [reader EXCEPT !.at = "gone"] \/ reader' = reader)
      BY <1>6 DEF ReceiveNothing
    <2>2. reader' \in Readers /\ reader'.at \in {"gone", "receive"}
      <3>1. CASE reader' = [reader EXCEPT !.at = "gone"]
        BY <1>0, <3>1 DEF Readers, Places
      <3> QED
        BY <1>0, <2>1, <3>1
    <2>3. ReaderFits' /\ Told'
      BY <1>0, <2>1, <2>2 DEF AFInv, ReaderFits, Told, opened, role, Errors
    <2> QED
      BY <1>0, <2>1, <2>2, <2>3, ReaderMoves DEF AFInv, AFTypeOK, opened, role
  <1>7. CASE ReadFails
    <2>1. reader.at \in {"receive", "poll"} /\ reader' = [reader EXCEPT !.at = "gone"]
          /\ \/ errors' = errors
             \/ errors' = [errors EXCEPT !.read = @ + 1, !.told = @ + 1]
      BY <1>7 DEF ReadFails
    <2>2. reader' \in Readers /\ reader'.at = "gone"
      BY <1>0, <2>1 DEF Readers, Places
    <2>3. errors.told = 0
      BY <1>0, <2>1 DEF AFInv, Told, Errors
    <2>4. errors' \in Errors /\ errors'.told \in {0, 1}
      <3>1. CASE errors' = errors
        BY <1>0, <2>3, <3>1
      <3>2. CASE errors' = [errors EXCEPT !.read = @ + 1, !.told = @ + 1]
        <4>1. errors'.told = errors.told + 1
          BY <1>0, <3>2 DEF Errors
        <4>2. errors' \in Errors
          <5>1. errors.read + 1 \in Nat /\ errors.told + 1 \in Nat
            BY <1>0 DEF Errors
          <5> QED
            BY <1>0, <3>2, <5>1 DEF Errors
        <4> QED
          BY <2>3, <4>1, <4>2
      <3> QED
        BY <2>1, <3>1, <3>2
    <2>5. ReaderFits' /\ Told'
      BY <1>0, <2>1, <2>2, <2>4 DEF AFInv, ReaderFits, Told, opened, role
    <2> QED
      BY <1>0, <2>1, <2>2, <2>4, <2>5, ReaderMoves DEF AFInv, AFTypeOK, opened, role
  <1> QED
    BY <1>0, <1>1, <1>2, <1>3, <1>4, <1>5, <1>6, <1>7 DEF opened, role

-----------------------------------------------------------------------------
(* The blocks *)

\* The kernel numbers a block higher than everything delivered, and takes a
\* block the reader is not in.
LEMMA RetireStep ==
    ASSUME AFInv, Retire
    PROVE  AFInv'
  <1>1. PICK frames \in Contents :
           /\ slot' = [slot EXCEPT ![kernel.fills] =
                         [owner |-> "user", seq |-> kernel.retired + 1, frames |-> frames,
                          losing |-> kernel.unread > 0]]
           /\ kernel' = [kernel EXCEPT !.retired = @ + 1, !.fills = (@ + 1) % NumBlocks]
    BY DEF Retire
  <1>2. /\ slot[kernel.fills].owner = "kernel" /\ backend = "ring"
        /\ UNCHANGED <<kind, backend, life, socket, mapped, reader, delivered, errors, counting>>
    BY DEF Retire, opened, role
  <1>3. kernel \in Kernel /\ slot \in [Blocks -> Block] /\ NumBlocks \in Nat \ {0}
    BY RingAssumption DEF AFInv, AFTypeOK, Kernel
  <1>4. /\ (kernel.fills + 1) % NumBlocks \in Blocks
        /\ kernel.retired + 1 \in Nat /\ kernel.fills \in Blocks
    BY <1>3 DEF Kernel, Blocks
  <1>5. kernel' \in Kernel /\ kernel'.retired = kernel.retired + 1
    <2>1. [kernel EXCEPT !.retired = @ + 1] \in Kernel
      BY <1>3, <1>4 DEF Kernel
    <2>2. kernel' \in Kernel
      BY <1>1, <1>4, <2>1 DEF Kernel
    <2>3. kernel'.retired = kernel.retired + 1
      BY <1>1, <1>3 DEF Kernel
    <2> QED
      BY <2>2, <2>3
  <1>6. frames \in Seq(FrameKinds)
    BY RingAssumption
  <1>7. slot' \in [Blocks -> Block]
    <2>1. [owner |-> "user", seq |-> kernel.retired + 1, frames |-> frames,
           losing |-> kernel.unread > 0] \in Block
      BY <1>4, <1>6 DEF Block
    <2> QED
      BY <1>1, <1>3, <2>1
  <1>8. /\ \A b \in Blocks \ {kernel.fills} : slot'[b] = slot[b]
        /\ slot'[kernel.fills].seq = kernel.retired + 1
    BY <1>1, <1>3, <1>4
  <1>9. AFTypeOK'
    BY <1>2, <1>5, <1>7 DEF AFInv, AFTypeOK, Kernel, counting
  <1>10. ReaderFits' /\ Told' /\ QueueAhead' /\ DeliveredInOrder'
    BY <1>2 DEF AFInv, AFTypeOK, ReaderFits, Told, QueueAhead, DeliveredInOrder
  <1>11. ReadsOwnBlocks'
    BY <1>2, <1>3, <1>8 DEF AFInv, AFTypeOK, ReadsOwnBlocks
  <1>12. Numbered'
    <2>1. \A b \in Blocks : slot[b].seq \in Nat /\ slot[b].seq <= kernel.retired
      BY <1>3 DEF AFInv, Numbered, Block
    <2>2. kernel.retired \in Nat
      BY <1>3 DEF Kernel
    <2>3. \A b \in Blocks : slot'[b].seq <= kernel'.retired
      BY <1>5, <1>8, <2>1, <2>2
    <2>4. ASSUME NEW b \in Blocks, NEW c \in Blocks, slot'[b].owner = "user",
                 slot'[c].owner = "user", slot'[b].seq = slot'[c].seq
          PROVE  b = c
      <3>1. CASE b # kernel.fills /\ c # kernel.fills
        BY <1>8, <2>4, <3>1 DEF AFInv, Numbered
      <3>2. CASE b = kernel.fills \/ c = kernel.fills
        BY <1>8, <2>1, <2>2, <2>4, <3>2
      <3> QED
        BY <3>1, <3>2
    <2> QED
      BY <2>3, <2>4 DEF Numbered
  <1>13. OnlyCurrent'
    <2> SUFFICES ASSUME NEW j \in DOMAIN delivered
                 PROVE  /\ delivered[j][1] <= kernel'.retired
                        /\ \A b \in Blocks :
                              slot'[b].owner = "user" /\ delivered[j][1] = slot'[b].seq =>
                                  /\ reader.at \in {"block", "fault"} /\ reader.block = b
                                  /\ delivered[j][2] < reader.place
      BY <1>2 DEF OnlyCurrent
    <2>1. delivered[j][1] \in Nat /\ delivered[j][1] <= kernel.retired /\ kernel.retired \in Nat
      BY <1>2, <1>3 DEF AFInv, OnlyCurrent, AFTypeOK, Kernel
    <2>2. delivered[j][1] # slot'[kernel.fills].seq
      BY <1>8, <2>1
    <2> QED
      BY <1>2, <1>5, <1>8, <2>1, <2>2 DEF AFInv, OnlyCurrent
  <1> QED
    BY <1>9, <1>10, <1>11, <1>12, <1>13 DEF AFInv

LEMMA ReleaseStep ==
    ASSUME AFInv, ReleaseBlock
    PROVE  AFInv'
  <1>1. /\ reader.at = "block"
        /\ slot' = [slot EXCEPT ![reader.block].owner = "kernel"]
        /\ reader' = [reader EXCEPT !.at = "scan", !.next = (reader.block + 1) % NumBlocks,
                                    !.i = @ + 1, !.block = 0, !.place = 0]
        /\ UNCHANGED <<kind, backend, life, socket, mapped, kernel, delivered, errors, counting>>
    BY DEF ReleaseBlock, opened, role
  <1>2. reader \in Readers /\ slot \in [Blocks -> Block] /\ NumBlocks \in Nat \ {0}
    BY RingAssumption DEF AFInv, AFTypeOK, Readers
  <1>3. reader.block \in Blocks /\ (reader.block + 1) % NumBlocks \in Blocks /\ 0 \in Blocks
        /\ reader.i + 1 \in 0..NumBlocks
    BY <1>1, <1>2 DEF Readers, Blocks, AFInv, ReaderFits
  <1>4. reader' \in Readers /\ reader'.at = "scan"
    <2>1. [reader EXCEPT !.at = "scan"] \in Readers
      BY <1>2 DEF Readers, Places
    <2>2. [reader EXCEPT !.at = "scan", !.next = (reader.block + 1) % NumBlocks] \in Readers
      BY <1>3, <2>1 DEF Readers
    <2>3. [reader EXCEPT !.at = "scan", !.next = (reader.block + 1) % NumBlocks,
                         !.i = @ + 1] \in Readers
      BY <1>2, <1>3, <2>2 DEF Readers
    <2>4. reader' \in Readers
      BY <1>1, <1>3, <2>3 DEF Readers
    <2>5. reader'.at = "scan"
      BY <1>1, <1>2 DEF Readers
    <2> QED
      BY <2>4, <2>5
  <1>5. /\ slot' \in [Blocks -> Block]
        /\ slot'[reader.block].owner = "kernel"
        /\ \A b \in Blocks : slot'[b].seq = slot[b].seq
        /\ \A b \in Blocks \ {reader.block} : slot'[b] = slot[b]
    BY <1>1, <1>2, <1>3 DEF Block
  <1>6. AFTypeOK'
    BY <1>1, <1>4, <1>5 DEF AFInv, AFTypeOK, Readers, counting
  <1>7. ReaderFits' /\ Told' /\ ReadsOwnBlocks' /\ QueueAhead' /\ DeliveredInOrder'
    BY <1>1, <1>4
    DEF AFInv, AFTypeOK, ReaderFits, Told, ReadsOwnBlocks, QueueAhead, DeliveredInOrder
  <1>8. Numbered'
    BY <1>1, <1>3, <1>5 DEF AFInv, Numbered
  <1>9. OnlyCurrent'
    BY <1>1, <1>3, <1>5 DEF AFInv, OnlyCurrent
  <1> QED
    BY <1>6, <1>7, <1>8, <1>9 DEF AFInv

\* A packet of the reader's block comes after those delivered from it.
LEMMA ReadFrameStep ==
    ASSUME AFInv, ReadFrame
    PROVE  AFInv'
  <1>1. reader.at = "block" /\ reader.place <= Len(slot[reader.block].frames)
        /\ UNCHANGED <<kind, backend, life, socket, mapped, slot, kernel, counting>>
    BY DEF ReadFrame, opened, role
  <1>2. reader \in Readers /\ slot \in [Blocks -> Block] /\ errors \in Errors
        /\ delivered \in Seq(Nat \X Nat) /\ kernel \in Kernel
    BY DEF AFInv, AFTypeOK, Readers, Errors, Kernel
  <1>3. /\ reader.block \in Blocks /\ reader.place \in Nat /\ slot[reader.block].seq \in Nat
        /\ slot[reader.block].frames \in Seq(FrameKinds)
        /\ slot[reader.block].owner = "user" /\ errors.told = 0 /\ backend = "ring"
    BY <1>1, <1>2 DEF Readers, Block, Errors, AFInv, ReadsOwnBlocks, Told, ReaderFits, AFTypeOK
  <1>4. PICK p \in Nat : /\ p > reader.place
                         /\ \/ reader' = [reader EXCEPT !.place = p]
                            \/ reader' = [reader EXCEPT !.place = p, !.calling = TRUE]
    <2>1. \/ reader' = [reader EXCEPT !.place = reader.place + 1]
          \/ reader' = [reader EXCEPT !.place = reader.place + 1, !.calling = TRUE]
          \/ reader' = [reader EXCEPT !.place = Len(slot[reader.block].frames) + 1]
      BY DEF ReadFrame
    <2>2. Len(slot[reader.block].frames) \in Nat
      BY <1>3
    <2>3. CASE \/ reader' = [reader EXCEPT !.place = reader.place + 1]
               \/ reader' = [reader EXCEPT !.place = reader.place + 1, !.calling = TRUE]
      <3> DEFINE n == reader.place + 1
      <3>1. /\ n \in Nat /\ n > reader.place
            /\ \/ reader' = [reader EXCEPT !.place = n]
               \/ reader' = [reader EXCEPT !.place = n, !.calling = TRUE]
        BY <1>3, <2>3
      <3> HIDE DEF n
      <3> QED
        BY <3>1
    <2>4. CASE reader' = [reader EXCEPT !.place = Len(slot[reader.block].frames) + 1]
      <3> DEFINE n == Len(slot[reader.block].frames) + 1
      <3>1. n \in Nat /\ n > reader.place /\ reader' = [reader EXCEPT !.place = n]
        BY <1>1, <1>3, <2>2, <2>4
      <3> HIDE DEF n
      <3> QED
        BY <3>1
    <2> QED
      BY <2>1, <2>3, <2>4
  <1>5. reader' \in Readers /\ reader'.at = "block" /\ reader'.block = reader.block
        /\ reader'.place = p /\ reader'.i = reader.i
    <2>1. CASE reader' = [reader EXCEPT !.place = p]
      BY <1>1, <1>2, <2>1 DEF Readers
    <2>2. CASE reader' = [reader EXCEPT !.place = p, !.calling = TRUE]
      BY <1>1, <1>2, <2>2 DEF Readers
    <2> QED
      BY <1>4, <2>1, <2>2
  <1>6. errors' \in Errors /\ errors'.told = 0
    <2>1. CASE errors' = errors
      BY <1>2, <1>3, <2>1
    <2>2. CASE errors' = [errors EXCEPT !.read = @ + 1]
      <3>1. errors.read + 1 \in Nat
        BY <1>2 DEF Errors
      <3>2. errors' \in Errors
        BY <1>2, <2>2, <3>1 DEF Errors
      <3>3. errors'.told = errors.told
        BY <1>2, <2>2 DEF Errors
      <3> QED
        BY <1>3, <3>2, <3>3
    <2> QED
      BY <2>1, <2>2 DEF ReadFrame
  <1>7. ReaderFits' /\ Told' /\ ReadsOwnBlocks' /\ Numbered'
    BY <1>1, <1>5, <1>6 DEF AFInv, ReaderFits, Told, ReadsOwnBlocks, Numbered
  <1>8. QueueAhead'
    BY <1>1, <1>3 DEF QueueAhead
  <1> DEFINE d == <<slot[reader.block].seq, reader.place>>
  <1>9. CASE delivered' = delivered
    <2>1. AFTypeOK'
      BY <1>1, <1>5, <1>6, <1>9 DEF AFInv, AFTypeOK, Readers, Errors, counting
    <2>2. OnlyCurrent'
      <3> SUFFICES ASSUME NEW j \in DOMAIN delivered
                   PROVE  /\ delivered[j][1] <= kernel.retired
                          /\ \A b \in Blocks :
                                slot[b].owner = "user" /\ delivered[j][1] = slot[b].seq =>
                                    reader.block = b /\ delivered[j][2] < p
        BY <1>1, <1>5, <1>9 DEF OnlyCurrent
      <3>1. delivered[j] \in Nat \X Nat
        BY <1>2
      <3> QED
        BY <1>3, <1>4, <3>1 DEF AFInv, OnlyCurrent
    <2>3. DeliveredInOrder'
      BY <1>1, <1>9 DEF AFInv, DeliveredInOrder
    <2> QED
      BY <1>7, <1>8, <2>1, <2>2, <2>3 DEF AFInv
  <1>10. CASE delivered' = Append(delivered, d)
    <2>1. d \in Nat \X Nat /\ d[1] = slot[reader.block].seq /\ d[2] = reader.place
      BY <1>3
    <2> HIDE DEF d
    <2>2. /\ delivered' \in Seq(Nat \X Nat) /\ Len(delivered') = Len(delivered) + 1
          /\ Len(delivered) \in Nat /\ DOMAIN delivered = 1..Len(delivered)
          /\ DOMAIN delivered' = 1..Len(delivered) + 1
          /\ delivered'[Len(delivered) + 1] = d
          /\ \A j \in 1..Len(delivered) : delivered'[j] = delivered[j]
                                          /\ delivered[j] \in Nat \X Nat
      BY <1>2, <1>10, <2>1
    <2>3. AFTypeOK'
      BY <1>1, <1>5, <1>6, <2>2 DEF AFInv, AFTypeOK, Readers, Errors, counting
    <2>4. ASSUME NEW j \in 1..Len(delivered)
          PROVE  /\ delivered[j][1] <= kernel.retired
                 /\ \A b \in Blocks :
                       slot[b].owner = "user" /\ delivered[j][1] = slot[b].seq =>
                           reader.block = b /\ delivered[j][2] < reader.place
      BY <1>3, <2>2, <2>4 DEF AFInv, OnlyCurrent
    <2>5. OnlyCurrent'
      <3> SUFFICES ASSUME NEW j \in 1..Len(delivered) + 1
                   PROVE  /\ delivered'[j][1] <= kernel.retired
                          /\ \A b \in Blocks :
                                slot[b].owner = "user" /\ delivered'[j][1] = slot[b].seq =>
                                    reader.block = b /\ delivered'[j][2] < p
        BY <1>1, <1>5, <2>2 DEF OnlyCurrent
      <3>1. CASE j \in 1..Len(delivered)
        <4>1. delivered'[j] = delivered[j] /\ delivered[j] \in Nat \X Nat
          BY <2>2, <3>1
        <4> QED
          BY <1>3, <1>4, <2>4, <3>1, <4>1
      <3>2. CASE j = Len(delivered) + 1
        <4>1. delivered'[j] = d
          BY <2>2, <3>2
        <4> QED
          BY <1>3, <1>4, <2>1, <4>1 DEF AFInv, Numbered
      <3> QED
        BY <2>2, <3>1, <3>2
    <2>6. DeliveredInOrder'
      <3> SUFFICES ASSUME NEW j \in 1..Len(delivered) + 1, NEW k \in 1..Len(delivered) + 1,
                          j < k, delivered'[j][1] = delivered'[k][1]
                   PROVE  delivered'[j][2] < delivered'[k][2]
        BY <1>1, <1>3, <2>2 DEF DeliveredInOrder
      <3>1. j \in 1..Len(delivered) /\ delivered'[j] = delivered[j]
        BY <2>2
      <3>2. CASE k \in 1..Len(delivered)
        <4>1. delivered'[k] = delivered[k]
          BY <2>2, <3>2
        <4> QED
          BY <1>3, <2>2, <3>1, <3>2, <4>1 DEF AFInv, DeliveredInOrder
      <3>3. CASE k = Len(delivered) + 1
        <4>1. delivered'[k] = d
          BY <2>2, <3>3
        <4> QED
          BY <1>3, <2>1, <2>4, <3>1, <4>1
      <3> QED
        BY <2>2, <3>2, <3>3
    <2> QED
      BY <1>7, <1>8, <2>3, <2>5, <2>6 DEF AFInv
  <1> QED
    BY <1>9, <1>10 DEF ReadFrame

\* Touching memory that is gone: the reader stays where it was for ever.
LEMMA FaultStep ==
    ASSUME AFInv, Fault
    PROVE  AFInv'
  <1>1. reader.at \in {"scan", "block"} /\ reader' = [reader EXCEPT !.at = "fault"]
        /\ UNCHANGED <<kind, backend, life, socket, mapped, slot, kernel, delivered, errors, counting>>
    BY DEF Fault, opened, role
  <1>2. reader \in Readers /\ errors \in Errors
    BY DEF AFInv, AFTypeOK, Readers, Errors
  <1>3. reader' \in Readers /\ reader'.at = "fault" /\ reader'.block = reader.block
        /\ reader'.place = reader.place
    BY <1>1, <1>2 DEF Readers, Places
  <1>4. AFTypeOK'
    BY <1>1, <1>3 DEF AFInv, AFTypeOK, Readers, counting
  <1>5. ReaderFits' /\ Told' /\ ReadsOwnBlocks' /\ Numbered' /\ QueueAhead' /\ DeliveredInOrder'
    BY <1>1, <1>2, <1>3
    DEF AFInv, AFTypeOK, ReaderFits, Told, ReadsOwnBlocks, Numbered, QueueAhead,
        DeliveredInOrder, Errors
  <1>6. OnlyCurrent'
    BY <1>1, <1>3 DEF AFInv, OnlyCurrent
  <1> QED
    BY <1>4, <1>5, <1>6 DEF AFInv

-----------------------------------------------------------------------------
(* The plain socket, and the steps of AF_PACKET together *)

Packet == [seq : Nat, frame : FrameKinds]

Queue == Seq(Packet)

LEMMA Appended ==
    ASSUME NEW S, NEW s \in Seq(S), NEW e \in S
    PROVE  /\ Append(s, e) \in Seq(S) /\ Len(s) \in Nat /\ DOMAIN s = 1..Len(s)
           /\ DOMAIN Append(s, e) = 1..Len(s) + 1
           /\ Append(s, e)[Len(s) + 1] = e
           /\ \A i \in 1..Len(s) : Append(s, e)[i] = s[i] /\ s[i] \in S
  OBVIOUS

LEMMA Shortened ==
    ASSUME NEW S, NEW s \in Seq(S), s # <<>>
    PROVE  /\ Tail(s) \in Seq(S) /\ Len(s) \in Nat \ {0} /\ DOMAIN s = 1..Len(s)
           /\ DOMAIN Tail(s) = 1..Len(s) - 1 /\ Head(s) = s[1]
           /\ \A i \in 1..Len(s) - 1 : Tail(s)[i] = s[i + 1]
           /\ \A i \in 1..Len(s) : s[i] \in S
  OBVIOUS

LEMMA ArriveStep ==
    ASSUME AFInv, Arrive
    PROVE  AFInv'
  <1>1. PICK frame \in FrameKinds \ {"bad"} :
           kernel' = [kernel EXCEPT !.retired = @ + 1,
                         !.queue = Append(@, [seq |-> kernel.retired + 1, frame |-> frame])]
    BY DEF Arrive
  <1>2. UNCHANGED <<kind, backend, life, socket, mapped, slot, reader, delivered, errors, counting>>
        /\ backend = "raw"
    BY DEF Arrive, opened, role
  <1>3. kernel \in Kernel /\ kernel.queue \in Queue /\ kernel.retired \in Nat
        /\ kernel.retired + 1 \in Nat
    BY DEF AFInv, AFTypeOK, Kernel, Queue, Packet
  <1> DEFINE f == [seq |-> kernel.retired + 1, frame |-> frame]
             q == kernel.queue
             n == Len(kernel.queue)
  <1>4. f \in Packet /\ f.seq = kernel.retired + 1
    BY <1>3 DEF Packet
  <1> HIDE DEF f
  <1>5. /\ Append(q, f) \in Queue /\ n \in Nat /\ DOMAIN q = 1..n
        /\ DOMAIN Append(q, f) = 1..n + 1
        /\ Append(q, f)[n + 1] = f
        /\ \A i \in 1..n : Append(q, f)[i] = q[i] /\ q[i].seq \in Nat
    <2>1. \A x \in Packet : x.seq \in Nat
      BY DEF Packet
    <2> QED
      BY <1>3, <1>4, <2>1, Appended DEF Queue
  <1>6. kernel' \in Kernel /\ kernel'.retired = kernel.retired + 1 /\ kernel'.queue = Append(q, f)
    <2>1. kernel' = [kernel EXCEPT !.retired = @ + 1, !.queue = Append(@, f)]
      BY <1>1 DEF f
    <2>2. [kernel EXCEPT !.retired = @ + 1] \in Kernel
      BY <1>3 DEF Kernel
    <2>3. kernel' \in Kernel
      BY <1>3, <1>5, <2>1, <2>2 DEF Kernel, Queue, Packet
    <2>4. kernel'.retired = kernel.retired + 1
      BY <1>3, <2>1 DEF Kernel
    <2>5. kernel'.queue = Append(q, f)
      BY <1>3, <2>1 DEF Kernel
    <2> QED
      BY <2>3, <2>4, <2>5
  <1> HIDE DEF q, n
  <1>7. AFTypeOK'
    BY <1>2, <1>6 DEF AFInv, AFTypeOK, Kernel, counting
  <1>8. ReaderFits' /\ Told' /\ ReadsOwnBlocks' /\ OnlyCurrent' /\ DeliveredInOrder'
    BY <1>2 DEF AFInv, ReaderFits, Told, ReadsOwnBlocks, OnlyCurrent, DeliveredInOrder
  <1>9. Numbered'
    <2>1. kernel.retired \in Nat /\ \A b \in Blocks : slot[b].seq \in Nat
      BY DEF AFInv, AFTypeOK, Block
    <2>2. Numbered /\ slot' = slot /\ kernel'.retired = kernel.retired + 1
      BY <1>2, <1>6 DEF AFInv
    <2> QED
      BY <2>1, <2>2 DEF Numbered
  <1>10. QueueAhead'
    <2>1. \A i \in 1..n : q[i].seq <= kernel.retired
      BY <1>2, <1>5 DEF AFInv, QueueAhead, q
    <2>2. \A i \in 1..n + 1 : kernel'.queue[i].seq <= kernel'.retired
      BY <1>3, <1>4, <1>5, <1>6, <2>1
    <2>3. ASSUME NEW i \in 1..n + 1, NEW k \in 1..n + 1, i < k
          PROVE  kernel'.queue[i].seq < kernel'.queue[k].seq
      <3>1. i \in 1..n
        BY <1>5, <2>3
      <3>2. CASE k \in 1..n
        BY <1>2, <1>5, <1>6, <2>3, <3>1, <3>2 DEF AFInv, QueueAhead, q
      <3>3. CASE k = n + 1
        BY <1>3, <1>4, <1>5, <1>6, <2>1, <3>1, <3>3
      <3> QED
        BY <1>5, <3>2, <3>3
    <2>4. ASSUME NEW j \in DOMAIN delivered
          PROVE  /\ delivered[j][1] <= kernel'.retired
                 /\ \A i \in 1..n + 1 : delivered[j][1] < kernel'.queue[i].seq
      <3>1. delivered[j][1] \in Nat /\ delivered[j][1] <= kernel.retired
        BY <1>2, <2>4 DEF AFInv, AFTypeOK, QueueAhead
      <3>2. \A i \in 1..n : delivered[j][1] < q[i].seq
        BY <1>2, <1>5, <2>4 DEF AFInv, QueueAhead, q
      <3> QED
        BY <1>3, <1>4, <1>5, <1>6, <3>1, <3>2
    <2> QED
      BY <1>2, <1>5, <1>6, <2>2, <2>3, <2>4 DEF QueueAhead
  <1> QED
    BY <1>7, <1>8, <1>9, <1>10 DEF AFInv

LEMMA LoseStep ==
    ASSUME AFInv, Lose
    PROVE  AFInv'
  <1>1. kernel' = [kernel EXCEPT !.unread = @ + 1, !.total = @ + 1]
        /\ UNCHANGED <<kind, backend, life, socket, mapped, slot, reader, delivered, errors, counting>>
    BY DEF Lose, opened, role
  <1>2. kernel \in Kernel /\ kernel.unread + 1 \in Nat /\ kernel.total + 1 \in Nat
    BY DEF AFInv, AFTypeOK, Kernel
  <1>3. kernel' \in Kernel
    BY <1>1, <1>2 DEF Kernel
  <1>4. kernel'.retired = kernel.retired /\ kernel'.queue = kernel.queue
    BY <1>1, <1>2 DEF Kernel
  <1>5. AFTypeOK' /\ ReaderFits'
    BY <1>1, <1>3 DEF AFInv, AFTypeOK, Kernel, ReaderFits, counting
  <1> QED
    BY <1>1, <1>4, <1>5, AFKeeps

LEMMA ReceiveStep ==
    ASSUME AFInv, Receive
    PROVE  AFInv'
  <1> DEFINE q == kernel.queue
             d == <<Head(kernel.queue).seq, 1>>
  <1>1. /\ UNCHANGED <<kind, backend, life, socket, mapped, slot, errors, counting>>
        /\ reader.at = "receive" /\ q # <<>> /\ kernel' = [kernel EXCEPT !.queue = Tail(@)]
        /\ \E c \in BOOLEAN : reader' = [reader EXCEPT !.calling = c]
        /\ delivered' = Append(delivered, d) \/ delivered' = delivered
    BY DEF Receive, opened, role
  <1>2. backend = "raw"
    BY <1>1 DEF AFInv, AFTypeOK, ReaderFits
  <1>3. kernel \in Kernel /\ q \in Queue /\ kernel.retired \in Nat
        /\ delivered \in Seq(Nat \X Nat)
    BY DEF AFInv, AFTypeOK, Kernel, Queue, Packet
  <1>4. kernel' \in Kernel /\ kernel'.retired = kernel.retired /\ kernel'.queue = Tail(q)
    <2>1. Tail(q) \in Queue
      BY <1>1, <1>3 DEF Queue
    <2>2. kernel' \in Kernel
      BY <1>1, <1>3, <2>1 DEF Kernel, Queue, Packet
    <2>3. kernel'.retired = kernel.retired
      BY <1>1, <1>3 DEF Kernel
    <2>4. kernel'.queue = Tail(q)
      BY <1>1, <1>3 DEF Kernel
    <2> QED
      BY <2>2, <2>3, <2>4
  <1> DEFINE n == Len(q)
             old == Len(delivered)
  <1>5. /\ n \in Nat \ {0} /\ DOMAIN q = 1..n /\ DOMAIN Tail(q) = 1..n - 1
        /\ \A i \in 1..n - 1 : Tail(q)[i] = q[i + 1]
        /\ \A i \in 1..n : q[i].seq \in Nat
        /\ Head(q) = q[1]
    <2>1. \A x \in Packet : x.seq \in Nat
      BY DEF Packet
    <2> QED
      BY <1>1, <1>3, <2>1, Shortened DEF Queue
  <1>6. d \in Nat \X Nat /\ d[1] = q[1].seq
    BY <1>5
  <1> HIDE DEF d, q, n
  <1>7. /\ \A i \in 1..n : q[i].seq \in Nat /\ q[i].seq <= kernel.retired
        /\ \A i, k \in 1..n : i < k => q[i].seq < q[k].seq
        /\ \A j \in DOMAIN delivered :
              /\ delivered[j][1] \in Nat /\ delivered[j][1] <= kernel.retired
              /\ \A i \in 1..n : delivered[j][1] < q[i].seq
    <2>1. \A j \in DOMAIN delivered : delivered[j][1] \in Nat
      BY <1>3
    <2>2. DOMAIN kernel.queue = 1..n
      BY <1>5 DEF q
    <2> QED
      BY <1>2, <1>5, <2>1, <2>2 DEF AFInv, QueueAhead, q
  <1>8. /\ old \in Nat /\ DOMAIN delivered = 1..old
        /\ Append(delivered, d) \in Seq(Nat \X Nat)
        /\ DOMAIN Append(delivered, d) = 1..old + 1
        /\ Append(delivered, d)[old + 1] = d
        /\ \A j \in 1..old : Append(delivered, d)[j] = delivered[j]
    BY <1>3, <1>6
  <1> HIDE DEF old
  <1>9. delivered' \in Seq(Nat \X Nat)
        /\ \A j \in DOMAIN delivered' :
              /\ delivered'[j][1] \in Nat /\ delivered'[j][1] <= kernel.retired
              /\ \A i \in 2..n : delivered'[j][1] < q[i].seq
    <2>1. CASE delivered' = delivered
      BY <1>3, <1>5, <1>7, <2>1
    <2>2. CASE delivered' = Append(delivered, d)
      <3>1. ASSUME NEW j \in 1..old
            PROVE  /\ delivered'[j][1] \in Nat /\ delivered'[j][1] <= kernel.retired
                   /\ \A i \in 2..n : delivered'[j][1] < q[i].seq
        <4>1. delivered'[j] = delivered[j] /\ j \in DOMAIN delivered
          BY <1>8, <2>2, <3>1
        <4>2. 2..n \subseteq 1..n
          BY <1>5
        <4> QED
          BY <1>7, <4>1, <4>2
      <3>2. /\ delivered'[old + 1][1] \in Nat /\ delivered'[old + 1][1] <= kernel.retired
            /\ \A i \in 2..n : delivered'[old + 1][1] < q[i].seq
        <4>1. delivered'[old + 1][1] = q[1].seq
          BY <1>6, <1>8, <2>2
        <4>2. 1 \in 1..n /\ \A i \in 2..n : i \in 1..n /\ 1 < i
          BY <1>5
        <4>3. q[1].seq \in Nat /\ q[1].seq <= kernel.retired /\ \A i \in 2..n : q[1].seq < q[i].seq
          BY <1>7, <4>2
        <4> QED
          BY <4>1, <4>3
      <3>3. \A j \in DOMAIN delivered' : j \in 1..old \/ j = old + 1
        BY <1>8, <2>2
      <3>4. delivered' \in Seq(Nat \X Nat)
        BY <1>8, <2>2
      <3> QED
        BY <3>1, <3>2, <3>3, <3>4
    <2> QED
      BY <1>1, <2>1, <2>2
  <1>10. reader' \in Readers /\ reader'.at = "receive" /\ reader'.block = reader.block
         /\ reader'.i = reader.i
    <2>1. reader \in Readers
      BY DEF AFInv, AFTypeOK, Readers
    <2> QED
      BY <1>1, <2>1 DEF Readers
  <1>11. AFTypeOK'
    BY <1>1, <1>4, <1>9, <1>10 DEF AFInv, AFTypeOK, Kernel, Readers, counting
  <1>12. ReaderFits' /\ Told' /\ ReadsOwnBlocks' /\ Numbered' /\ OnlyCurrent'
    BY <1>1, <1>2, <1>4, <1>10
    DEF AFInv, ReaderFits, Told, ReadsOwnBlocks, Numbered, OnlyCurrent
  <1>13. QueueAhead'
    <2> SUFFICES /\ \A i \in 1..n - 1 : Tail(q)[i].seq <= kernel.retired
                 /\ \A i, k \in 1..n - 1 : i < k => Tail(q)[i].seq < Tail(q)[k].seq
                 /\ \A j \in DOMAIN delivered' :
                       /\ delivered'[j][1] <= kernel.retired
                       /\ \A i \in 1..n - 1 : delivered'[j][1] < Tail(q)[i].seq
      BY <1>1, <1>2, <1>4, <1>5 DEF QueueAhead
    <2>1. \A i \in 1..n - 1 : i + 1 \in 2..n /\ i + 1 \in 1..n /\ Tail(q)[i] = q[i + 1]
      BY <1>5
    <2>2. \A i, k \in 1..n - 1 : i < k => i + 1 < k + 1
      BY <1>5
    <2> QED
      BY <1>7, <1>9, <2>1, <2>2
  <1>14. DeliveredInOrder'
    <2>1. CASE delivered' = delivered
      BY <1>1, <2>1 DEF AFInv, DeliveredInOrder
    <2>2. CASE delivered' = Append(delivered, d)
      <3> SUFFICES ASSUME NEW j \in 1..old + 1, NEW k \in 1..old + 1, j < k
                   PROVE  delivered'[j][1] < delivered'[k][1]
        BY <1>1, <1>2, <1>8, <2>2 DEF DeliveredInOrder
      <3>1. j \in 1..old /\ delivered'[j] = delivered[j]
        BY <1>8, <2>2
      <3>2. CASE k \in 1..old
        <4>1. delivered'[k] = delivered[k] /\ k \in DOMAIN delivered /\ j \in DOMAIN delivered
          BY <1>8, <2>2, <3>1, <3>2
        <4>2. delivered[j][1] < delivered[k][1]
          BY <1>2, <4>1 DEF AFInv, DeliveredInOrder
        <4> QED
          BY <3>1, <4>1, <4>2
      <3>3. CASE k = old + 1
        <4>1. delivered'[k] = d /\ j \in DOMAIN delivered /\ 1 \in 1..n
          BY <1>5, <1>8, <2>2, <3>1, <3>3
        <4> QED
          BY <1>6, <1>7, <3>1, <4>1
      <3> QED
        BY <1>8, <3>2, <3>3
    <2> QED
      BY <1>1, <2>1, <2>2
  <1> QED
    BY <1>11, <1>12, <1>13, <1>14 DEF AFInv

\* The reader comes back from the engine's callback.
LEMMA ReturnStep ==
    ASSUME AFInv, CallbackReturns
    PROVE  AFInv'
  <1>1. reader' = [reader EXCEPT !.calling = FALSE]
        /\ UNCHANGED <<kind, backend, life, socket, mapped, slot, kernel, delivered, errors,
                       counting>>
    BY DEF CallbackReturns, opened, role
  <1>2. reader \in Readers
    BY DEF AFInv, AFTypeOK, Readers
  <1>3. reader' \in Readers /\ reader'.at = reader.at /\ reader'.block = reader.block
        /\ reader'.place = reader.place /\ reader'.i = reader.i
    BY <1>1, <1>2 DEF Readers
  <1>4. AFTypeOK'
    BY <1>1, <1>3 DEF AFInv, AFTypeOK, Readers, counting
  <1>5. ReaderFits' /\ Told' /\ ReadsOwnBlocks' /\ Numbered'
    BY <1>1, <1>3 DEF AFInv, ReaderFits, Told, ReadsOwnBlocks, Numbered
  <1>6. OnlyCurrent' /\ QueueAhead' /\ DeliveredInOrder'
    BY <1>1, <1>3 DEF AFInv, OnlyCurrent, QueueAhead, DeliveredInOrder
  <1> QED
    BY <1>4, <1>5, <1>6 DEF AFInv

LEMMA AFStep ==
    ASSUME AFInv, kind = "afpacket", life \in Lives, AFNext
    PROVE  AFInv' /\ life' \in Lives /\ kind' = kind
  <1>1. CASE \/ OpenSocket \/ MapRing \/ Bind \/ Signal \/ ReturnError \/ AFClose
             \/ \E r \in StatsReaders : AskKernel(r) \/ AddCounter(r) \/ Report(r)
    BY <1>1, LifeStep
  <1>2. CASE Register
    BY <1>2, RegisterStep
  <1>3. CASE \/ BeginScan \/ SkipBlock \/ TakeBlock \/ EndScan \/ Poll \/ ReceiveNothing
             \/ ReadFails
    BY <1>3, MoveStep
  <1>4. CASE Retire
    BY <1>4, RetireStep DEF Retire, opened, role
  <1>5. CASE Arrive
    BY <1>5, ArriveStep DEF Arrive, opened, role
  <1>6. CASE Lose
    BY <1>6, LoseStep DEF Lose, opened, role
  <1>7. CASE ReadFrame
    BY <1>7, ReadFrameStep DEF ReadFrame, opened, role
  <1>8. CASE ReleaseBlock
    BY <1>8, ReleaseStep DEF ReleaseBlock, opened, role
  <1>9. CASE Fault
    BY <1>9, FaultStep DEF Fault, opened, role
  <1>10. CASE Receive
    BY <1>10, ReceiveStep DEF Receive, opened, role
  <1>11. CASE CallbackReturns
    BY <1>11, ReturnStep DEF CallbackReturns, opened, role
  <1> QED
    BY <1>1, <1>2, <1>3, <1>4, <1>5, <1>6, <1>7, <1>8, <1>9, <1>10, <1>11 DEF AFNext, Read

-----------------------------------------------------------------------------
(* Sums over a finite set, as the folds of the community modules compute them *)

One(s) == CHOOSE x \in s : TRUE

\* g[s] is the sum of the weights of the members of s.
Summed(g, w, D) ==
    g = [s \in SUBSET D |-> IF s = {} THEN 0 ELSE w[One(s)] + g[s \ {One(s)}]]

LEMMA OneLess ==
    ASSUME NEW D, IsFiniteSet(D), NEW s \in SUBSET D, s # {}
    PROVE  /\ One(s) \in s /\ One(s) \in D /\ s \ {One(s)} \in SUBSET D
           /\ Cardinality(s) \in Nat \ {0} /\ Cardinality(s \ {One(s)}) = Cardinality(s) - 1
  <1>1. One(s) \in s
    BY DEF One
  <1>2. IsFiniteSet(s)
    BY FS_Subset
  <1>3. Cardinality(s) \in Nat /\ Cardinality(s) # 0
    BY <1>2, FS_CardinalityType, FS_EmptySet
  <1>4. Cardinality(s \ {One(s)}) = Cardinality(s) - 1
    BY <1>1, <1>2, FS_RemoveElement
  <1> QED
    BY <1>1, <1>3, <1>4

\* Induction over the subsets of a finite set, by taking one member away.
LEMMA SubsetInduction ==
    ASSUME NEW D, IsFiniteSet(D), NEW P \in SUBSET SUBSET D,
           \A s \in SUBSET D : (s # {} => s \ {One(s)} \in P) => s \in P
    PROVE  P = SUBSET D
  <1> SUFFICES ASSUME NEW t \in SUBSET D, t \notin P PROVE FALSE
    OBVIOUS
  <1> DEFINE I == {Cardinality(s) : s \in (SUBSET D) \ P}
  <1>0. \A s \in SUBSET D : Cardinality(s) \in Nat
    BY FS_Subset, FS_CardinalityType
  <1>1. I \in SUBSET Nat /\ I # {}
    <2>1. t \in (SUBSET D) \ P
      OBVIOUS
    <2> QED
      BY <1>0, <2>1
  <1>2. PICK n \in I : \A m \in I : n <= m
    BY <1>1, Smallest
  <1>3. PICK s \in (SUBSET D) \ P : n = Cardinality(s)
    BY <1>2
  <1>4. s # {} /\ s \ {One(s)} \in (SUBSET D) \ P
    <2>1. s # {} /\ s \ {One(s)} \notin P
      BY <1>3
    <2> QED
      BY <2>1
  <1>5. Cardinality(s \ {One(s)}) = n - 1 /\ n \in Nat
    BY <1>3, <1>4, OneLess
  <1>6. n <= Cardinality(s \ {One(s)})
    BY <1>2, <1>4
  <1> QED
    BY <1>5, <1>6

LEMMA SumExists ==
    ASSUME NEW D, IsFiniteSet(D), NEW w \in [D -> Nat]
    PROVE  \E g \in [SUBSET D -> Nat] : Summed(g, w, D)
  <1> DEFINE S == [SUBSET D -> Nat]
             Body(f, s) == IF s = {} THEN 0 ELSE w[One(s)] + f[s \ {One(s)}]
             \* f sums up the sets of at most n members.
             Fits(f, n) == \A s \in SUBSET D : Cardinality(s) <= n => f[s] = Body(f, s)
  <1>1. \A s \in SUBSET D : Cardinality(s) \in Nat /\ Cardinality(s) <= Cardinality(D)
    BY FS_Subset, FS_CardinalityType
  <1>2. ASSUME NEW f \in S, NEW s \in SUBSET D
        PROVE  Body(f, s) \in Nat
    <2>1. CASE s = {}
      BY <2>1
    <2>2. CASE s # {}
      <3>1. One(s) \in D /\ s \ {One(s)} \in SUBSET D
        BY <2>2, OneLess
      <3> QED
        BY <2>2, <3>1
    <2> QED
      BY <2>1, <2>2
  <1>3. \A s \in SUBSET D : Cardinality(s) = 0 => s = {}
    BY OneLess
  <1>4. ASSUME NEW n \in Nat \ {0}, NEW f \in S, Fits(f, n - 1)
        PROVE  \E h \in S : Fits(h, n)
    <2> DEFINE h == [s \in SUBSET D |-> IF Cardinality(s) = n THEN Body(f, s) ELSE f[s]]
    <2>1. h \in S
      BY <1>2
    <2>2. ASSUME NEW s \in SUBSET D, Cardinality(s) <= n
          PROVE  h[s] = Body(f, s) /\ Body(h, s) = Body(f, s)
      <3>1. h[s] = Body(f, s)
        <4>1. Cardinality(s) = n \/ Cardinality(s) <= n - 1
          BY <1>1, <2>2
        <4> QED
          BY <1>4, <4>1
      <3>2. CASE s = {}
        <4> HIDE DEF h
        <4>1. Body(h, s) = 0 /\ Body(f, s) = 0
          BY <3>2
        <4> QED
          BY <3>1, <4>1
      <3>3. CASE s # {}
        <4>1. s \ {One(s)} \in SUBSET D /\ Cardinality(s \ {One(s)}) # n
          <5>1. /\ s \ {One(s)} \in SUBSET D
                /\ Cardinality(s \ {One(s)}) = Cardinality(s) - 1
            BY <3>3, OneLess
          <5> QED
            BY <1>1, <2>2, <5>1
        <4>2. h[s \ {One(s)}] = f[s \ {One(s)}]
          BY <4>1
        <4> HIDE DEF h
        <4> QED
          BY <3>1, <3>3, <4>2
      <3> QED
        BY <3>1, <3>2, <3>3
    <2> HIDE DEF h, Body
    <2>3. Fits(h, n)
      BY <2>2
    <2> QED
      BY <2>1, <2>3
  <1>5. \A n \in Nat : \E f \in S : Fits(f, n)
    <2> DEFINE I == {n \in Nat : ~ \E f \in S : Fits(f, n)}
    <2> SUFFICES ASSUME I # {} PROVE FALSE
      BY Zenon
    <2>1. PICK n \in I : \A m \in I : n <= m
      BY Smallest
    <2>2. n # 0
      <3> DEFINE f == [s \in SUBSET D |-> 0]
      <3>1. f \in S
        OBVIOUS
      <3>2. ASSUME NEW s \in SUBSET D, Cardinality(s) <= 0 PROVE f[s] = Body(f, s)
        <4>1. s = {}
          BY <1>1, <1>3, <3>2
        <4> QED
          BY <4>1
      <3> HIDE DEF f, S, Body
      <3>3. \E g \in S : Fits(g, 0)
        BY <3>1, <3>2
      <3> QED
        BY <3>3
    <2>3. n - 1 \in Nat /\ ~ (n <= n - 1) /\ n \in Nat \ {0}
      BY <2>2
    <2>4. \E f \in S : Fits(f, n - 1)
      <3>1. n - 1 \notin I
        BY <2>1, <2>3
      <3> HIDE DEF Fits, S
      <3> QED
        BY <2>3, <3>1
    <2> HIDE DEF S, Fits
    <2>5. \E f \in S : Fits(f, n)
      BY <1>4, <2>3, <2>4
    <2> QED
      BY <2>5
  <1>6. PICK g \in S : Fits(g, Cardinality(D))
    <2>1. Cardinality(D) \in Nat
      BY FS_CardinalityType
    <2> HIDE DEF S, Fits
    <2> QED
      BY <1>5, <2>1
  <1>7. \A s \in SUBSET D : g[s] = Body(g, s)
    BY <1>1, <1>6
  <1>8. g = [s \in SUBSET D |-> IF s = {} THEN 0 ELSE w[One(s)] + g[s \ {One(s)}]]
    BY <1>6, <1>7
  <1> QED
    BY <1>6, <1>8 DEF Summed

LEMMA SumOfNothing ==
    ASSUME NEW D, IsFiniteSet(D), NEW w \in [D -> {0}], NEW g \in [SUBSET D -> Nat], Summed(g, w, D)
    PROVE  g[D] = 0
  <1> DEFINE P == {s \in SUBSET D : g[s] = 0}
  <1>1. ASSUME NEW s \in SUBSET D, s # {} => s \ {One(s)} \in P
        PROVE  s \in P
    <2>1. CASE s = {}
      BY <2>1 DEF Summed
    <2>2. CASE s # {}
      <3>1. One(s) \in D /\ s \ {One(s)} \in P
        BY <1>1, <2>2, OneLess
      <3>2. g[s] = w[One(s)] + g[s \ {One(s)}]
        BY <2>2 DEF Summed
      <3>3. w[One(s)] = 0 /\ g[s \ {One(s)}] = 0
        BY <3>1
      <3> QED
        BY <3>2, <3>3
    <2> QED
      BY <2>1, <2>2
  <1>2. P \in SUBSET SUBSET D
    OBVIOUS
  <1>3. P = SUBSET D
    <2> HIDE DEF P
    <2> QED
      BY <1>1, <1>2, SubsetInduction
  <1> QED
    BY <1>3

-----------------------------------------------------------------------------
(* The counters of both captures *)

Got(a) == [r \in StatsReaders |-> a[r].got]

AskSum(a) == FoldFunction(LAMBDA ask, sum : ask.got + sum, 0, a)

LEMMA AskSumIs ==
    ASSUME NEW a \in Askings
    PROVE  /\ Got(a) \in [StatsReaders -> Nat]
           /\ \E g \in [SUBSET StatsReaders -> Nat] :
                 Summed(g, Got(a), StatsReaders) /\ AskSum(a) = g[StatsReaders]
  <1> DEFINE D == StatsReaders
             Fits(g) == g = [s \in SUBSET D |->
                               IF s = {} THEN 0
                               ELSE a[CHOOSE x \in s : TRUE].got
                                      + g[s \ {CHOOSE x \in s : TRUE}]]
             g == CHOOSE g : Fits(g)
  <1>1. DOMAIN a = D /\ Got(a) \in [D -> Nat]
    BY DEF Askings, Got
  <1>2. AskSum(a) = g[D]
    BY <1>1 DEF AskSum, FoldFunction, FoldFunctionOnSet, MapThenFoldSet
  <1>3. ASSUME NEW k
        PROVE  Fits(k) <=> Summed(k, Got(a), D)
    <2>1. ASSUME NEW s \in SUBSET D
          PROVE  (IF s = {} THEN 0
                  ELSE a[CHOOSE x \in s : TRUE].got + k[s \ {CHOOSE x \in s : TRUE}])
                 = IF s = {} THEN 0 ELSE Got(a)[One(s)] + k[s \ {One(s)}]
      <3>1. s # {} => One(s) \in D
        BY ReadersAssumption, OneLess
      <3>2. s # {} => a[One(s)].got = Got(a)[One(s)]
        BY <3>1 DEF Got
      <3> QED
        BY <3>2 DEF One
    <2> QED
      BY <2>1 DEF Summed
  <1>4. PICK k \in [SUBSET D -> Nat] : Summed(k, Got(a), D)
    BY <1>1, ReadersAssumption, SumExists
  <1>5. Fits(g)
    <2>1. Fits(k)
      BY <1>3, <1>4
    <2> HIDE DEF Fits
    <2> QED
      BY <2>1
  <1>6. Summed(g, Got(a), D)
    BY <1>3, <1>5
  <1> HIDE DEF g
  <1>7. g \in [SUBSET D -> Nat]
    <2> DEFINE P == {s \in SUBSET D : g[s] \in Nat}
    <2>1. ASSUME NEW s \in SUBSET D, s # {} => s \ {One(s)} \in P
          PROVE  s \in P
      <3>1. CASE s = {}
        BY <1>6, <3>1 DEF Summed
      <3>2. CASE s # {}
        <4>1. Got(a)[One(s)] \in Nat /\ g[s \ {One(s)}] \in Nat
          BY <1>1, <2>1, <3>2, ReadersAssumption, OneLess
        <4>2. g[s] = Got(a)[One(s)] + g[s \ {One(s)}]
          BY <1>6, <3>2 DEF Summed
        <4> QED
          BY <4>1, <4>2
      <3> QED
        BY <3>1, <3>2
    <2>2. P \in SUBSET SUBSET D
      OBVIOUS
    <2>3. P = SUBSET D
      <3> HIDE DEF P
      <3> QED
        BY <2>1, <2>2, ReadersAssumption, SubsetInduction
    <2>4. DOMAIN g = SUBSET D /\ g = [s \in SUBSET D |-> g[s]]
      <3>1. g = [s \in SUBSET D |-> IF s = {} THEN 0 ELSE Got(a)[One(s)] + g[s \ {One(s)}]]
        BY <1>6 DEF Summed
      <3>2. \E b : g = [s \in SUBSET D |-> b[s]]
        <4> DEFINE b == [s \in SUBSET D |-> IF s = {} THEN 0 ELSE Got(a)[One(s)] + g[s \ {One(s)}]]
        <4>1. g = [s \in SUBSET D |-> b[s]]
          BY <3>1
        <4> QED
          BY <4>1
      <3> QED
        BY <3>2
    <2> QED
      BY <2>3, <2>4
  <1> QED
    BY <1>1, <1>2, <1>6, <1>7

\* What a caller has read and not added yet is no longer in the kernel.
CountersInv ==
    /\ stats + AskSum(asking) + kernel.unread = kernel.total
    /\ \A r \in StatsReaders : asking[r].at # "add" => asking[r].got = 0

LEMMA CountersInit ==
    ASSUME Init
    PROVE  CountersInv
  <1>1. /\ asking = [r \in StatsReaders |-> [at |-> "idle", got |-> 0, last |-> 0]]
        /\ stats = 0 /\ kernel.unread = 0 /\ kernel.total = 0
    BY DEF Init, AFInit
  <1>2. asking \in Askings /\ Got(asking) \in [StatsReaders -> {0}]
    BY <1>1 DEF Askings, Got
  <1>3. PICK g \in [SUBSET StatsReaders -> Nat] :
           Summed(g, Got(asking), StatsReaders) /\ AskSum(asking) = g[StatsReaders]
    BY <1>2, AskSumIs
  <1>4. AskSum(asking) = 0
    BY <1>2, <1>3, ReadersAssumption, SumOfNothing
  <1> QED
    BY <1>1, <1>4 DEF CountersInv

\* Steps of one caller: what it holds changes, and the sum by as much.
LEMMA AskSumStep ==
    ASSUME asking \in Askings, asking' \in Askings, NEW r \in StatsReaders,
           \A x \in StatsReaders \ {r} : asking'[x].got = asking[x].got
    PROVE  /\ AskSum(asking) \in Nat /\ AskSum(asking') \in Nat
           /\ AskSum(asking') + asking[r].got = AskSum(asking) + asking'[r].got
  <1>1. PICK g \in [SUBSET StatsReaders -> Nat] :
           Summed(g, Got(asking), StatsReaders) /\ AskSum(asking) = g[StatsReaders]
    BY AskSumIs
  <1>2. PICK k \in [SUBSET StatsReaders -> Nat] :
           Summed(k, Got(asking'), StatsReaders) /\ AskSum(asking') = k[StatsReaders]
    BY AskSumIs
  <1>3. Got(asking) \in [StatsReaders -> Nat] /\ asking'[r].got \in Nat /\ Got(asking)[r] = asking[r].got
    BY AskSumIs DEF Askings, Got
  <1>4. Got(asking') \in [StatsReaders -> Nat] /\ Got(asking')[r] = asking'[r].got
        /\ \A x \in StatsReaders \ {r} : Got(asking')[x] = Got(asking)[x]
    BY AskSumIs DEF Got
  <1> DEFINE w == Got(asking)
             v == Got(asking')
  <1> HIDE DEF w, v
  <1>5. k[StatsReaders] + w[r] = g[StatsReaders] + v[r]
    <2> DEFINE D == StatsReaders
               P == {s \in SUBSET D :
                        IF r \in s THEN k[s] + w[r] = g[s] + v[r] ELSE k[s] = g[s]}
    <2>a. IsFiniteSet(D)
      BY ReadersAssumption
    <2>b. /\ w \in [D -> Nat] /\ v \in [D -> Nat] /\ \A x \in D \ {r} : v[x] = w[x]
          /\ Summed(g, w, D) /\ Summed(k, v, D)
      BY <1>1, <1>2, <1>3, <1>4 DEF w, v
    <2>c. r \in D /\ g \in [SUBSET D -> Nat] /\ k \in [SUBSET D -> Nat]
      OBVIOUS
    <2> HIDE DEF D
    <2>1. ASSUME NEW s \in SUBSET D, s # {} => s \ {One(s)} \in P
          PROVE  s \in P
      <3>1. CASE s = {}
        BY <2>b, <2>c, <3>1 DEF Summed
      <3>2. CASE s # {}
        <4> DEFINE x == One(s)
                   rest == s \ {x}
        <4>1. x \in s /\ x \in D /\ rest \in SUBSET D
          BY <2>a, <3>2, OneLess
        <4>2. g[s] = w[x] + g[rest] /\ k[s] = v[x] + k[rest]
          BY <2>b, <3>2 DEF Summed
        <4>3. IF r \in rest THEN k[rest] + w[r] = g[rest] + v[r] ELSE k[rest] = g[rest]
          BY <2>1, <2>c, <3>2
        <4>4. g[rest] \in Nat /\ k[rest] \in Nat /\ w[x] \in Nat /\ w[r] \in Nat
              /\ v[r] \in Nat
          BY <2>b, <2>c, <4>1
        <4>5. r \in s <=> r = x \/ r \in rest
          BY <4>1
        <4>6. r = x => r \notin rest
          OBVIOUS
        <4> HIDE DEF x, rest
        <4>7. CASE r = x
          BY <4>1, <4>2, <4>3, <4>4, <4>5, <4>6, <4>7
        <4>8. CASE r # x
          <5>1. v[x] = w[x]
            BY <2>b, <4>1, <4>8
          <5> QED
            BY <4>1, <4>2, <4>3, <4>4, <4>5, <4>8, <5>1
        <4> QED
          BY <4>7, <4>8
      <3> QED
        BY <3>1, <3>2
    <2>2. P \in SUBSET SUBSET D
      OBVIOUS
    <2>3. P = SUBSET D
      <3> HIDE DEF P
      <3> QED
        BY <2>a, <2>1, <2>2, SubsetInduction
    <2> QED
      BY <2>c, <2>3 DEF D
  <1> QED
    BY <1>1, <1>2, <1>3, <1>4, <1>5 DEF w, v

LEMMA CountersStep ==
    ASSUME CountersInv, AFTypeOK, AFTypeOK', AFNext
    PROVE  CountersInv'
  <1>0. asking \in Askings /\ asking' \in Askings /\ stats \in Nat
        /\ kernel.unread \in Nat /\ kernel.total \in Nat /\ kernel \in Kernel
    BY DEF AFTypeOK, Askings, Kernel
  <1>1. ASSUME NEW r \in StatsReaders, AskKernel(r)
        PROVE  CountersInv'
    <2>1. /\ asking[r].at = "idle" /\ stats' = stats
          /\ asking' = [asking EXCEPT ![r].at = "add",
                                      ![r].got = IF socket THEN kernel.unread ELSE 0]
          /\ kernel' = IF socket THEN [kernel EXCEPT !.unread = 0] ELSE kernel
      BY <1>1 DEF AskKernel
    <2>2. /\ asking'[r].at = "add" /\ asking'[r].got = IF socket THEN kernel.unread ELSE 0
          /\ \A x \in StatsReaders \ {r} : asking'[x] = asking[x]
      BY <1>0, <2>1 DEF Askings
    <2>3. kernel'.unread + asking'[r].got = kernel.unread /\ kernel'.total = kernel.total
      BY <1>0, <2>1, <2>2 DEF Kernel
    <2>4. asking[r].got = 0
      BY <2>1 DEF CountersInv
    <2>5. AskSum(asking) \in Nat /\ AskSum(asking') \in Nat
          /\ AskSum(asking') + asking[r].got = AskSum(asking) + asking'[r].got
      BY <1>0, <2>2, AskSumStep
    <2>6. asking'[r].got \in Nat /\ kernel'.unread \in Nat
      BY <1>0, <2>1, <2>2 DEF Kernel
    <2>7. stats' + AskSum(asking') + kernel'.unread = kernel'.total
      BY <1>0, <2>1, <2>3, <2>4, <2>5, <2>6 DEF CountersInv
    <2> QED
      BY <2>2, <2>7 DEF CountersInv
  <1>2. ASSUME NEW r \in StatsReaders, AddCounter(r)
        PROVE  CountersInv'
    <2>1. /\ stats' = stats + asking[r].got /\ kernel' = kernel
          /\ asking' = [asking EXCEPT ![r].at = "report", ![r].got = 0]
      BY <1>2 DEF AddCounter
    <2>2. asking'[r].got = 0 /\ \A x \in StatsReaders \ {r} : asking'[x] = asking[x]
      BY <1>0, <2>1 DEF Askings
    <2>3. AskSum(asking) \in Nat /\ AskSum(asking') \in Nat
          /\ AskSum(asking') + asking[r].got = AskSum(asking) + asking'[r].got
      BY <1>0, <2>2, AskSumStep
    <2>4. asking[r].got \in Nat
      BY <1>0 DEF Askings
    <2>5. stats' + AskSum(asking') + kernel'.unread = kernel'.total
      BY <1>0, <2>1, <2>2, <2>3, <2>4 DEF CountersInv
    <2> QED
      BY <2>2, <2>5 DEF CountersInv
  <1>3. ASSUME NEW r \in StatsReaders, Report(r)
        PROVE  CountersInv'
    <2>1. /\ stats' = stats /\ kernel' = kernel /\ asking[r].at = "report"
          /\ asking' = [asking EXCEPT ![r].at = "idle", ![r].last = stats]
      BY <1>3 DEF Report
    <2>2. asking'[r].got = asking[r].got /\ \A x \in StatsReaders \ {r} : asking'[x] = asking[x]
      BY <1>0, <2>1 DEF Askings
    <2>3. asking[r].got = 0
      BY <2>1 DEF CountersInv
    <2>4. AskSum(asking) \in Nat /\ AskSum(asking') \in Nat
          /\ AskSum(asking') + asking[r].got = AskSum(asking) + asking'[r].got
      BY <1>0, <2>2, AskSumStep
    <2>5. AskSum(asking') = AskSum(asking)
      BY <2>2, <2>3, <2>4
    <2>6. \A x \in StatsReaders : asking'[x].at # "add" => asking'[x].got = 0
      BY <2>2, <2>3 DEF CountersInv
    <2> QED
      BY <2>1, <2>5, <2>6 DEF CountersInv
  <1>4. CASE Lose
    <2>1. UNCHANGED counting /\ kernel' = [kernel EXCEPT !.unread = @ + 1, !.total = @ + 1]
      BY <1>4 DEF Lose
    <2>2. kernel'.unread = kernel.unread + 1 /\ kernel'.total = kernel.total + 1
      BY <1>0, <2>1 DEF Kernel
    <2>3. stats + AskSum(asking) + kernel.unread = kernel.total
      BY DEF CountersInv
    <2>4. AskSum(asking) \in Nat
      BY <1>0, AskSumIs
    <2> QED
      BY <1>0, <2>1, <2>2, <2>3, <2>4 DEF CountersInv, counting
  <1>5. CASE \/ OpenSocket \/ MapRing \/ Bind \/ Register \/ Retire \/ Arrive
             \/ Read \/ CallbackReturns \/ Fault \/ ReadFails \/ Signal \/ ReturnError \/ AFClose
    <2>1. UNCHANGED counting
      BY <1>5 DEF OpenSocket, MapRing, Bind, Register, Retire, Arrive, Read, BeginScan, SkipBlock,
         TakeBlock, ReadFrame, ReleaseBlock, EndScan, Poll, Receive, ReceiveNothing, Fault,
         CallbackReturns, ReadFails, Signal, ReturnError, AFClose, afVars, counting
    <2>2. kernel'.unread = kernel.unread /\ kernel'.total = kernel.total
      <3>1. CASE Retire
        BY <1>0, <3>1 DEF Retire, Kernel
      <3>2. CASE Arrive
        BY <1>0, <3>2 DEF Arrive, Kernel
      <3>3. CASE Receive
        BY <1>0, <3>3 DEF Receive, Kernel
      <3>4. CASE ~Retire /\ ~Arrive /\ ~Receive
        BY <1>5, <3>4 DEF OpenSocket, MapRing, Bind, Register, Read, BeginScan, SkipBlock,
           TakeBlock, ReadFrame, ReleaseBlock, EndScan, Poll, ReceiveNothing, Fault,
           CallbackReturns, ReadFails, Signal, ReturnError, AFClose, afVars
      <3> QED
        BY <3>1, <3>2, <3>3, <3>4
    <2> QED
      BY <2>1, <2>2 DEF CountersInv, counting
  <1> QED
    BY <1>1, <1>2, <1>3, <1>4, <1>5 DEF AFNext

\* The descriptor and the mapping over the life of the IO.
Held ==
    kind = "afpacket" =>
        /\ life = "opening" /\ ~socket => ~mapped
        /\ life \in {"failed", "closed"} => ~socket /\ ~mapped

LEMMA HeldStep ==
    ASSUME Held, kind = "afpacket", kind' = kind, AFNext
    PROVE  Held'
  <1>1. CASE OpenSocket \/ MapRing \/ Bind \/ Register \/ Signal \/ ReturnError \/ AFClose
    BY <1>1 DEF Held, OpenSocket, MapRing, Bind, Register, Signal, ReturnError, AFClose, afVars
  <1>2. CASE \/ Retire \/ Arrive \/ Lose \/ Read \/ CallbackReturns \/ Fault \/ ReadFails
             \/ \E r \in StatsReaders : AskKernel(r) \/ AddCounter(r) \/ Report(r)
    <2>1. UNCHANGED opened
      BY <1>2 DEF Retire, Arrive, Lose, Read, BeginScan, SkipBlock, TakeBlock, ReadFrame,
         ReleaseBlock, EndScan, Poll, Receive, ReceiveNothing, CallbackReturns, Fault, ReadFails, AskKernel,
         AddCounter, Report
    <2> QED
      BY <2>1 DEF Held, opened, role
  <1> QED
    BY <1>1, <1>2 DEF AFNext

-----------------------------------------------------------------------------
(* The queue: types, and the error hook *)

\* The hook comes with Register and goes with the first error it reports.
HookOnce ==
    /\ faults.told <= 1
    /\ faults.told > 0 => faults.hook = "gone"
    /\ kind = "nfqueue" /\ life \in {"opening", "failed", "open"} => faults.hook = "none"

NFInv == NFTypeOK /\ HookOnce /\ (command.doing \in {"add", "remove"} => command.step > 0)

Configs == [tool : {"nft", "iptables"}, local : BOOLEAN, rst : BOOLEAN]

\* The rules of a chain, one by one.
LEMMA ChainRulesAre ==
    ASSUME NEW c
    PROVE  LET q == ChainRules(c)
           IN /\ q \in Seq(Rules) /\ q[1] = "mark" /\ q[2] = "accept"
              /\ c.rst => Len(q) = 5 /\ q[3] = "reset" /\ q[4] = "drop" /\ q[5] = "queue"
              /\ ~c.rst => Len(q) = 4 /\ q[3] = "drop" /\ q[4] = "queue"
  <1> DEFINE middle == IF c.rst THEN <<"reset">> ELSE <<>>
             front == <<"mark", "accept">>
             back == <<"drop", "queue">>
  <1>1. /\ front \in Seq(Rules) /\ Len(front) = 2 /\ front[1] = "mark" /\ front[2] = "accept"
        /\ back \in Seq(Rules) /\ Len(back) = 2 /\ back[1] = "drop" /\ back[2] = "queue"
    BY DEF Rules
  <1>2. middle \in Seq(Rules) /\ Len(middle) = (IF c.rst THEN 1 ELSE 0)
        /\ (c.rst => middle[1] = "reset")
    <2>1. <<"reset">> \in Seq(Rules) /\ Len(<<"reset">>) = 1 /\ <<"reset">>[1] = "reset"
      BY DEF Rules
    <2>2. <<>> \in Seq(Rules) /\ Len(<<>>) = 0
      OBVIOUS
    <2> QED
      BY <2>1, <2>2
  <1> HIDE DEF middle, front, back
  <1>3. front \o middle \in Seq(Rules) /\ Len(front \o middle) = 2 + Len(middle)
        /\ (front \o middle)[1] = "mark" /\ (front \o middle)[2] = "accept"
        /\ (c.rst => (front \o middle)[3] = "reset")
    <2>1. /\ front \o middle \in Seq(Rules)
          /\ Len(front \o middle) = Len(front) + Len(middle)
          /\ \A i \in 1..Len(front) + Len(middle) :
                (front \o middle)[i] = IF i <= Len(front) THEN front[i] ELSE middle[i - Len(front)]
      BY <1>1, <1>2, ConcatProperties
    <2> QED
      BY <1>1, <1>2, <2>1
  <1> DEFINE q == (front \o middle) \o back
  <1>4. /\ q \in Seq(Rules) /\ Len(q) = 4 + Len(middle)
        /\ \A i \in 1..Len(front \o middle) : q[i] = (front \o middle)[i]
        /\ \A i \in Len(front \o middle) + 1..Len(q) : q[i] = back[i - Len(front \o middle)]
    BY <1>1, <1>2, <1>3, ConcatProperties
  <1>5. q[1] = "mark" /\ q[2] = "accept" /\ (c.rst => q[3] = "reset")
    BY <1>2, <1>3, <1>4
  <1>6. c.rst => Len(q) = 5 /\ q[4] = "drop" /\ q[5] = "queue"
    BY <1>1, <1>2, <1>3, <1>4
  <1>7. ~c.rst => Len(q) = 4 /\ q[3] = "drop" /\ q[4] = "queue"
    BY <1>1, <1>2, <1>3, <1>4
  <1>8. q = ChainRules(c)
    BY DEF ChainRules, front, middle, back
  <1> QED
    BY <1>4, <1>5, <1>6, <1>7, <1>8

LEMMA ChainRulesType ==
    ASSUME NEW c
    PROVE  ChainRules(c) \in Seq(Rules) /\ Len(ChainRules(c)) \in {4, 5}
  BY ChainRulesAre

LEMMA RemoveFirstType ==
    ASSUME NEW S, NEW s \in Seq(S), NEW e
    PROVE  RemoveFirst(s, e) \in Seq(S)
  <1> DEFINE I == {i \in 1..Len(s) : s[i] = e}
  <1>1. CASE I = {}
    BY <1>1 DEF RemoveFirst
  <1>2. CASE I # {}
    <2>1. \E x \in I : \A y \in I : x <= y
      <3>1. I \in SUBSET Nat
        OBVIOUS
      <3> QED
        BY <1>2, <3>1, Smallest
    <2>2. Min(I) \in I
      BY <2>1 DEF Min
    <2> DEFINE m == Min(I)
    <2>3. RemoveFirst(s, e) = SubSeq(s, 1, m - 1) \o SubSeq(s, m + 1, Len(s))
      BY <1>2 DEF RemoveFirst, RemoveAt, SelectInSeq
    <2>4. m \in 1..Len(s) /\ Len(s) \in Nat /\ \A i \in 1..Len(s) : s[i] \in S
      BY <2>2
    <2> HIDE DEF m
    <2>5. SubSeq(s, 1, m - 1) \in Seq(S) /\ SubSeq(s, m + 1, Len(s)) \in Seq(S)
      <3>1. \A i \in 1..m - 1 : s[i] \in S
        BY <2>4
      <3>2. \A i \in m + 1..Len(s) : s[i] \in S
        BY <2>4
      <3> QED
        BY <2>4, <3>1, <3>2, SubSeqProperties
    <2> QED
      BY <2>3, <2>5, ConcatProperties
  <1> QED
    BY <1>1, <1>2

LEMMA CompleteType ==
    ASSUME NEW c
    PROVE  Complete(c) \in [Families -> [ChainNames -> Seq(Rules)]]
  BY ChainRulesType DEF Complete

LEMMA EmptyType == Empty \in [Families -> [ChainNames -> Seq(Rules)]]
  <1>1. <<>> \in Seq(Rules)
    OBVIOUS
  <1> QED
    BY <1>1 DEF Empty

LEMMA CallType ==
    ASSUME NFTypeOK, command.step > 0
    PROVE  Call.rule \in Rules /\ Call.family \in Families
  <1> DEFINE n == Len(ChainRules(config))
             s == command.step
  <1>1. s \in Nat \ {0}
    BY DEF NFTypeOK
  <1>2. n \in {4, 5} /\ ChainRules(config) \in Seq(Rules)
    BY ChainRulesType
  <1> HIDE DEF n, s
  <1>3. (((s - 1) \div 2) % n) + 1 \in 1..n
    <2>1. (s - 1) \div 2 \in Nat
      BY <1>1
    <2>2. CASE n = 4
      BY <2>1, <2>2
    <2>3. CASE n = 5
      BY <2>1, <2>3
    <2> QED
      BY <1>2, <2>2, <2>3
  <1>4. ChainRules(config)[(((s - 1) \div 2) % n) + 1] \in Rules
    BY <1>2, <1>3 DEF n
  <1>5. Call.rule = ChainRules(config)[(((s - 1) \div 2) % n) + 1]
    BY DEF Call, CallAt, n, s
  <1>6. Call.family \in Families
    BY DEF Call, CallAt, Families
  <1> QED
    BY <1>4, <1>5, <1>6

Chains == [Families -> [ChainNames -> Seq(Rules)]]

Commands == [doing : {"none", "add", "remove", "done"}, step : Nat]

Faults == [commands : Nat, told : Nat, hook : {"none", "on", "gone"}]

Dials == [Protected -> {"no", "covered", "exposed"}]

QueuedPacket == [conn : Conns, form : Forms, at : {"queue", "user", "passed", "dropped"}]

\* What is flushed out of the queue is still the packets.
LEMMA FlushedType ==
    ASSUME packets \in Seq(QueuedPacket)
    PROVE  /\ Flushed \in Seq(QueuedPacket) /\ Len(Flushed) = Len(packets)
           /\ DOMAIN Flushed = DOMAIN packets
           /\ \A k \in DOMAIN packets :
                 /\ Flushed[k].conn = packets[k].conn /\ Flushed[k].form = packets[k].form
                 /\ Flushed[k].at \in {packets[k].at, "dropped"}
  <1>1. \A p \in QueuedPacket : [p EXCEPT !.at = "dropped"] \in QueuedPacket
    BY DEF QueuedPacket
  <1>2. Len(packets) \in Nat /\ DOMAIN packets = 1..Len(packets)
        /\ \A k \in 1..Len(packets) : packets[k] \in QueuedPacket
    OBVIOUS
  <1>3. Flushed = [k \in 1..Len(packets) |->
                     IF k \in Waiting THEN [packets[k] EXCEPT !.at = "dropped"] ELSE packets[k]]
    BY <1>2 DEF Flushed
  <1>4. \A k \in 1..Len(packets) : Flushed[k] \in QueuedPacket
    BY <1>1, <1>2, <1>3
  <1>5. Flushed \in Seq(QueuedPacket) /\ Len(Flushed) = Len(packets)
    BY <1>2, <1>3, <1>4
  <1>6. ASSUME NEW k \in DOMAIN packets
        PROVE  /\ Flushed[k].conn = packets[k].conn /\ Flushed[k].form = packets[k].form
               /\ Flushed[k].at \in {packets[k].at, "dropped"}
    <2>1. packets[k] \in QueuedPacket /\ Flushed[k] \in {[packets[k] EXCEPT !.at = "dropped"], packets[k]}
      BY <1>2, <1>3
    <2> QED
      BY <2>1 DEF QueuedPacket
  <1> QED
    BY <1>2, <1>3, <1>5, <1>6

LEMMA NFInitInv ==
    ASSUME Init
    PROVE  NFInv
  <1> USE DEF Init, NFInit
  <1>1. chains \in Chains
    BY CompleteType, EmptyType DEF Chains
  <1>2. faults \in Faults /\ command \in Commands
    BY DEF Faults, Commands
  <1>3. packets \in Seq(QueuedPacket)
    OBVIOUS
  <1>4. mark \in [Conns -> {"none", "accept", "drop"}]
    OBVIOUS
  <1>5. dialed \in [Protected -> {"no", "covered", "exposed"}]
    OBVIOUS
  <1>6. NFTypeOK
    BY <1>1, <1>2, <1>3, <1>4, <1>5 DEF NFTypeOK, Chains, Commands, Faults, QueuedPacket
  <1> QED
    BY <1>6 DEF NFInv, HookOnce

\* Steps of the program that manage its rules.
LEMMA ManageStep ==
    ASSUME NFInv, kind = "nfqueue", life \in Lives,
           Manage \/ QueueSignal \/ HookFails \/ HookStops
    PROVE  NFInv' /\ life' \in Lives /\ kind' = kind
  <1>0. /\ chains \in Chains /\ command \in Commands /\ faults \in Faults
        /\ packets \in Seq(QueuedPacket)
        /\ faults.told <= 1 /\ (faults.told > 0 => faults.hook = "gone")
        /\ faults.commands + 1 \in Nat
    BY DEF NFInv, HookOnce, NFTypeOK, Chains, Commands, Faults, QueuedPacket
  <1> DEFINE More == [faults EXCEPT !.commands = @ + 1]
  <1>f. More \in Faults /\ More.told = faults.told /\ More.hook = faults.hook
    BY <1>0 DEF Faults
  <1>s. ASSUME command.doing \in {"add", "remove"}
        PROVE  /\ NextStep \in Commands /\ NextStep.step > 0
               /\ Call.rule \in Rules /\ Call.family \in Families
    <2>1. command.step + 1 \in Nat /\ command.step + 1 > 0
      BY <1>0 DEF Commands
    <2>2. NextStep \in Commands
      BY <1>0, <2>1 DEF NextStep, Commands
    <2>3. NextStep.step = command.step + 1
      BY <1>0 DEF NextStep, Commands
    <2> QED
      BY <1>s, <2>1, <2>2, <2>3, CallType DEF NFInv
  <1>k. SUFFICES
          /\ kind' = kind /\ life' \in Lives
          /\ UNCHANGED <<config, mark, dialed>>
          /\ chains' \in Chains /\ command' \in Commands /\ faults' \in Faults
          /\ rSet' \in BOOLEAN /\ signalled' \in BOOLEAN /\ packets' \in Seq(QueuedPacket)
          /\ HookOnce'
          /\ command'.doing \in {"add", "remove"} => command'.step > 0
    BY DEF NFInv, NFTypeOK, Chains, Commands, Faults, QueuedPacket
  <1>t. rSet \in BOOLEAN /\ signalled \in BOOLEAN
        /\ (command.doing \in {"add", "remove"} => command.step > 0)
    BY DEF NFInv, NFTypeOK
  <1> DEFINE Rest == [doing |-> "none", step |-> 0]
             Done == [doing |-> "done", step |-> 0]
  <1>r. Rest \in Commands /\ Done \in Commands
    BY DEF Commands
  <1>1. CASE OpenQueue
    <2>1. /\ UNCHANGED <<kind, config, chains, command, rSet, signalled, mark, packets, faults,
                         dialed>>
          /\ life = "opening" /\ life' \in {"open", "failed"}
      BY <1>1 DEF OpenQueue, nfVars
    <2>2. HookOnce'
      BY <2>1 DEF NFInv, HookOnce
    <2> QED
      BY <1>0, <1>t, <2>1, <2>2 DEF Lives
  <1>2. CASE RegisterQueue
    <2>1. /\ UNCHANGED <<kind, config, chains, rSet, signalled, mark, packets, dialed>>
          /\ life = "open" /\ (faults' = [faults EXCEPT !.hook = "on"] \/ faults' = More)
          /\ life' \in {"running", "cancelled"}
          /\ command' = command \/ command' = [doing |-> "add", step |-> 1]
      BY <1>2 DEF RegisterQueue
    <2>2. faults.told = 0
      BY <1>0, <2>1 DEF NFInv, HookOnce, Faults
    <2>3. faults' \in Faults /\ faults'.told = 0
      <3>1. CASE faults' = [faults EXCEPT !.hook = "on"]
        BY <1>0, <2>2, <3>1 DEF Faults
      <3>2. CASE faults' = More
        BY <1>f, <2>2, <3>2
      <3> QED
        BY <2>1, <3>1, <3>2
    <2>4. [doing |-> "add", step |-> 1] \in Commands
      BY DEF Commands
    <2>5. HookOnce'
      BY <2>1, <2>3 DEF HookOnce
    <2>6. command' \in Commands /\ (command'.doing \in {"add", "remove"} => command'.step > 0)
      BY <1>0, <1>t, <2>1, <2>4
    <2> QED
      BY <1>0, <1>t, <2>1, <2>3, <2>5, <2>6 DEF Lives
  <1>3. CASE AddTable
    <2>1. /\ UNCHANGED <<kind, config, signalled, mark, packets, dialed>>
          /\ command' = Rest /\ chains' \in {Complete(config), Empty}
          /\ rSet' \in {rSet, TRUE} /\ life' \in {life, "cancelled"}
          /\ faults' = faults \/ faults' = More
      BY <1>3 DEF AddTable
    <2>2. chains' \in Chains
      BY <2>1, CompleteType, EmptyType DEF Chains
    <2>3. HookOnce' /\ faults' \in Faults
      BY <1>0, <1>f, <2>1 DEF NFInv, HookOnce
    <2> QED
      BY <1>0, <1>r, <1>t, <2>1, <2>2, <2>3 DEF Lives
  <1>4. CASE AppendRule
    <2>1. /\ UNCHANGED <<kind, config, signalled, mark, packets, dialed>>
          /\ command.doing = "add"
          /\ command' = Rest \/ command' = NextStep
          /\ rSet' \in BOOLEAN /\ life' \in {life, "cancelled"}
          /\ faults' = faults \/ faults' = More
          /\ \/ chains' = chains
             \/ chains' = [chains EXCEPT ![Call.family][Call.chain] = Append(@, Call.rule)]
      BY <1>4, <1>t DEF AppendRule
    <2>2. chains' \in Chains
      <3>1. \A q \in Seq(Rules) : Append(q, Call.rule) \in Seq(Rules)
        BY <1>s, <2>1
      <3>2. CASE chains' = [chains EXCEPT ![Call.family][Call.chain] = Append(@, Call.rule)]
        <4> DEFINE new == [chains[Call.family] EXCEPT ![Call.chain] = Append(@, Call.rule)]
        <4>1. Call.family \in Families /\ chains[Call.family] \in [ChainNames -> Seq(Rules)]
          BY <1>0, <1>s, <2>1 DEF Chains
        <4>2. new \in [ChainNames -> Seq(Rules)]
          BY <3>1, <4>1
        <4>3. chains' = [chains EXCEPT ![Call.family] = new]
          BY <3>2
        <4> QED
          BY <1>0, <4>1, <4>2, <4>3 DEF Chains
      <3> QED
        BY <1>0, <2>1, <3>2
    <2>3. HookOnce' /\ faults' \in Faults
      BY <1>0, <1>f, <2>1 DEF NFInv, HookOnce
    <2>4. command' \in Commands /\ (command'.doing \in {"add", "remove"} => command'.step > 0)
      BY <1>r, <1>s, <2>1
    <2> QED
      BY <1>0, <1>t, <2>1, <2>2, <2>3, <2>4 DEF Lives
  <1>5. CASE QueueReturn \/ QueueSignal
    <2>1. /\ UNCHANGED <<kind, config, chains, command, rSet, mark, packets, faults, dialed>>
          /\ signalled' \in {signalled, TRUE} /\ life' \in {life, "cancelled"}
      BY <1>5 DEF QueueReturn, QueueSignal, nfVars
    <2>2. HookOnce'
      BY <2>1 DEF NFInv, HookOnce
    <2> QED
      BY <1>0, <1>t, <2>1, <2>2 DEF Lives
  <1>6. CASE BeginClose
    <2>1. /\ UNCHANGED <<kind, life, config, chains, signalled, mark, packets, faults, dialed>>
          /\ command' = [doing |-> "remove", step |-> 1] /\ rSet' = FALSE
      BY <1>6 DEF BeginClose
    <2>2. command' \in Commands /\ command'.step > 0
      BY <2>1 DEF Commands
    <2>3. HookOnce'
      BY <2>1 DEF NFInv, HookOnce
    <2> QED
      BY <1>0, <1>t, <2>1, <2>2, <2>3
  <1>7. CASE DeleteTable
    <2>1. /\ UNCHANGED <<kind, life, config, rSet, signalled, mark, packets, dialed>>
          /\ command' = Done /\ chains' \in {chains, Empty}
          /\ faults' = faults \/ faults' = More
      BY <1>7 DEF DeleteTable
    <2>2. chains' \in Chains
      BY <1>0, <2>1, EmptyType DEF Chains
    <2>3. HookOnce' /\ faults' \in Faults
      BY <1>0, <1>f, <2>1 DEF NFInv, HookOnce
    <2> QED
      BY <1>0, <1>r, <1>t, <2>1, <2>2, <2>3
  <1>8. CASE DeleteRule
    <2>1. /\ UNCHANGED <<kind, life, config, rSet, signalled, mark, packets, dialed>>
          /\ command.doing = "remove"
          /\ command' = Done \/ command' = NextStep
          /\ faults' = faults \/ faults' = More
          /\ \/ chains' = chains
             \/ chains' = [chains EXCEPT ![Call.family][Call.chain] = RemoveFirst(@, Call.rule)]
      BY <1>8 DEF DeleteRule
    <2>2. chains' \in Chains
      <3>1. \A q \in Seq(Rules) : RemoveFirst(q, Call.rule) \in Seq(Rules)
        BY RemoveFirstType
      <3>2. CASE chains' = [chains EXCEPT ![Call.family][Call.chain] = RemoveFirst(@, Call.rule)]
        <4> DEFINE new == [chains[Call.family] EXCEPT ![Call.chain] = RemoveFirst(@, Call.rule)]
        <4>1. Call.family \in Families /\ chains[Call.family] \in [ChainNames -> Seq(Rules)]
          BY <1>0, <1>s, <2>1 DEF Chains
        <4>2. new \in [ChainNames -> Seq(Rules)]
          BY <3>1, <4>1
        <4>3. chains' = [chains EXCEPT ![Call.family] = new]
          BY <3>2
        <4> QED
          BY <1>0, <4>1, <4>2, <4>3 DEF Chains
      <3> QED
        BY <1>0, <2>1, <3>2
    <2>3. HookOnce' /\ faults' \in Faults
      BY <1>0, <1>f, <2>1 DEF NFInv, HookOnce
    <2>4. command' \in Commands /\ (command'.doing \in {"add", "remove"} => command'.step > 0)
      BY <1>r, <1>s, <2>1
    <2> QED
      BY <1>0, <1>t, <2>1, <2>2, <2>3, <2>4
  <1>9. CASE CloseQueue
    <2>1. /\ UNCHANGED <<kind, config, chains, rSet, signalled, mark, faults, dialed>>
          /\ life' = "closed" /\ command' = Rest /\ packets' = Flushed
      BY <1>9 DEF CloseQueue
    <2>2. HookOnce'
      BY <1>0, <2>1 DEF HookOnce
    <2> QED
      BY <1>0, <1>r, <1>t, <2>1, <2>2, FlushedType DEF Lives
  <1>10. CASE HookFails \/ HookStops
    <2>1. /\ UNCHANGED <<kind, life, config, chains, command, rSet, signalled, mark, dialed>>
          /\ faults.hook = "on" /\ packets' = Flushed
          /\ \/ faults' = [faults EXCEPT !.told = @ + 1, !.hook = "gone"]
             \/ faults' = [faults EXCEPT !.hook = "gone"]
      BY <1>10 DEF HookFails, HookStops
    <2>2. faults.told = 0
      BY <1>0, <2>1 DEF Faults
    <2>3. faults' \in Faults /\ faults'.told <= 1 /\ faults'.hook = "gone"
      <3>1. CASE faults' = [faults EXCEPT !.hook = "gone"]
        BY <1>0, <2>2, <3>1 DEF Faults
      <3>2. CASE faults' = [faults EXCEPT !.told = @ + 1, !.hook = "gone"]
        <4>1. [faults EXCEPT !.told = @ + 1] \in Faults
          BY <1>0, <2>2 DEF Faults
        <4>2. faults' \in Faults
          BY <3>2, <4>1 DEF Faults
        <4>3. faults'.told = 1 /\ faults'.hook = "gone"
          BY <1>0, <2>2, <3>2 DEF Faults
        <4> QED
          BY <4>2, <4>3
      <3> QED
        BY <2>1, <3>1, <3>2
    <2>4. kind = "nfqueue" => life \notin {"opening", "failed", "open"}
      BY <2>1 DEF NFInv, HookOnce
    <2>5. HookOnce'
      BY <2>1, <2>3, <2>4 DEF HookOnce
    <2> QED
      BY <1>0, <1>t, <2>1, <2>3, <2>5, FlushedType
  <1> QED
    BY <1>1, <1>2, <1>3, <1>4, <1>5, <1>6, <1>7, <1>8, <1>9, <1>10 DEF Manage

LEMMA VerdictType ==
    ASSUME NEW chain \in Seq(Rules), NEW c, NEW dir
    PROVE  Verdict(chain, c, dir) \in {"queue", "passed", "dropped"}
  <1> DEFINE deciding == {k \in DOMAIN chain : Decides(chain[k], MarkAt(chain, k, c, dir))}
             first == CHOOSE k \in deciding : \A j \in deciding : k <= j
             to == Verdict(chain, c, dir)
  <1>1. CASE deciding = {}
    BY <1>1 DEF Verdict
  <1>2. CASE deciding # {}
    <2>1. deciding \in SUBSET Nat
      OBVIOUS
    <2>2. first \in deciding
      BY <1>2, <2>1, Smallest
    <2>3. chain[first] \in {"accept", "reset", "drop", "queue"}
      BY <2>2 DEF Decides
    <2>4. to = CASE chain[first] = "accept" -> "passed"
                 [] chain[first] \in {"reset", "drop"} -> "dropped"
                 [] chain[first] = "queue" -> "queue"
      BY <1>2 DEF Verdict
    <2> HIDE DEF first, to
    <2> QED
      BY <2>3, <2>4 DEF to
  <1> QED
    BY <1>1, <1>2

\* Steps that move packets.
LEMMA PacketStep ==
    ASSUME NFInv, \/ Deliver \/ Answer
                  \/ \E c \in Conns, dir \in ChainNames, form \in Forms : PacketArrives(c, dir, form)
    PROVE  NFInv' /\ UNCHANGED <<kind, life>>
  <1>0. packets \in Seq(QueuedPacket) /\ mark \in [Conns -> {"none", "accept", "drop"}]
        /\ dialed \in Dials
    BY DEF NFInv, NFTypeOK, QueuedPacket, Dials
  <1> DEFINE P == packets' \in Seq(QueuedPacket)
             M == mark' \in [Conns -> {"none", "accept", "drop"}]
             U == /\ dialed' \in Dials
                  /\ UNCHANGED <<kind, life, config, chains, command, rSet, signalled, faults>>
  <1>a. SUFFICES P /\ M /\ U
    BY DEF NFInv, NFTypeOK, HookOnce, QueuedPacket, Dials
  <1>b. ASSUME NEW k \in DOMAIN packets, NEW at \in {"queue", "user", "passed", "dropped"}
        PROVE  [packets EXCEPT ![k].at = at] \in Seq(QueuedPacket)
    <2>1. packets[k] \in QueuedPacket
      BY <1>0
    <2>2. [packets[k] EXCEPT !.at = at] \in QueuedPacket
      BY <2>1 DEF QueuedPacket
    <2> QED
      BY <1>0, <2>2
  <1>1. CASE Deliver
    <2> DEFINE first == CHOOSE k \in Queued : \A j \in Queued : k <= j
               at == CASE packets[first].form = "short" -> "dropped"
                       [] packets[first].form = "untracked" ->
                             IF config.local THEN "passed" ELSE "dropped"
                       [] packets[first].form = "whole" -> "user"
    <2>1. Queued # {} /\ packets' = [packets EXCEPT ![first].at = at]
          /\ UNCHANGED <<mark, dialed>> /\ U
      BY <1>0, <1>1 DEF Deliver
    <2>2. first \in DOMAIN packets
      <3>1. Queued \in SUBSET Nat
        BY <1>0 DEF Queued
      <3>2. first \in Queued
        BY <2>1, <3>1, Smallest
      <3> QED
        BY <3>2 DEF Queued
    <2>3. at \in {"queue", "user", "passed", "dropped"}
      <3> HIDE DEF first
      <3>1. packets[first].form \in {"whole", "short", "untracked"}
        <4>1. packets[first] \in QueuedPacket
          BY <1>0, <2>2
        <4> QED
          BY <4>1 DEF QueuedPacket, Forms
      <3>2. CASE packets[first].form = "short"
        BY <3>2
      <3>3. CASE packets[first].form = "untracked"
        BY <3>3
      <3>4. CASE packets[first].form = "whole"
        BY <3>4
      <3> QED
        BY <3>1, <3>2, <3>3, <3>4
    <2> HIDE DEF first, at
    <2>4. P
      BY <1>b, <2>1, <2>2, <2>3
    <2> QED
      BY <1>0, <2>1, <2>4
  <1>2. ASSUME NEW k \in DOMAIN packets, NEW v \in Verdicts, SetVerdict(k, v)
        PROVE  P /\ M /\ U
    <2>1. UNCHANGED <<kind, life, config, chains, command, rSet, signalled, faults, dialed>>
      BY <1>2 DEF SetVerdict
    <2>2. P
      <3> DEFINE at == IF v \in {"Drop", "DropStream"} THEN "dropped" ELSE "passed"
      <3>1. packets' = [packets EXCEPT ![k].at = at]
        BY <1>2 DEF SetVerdict
      <3>2. at \in {"queue", "user", "passed", "dropped"}
        OBVIOUS
      <3> HIDE DEF at
      <3> QED
        BY <1>b, <3>1, <3>2
    <2>3. M
      <3>1. \/ mark' = mark
            \/ mark' = [mark EXCEPT ![packets[k].conn] = "accept"]
            \/ mark' = [mark EXCEPT ![packets[k].conn] = "drop"]
        BY <1>2 DEF SetVerdict
      <3> QED
        BY <1>0, <3>1
    <2> QED
      BY <1>0, <2>1, <2>2, <2>3
  <1>3. ASSUME NEW c \in Conns, NEW dir \in ChainNames, NEW form \in Forms,
               PacketArrives(c, dir, form)
        PROVE  P /\ M /\ U
    <2> DEFINE chain == chains[FamilyOf[c]][dir]
               to == Verdict(chain, c, dir)
               at == IF to = "queue" /\ Cardinality(Queued) >= QueueLength THEN "dropped" ELSE to
    <2>1. /\ dialed' \in Dials
          /\ mark' = mark \/ mark' = [mark EXCEPT ![c] = MarkAt(chain, Len(chain) + 1, c, dir)]
          /\ packets' = Append(packets, [conn |-> c, form |-> form, at |-> at])
          /\ UNCHANGED <<kind, life, config, chains, command, rSet, signalled, faults>>
      BY <1>0, <1>3 DEF PacketArrives, Dials
    <2>2. chain \in Seq(Rules)
      BY NFQueueAssumption DEF NFInv, NFTypeOK
    <2> HIDE DEF chain
    <2>3. to \in {"queue", "passed", "dropped"}
      BY <2>2, VerdictType
    <2> HIDE DEF to
    <2>4. P
      <3>1. [conn |-> c, form |-> form, at |-> at] \in QueuedPacket
        BY <2>3 DEF QueuedPacket
      <3> HIDE DEF at
      <3> QED
        BY <1>0, <2>1, <3>1
    <2>5. M
      <3>1. MarkAt(chain, Len(chain) + 1, c, dir) \in {"none", "accept", "drop"}
        BY <1>0 DEF MarkAt
      <3> QED
        BY <1>0, <2>1, <3>1
    <2> QED
      BY <1>0, <2>1, <2>4, <2>5
  <1> QED
    BY <1>1, <1>2, <1>3 DEF Answer

LEMMA HooksAre ==
    ASSUME NEW c \in Configs
    PROVE  /\ c.local => Len(Hooks(c)) = 2 /\ Hooks(c)[1] = "INPUT" /\ Hooks(c)[2] = "OUTPUT"
                         /\ Range(Hooks(c)) = {"INPUT", "OUTPUT"}
           /\ ~c.local => Len(Hooks(c)) = 1 /\ Hooks(c)[1] = "FORWARD"
                          /\ Range(Hooks(c)) = {"FORWARD"}
  BY DEF Hooks, Range

LEMMA CallCountType ==
    ASSUME NEW c \in Configs
    PROVE  CallCount(c) \in Nat
  <1>1. Len(Hooks(c)) \in {1, 2}
    BY HooksAre DEF Configs
  <1>2. Len(ChainRules(c)) \in {4, 5}
    BY ChainRulesType
  <1> QED
    BY <1>1, <1>2 DEF CallCount

\* The place of a chain among the hooks.
Place(h) == IF h = "OUTPUT" THEN 2 ELSE 1

\* How many of the calls before a step of the list are for one chain of a family.
CallsBefore(c, step, f, h) ==
    LET n == Len(ChainRules(c))
        t == step - 1 - 2 * n * (Place(h) - 1)
    IN IF t < 0 THEN 0 ELSE IF t >= 2 * n THEN n
       ELSE IF f = "ipv4" THEN (t + 1) \div 2 ELSE t \div 2

LEMMA CallsAdvance ==
    ASSUME NEW c \in Configs, Generates(c), NEW s \in 1..CallCount(c)
    PROVE  LET call == CallAt(c, s)
               m == CallsBefore(c, s, call.family, call.chain)
           IN /\ call.family \in Families /\ call.chain \in Range(Hooks(c))
              /\ m \in 0..Len(ChainRules(c)) - 1 /\ call.rule = ChainRules(c)[m + 1]
              /\ \A f \in Families : \A h \in Range(Hooks(c)) :
                    CallsBefore(c, s + 1, f, h) =
                       IF f = call.family /\ h = call.chain THEN m + 1 ELSE CallsBefore(c, s, f, h)
  <1> DEFINE n == Len(ChainRules(c))
             fam == IF s % 2 = 1 THEN "ipv4" ELSE "ipv6"
             i == (s - 1) \div (2 * n) + 1
             h0 == Hooks(c)[i]
             t == s - 1 - 2 * n * (i - 1)
             r == ((s - 1) \div 2) % n
  <1>1. n \in {4, 5} /\ (c.local => n = 4)
    BY ChainRulesAre DEF Generates, Configs
  <1>2. CallAt(c, s) = [family |-> fam, rule |-> ChainRules(c)[r + 1], chain |-> h0]
    BY DEF CallAt
  <1>3. s \in Nat /\ s >= 1 /\ s <= IF c.local THEN 4 * n ELSE 2 * n
    <2>1. Len(Hooks(c)) = IF c.local THEN 2 ELSE 1
      BY HooksAre
    <2>2. CallCount(c) = 2 * Len(Hooks(c)) * n
      BY DEF CallCount
    <2> HIDE DEF n
    <2>3. CallCount(c) = IF c.local THEN 4 * n ELSE 2 * n
      BY <1>1, <2>1, <2>2
    <2> QED
      BY <1>1, <2>3
  <1> HIDE DEF n
  <1>4. i \in {1, 2} /\ (~c.local => i = 1) /\ t \in 0..2 * n - 1
    <2>1. CASE n = 4
      BY <1>1, <1>3, <2>1
    <2>2. CASE n = 5
      BY <1>1, <1>3, <2>2
    <2> QED
      BY <1>1, <2>1, <2>2
  <1>5. r = t \div 2 /\ r \in 0..n - 1 /\ (t % 2 = 0 <=> s % 2 = 1)
    <2>1. CASE n = 4
      BY <1>1, <1>3, <1>4, <2>1
    <2>2. CASE n = 5
      BY <1>1, <1>3, <1>4, <2>2
    <2> QED
      BY <1>1, <2>1, <2>2
  <1>6. h0 \in Range(Hooks(c)) /\ Place(h0) = i
        /\ \A h \in Range(Hooks(c)) : Place(h) \in {1, 2} /\ (Place(h) = i <=> h = h0)
    BY <1>4, HooksAre DEF Place
  <1> HIDE DEF i, h0, t, r
  <1>7. CallsBefore(c, s, fam, h0) = r
    <2>1. CallsBefore(c, s, fam, h0) = IF fam = "ipv4" THEN (t + 1) \div 2 ELSE t \div 2
      BY <1>1, <1>4, <1>6 DEF CallsBefore, n, t
    <2> QED
      BY <1>4, <1>5, <2>1
  <1>8. ASSUME NEW f \in Families, NEW h \in Range(Hooks(c))
        PROVE  CallsBefore(c, s + 1, f, h) =
                  IF f = fam /\ h = h0 THEN r + 1 ELSE CallsBefore(c, s, f, h)
    <2>1. CASE h = h0
      <3>1. CallsBefore(c, s, f, h) = IF f = "ipv4" THEN (t + 1) \div 2 ELSE t \div 2
        BY <1>1, <1>4, <1>6, <2>1 DEF CallsBefore, n, t
      <3>2. CallsBefore(c, s + 1, f, h) =
               IF t + 1 >= 2 * n THEN n ELSE IF f = "ipv4" THEN (t + 2) \div 2 ELSE (t + 1) \div 2
        BY <1>1, <1>3, <1>4, <1>6, <2>1 DEF CallsBefore, n, t
      <3>3. f = "ipv4" \/ f = "ipv6"
        BY DEF Families
      <3>4. t % 2 = 0 => (t + 1) \div 2 = t \div 2 /\ (t + 2) \div 2 = t \div 2 + 1 /\ t + 1 < 2 * n
        BY <1>1, <1>4
      <3>5. t % 2 = 1 => (t + 1) \div 2 = t \div 2 + 1 /\ (t + 2) \div 2 = (t + 1) \div 2
                         /\ (t + 1 >= 2 * n => n = t \div 2 + 1)
        BY <1>1, <1>4
      <3>6. t % 2 \in {0, 1}
        BY <1>4
      <3>7. CASE t % 2 = 0
        <4>1. fam = "ipv4"
          BY <1>5, <3>7
        <4> HIDE DEF fam
        <4> QED
          BY <1>1, <1>4, <1>5, <2>1, <3>1, <3>2, <3>3, <3>4, <3>7, <4>1
      <3>8. CASE t % 2 = 1
        <4>1. fam = "ipv6"
          BY <1>5, <3>8
        <4> HIDE DEF fam
        <4> QED
          BY <1>5, <2>1, <3>1, <3>2, <3>3, <3>5, <3>8, <4>1
      <3> QED
        BY <3>6, <3>7, <3>8
    <2>2. CASE h # h0
      <3> DEFINE u == s - 1 - 2 * n * (Place(h) - 1)
      <3>1. Place(h) \in {1, 2} /\ Place(h) # i
        BY <1>6, <2>2
      <3>2. (u < 0 /\ u + 1 <= 0) \/ u >= 2 * n
        <4>1. CASE n = 4
          BY <1>3, <1>4, <3>1, <4>1 DEF t
        <4>2. CASE n = 5
          BY <1>3, <1>4, <3>1, <4>2 DEF t
        <4> QED
          BY <1>1, <4>1, <4>2
      <3>3. CallsBefore(c, s, f, h) =
               IF u < 0 THEN 0 ELSE IF u >= 2 * n THEN n
               ELSE IF f = "ipv4" THEN (u + 1) \div 2 ELSE u \div 2
        BY DEF CallsBefore, n
      <3>4. CallsBefore(c, s + 1, f, h) =
               IF u + 1 < 0 THEN 0 ELSE IF u + 1 >= 2 * n THEN n
               ELSE IF f = "ipv4" THEN (u + 2) \div 2 ELSE (u + 1) \div 2
        <4>1. u \in Int /\ (s + 1) - 1 - 2 * n * (Place(h) - 1) = u + 1 /\ (u + 1) + 1 = u + 2
          BY <1>1, <1>3, <3>1
        <4> HIDE DEF u
        <4> QED
          BY <4>1 DEF CallsBefore, n
      <3>5. u \in Int
        BY <1>1, <1>3, <3>1
      <3> HIDE DEF u
      <3> QED
        BY <1>1, <2>2, <3>2, <3>3, <3>4, <3>5
    <2> QED
      BY <2>1, <2>2
  <1>9. fam \in Families
    BY DEF Families
  <1> QED
    BY <1>2, <1>5, <1>6, <1>7, <1>8, <1>9 DEF n

LEMMA PrefixGrows ==
    ASSUME NEW S, NEW q \in Seq(S), NEW m \in 0..Len(q) - 1
    PROVE  Append(SubSeq(q, 1, m), q[m + 1]) = SubSeq(q, 1, m + 1)
  <1>1. /\ SubSeq(q, 1, m) \in Seq(S) /\ Len(SubSeq(q, 1, m)) = m
        /\ \A i \in 1..m : SubSeq(q, 1, m)[i] = q[i]
    BY SubSeqProperties
  <1>2. /\ SubSeq(q, 1, m + 1) \in Seq(S) /\ Len(SubSeq(q, 1, m + 1)) = m + 1
        /\ \A i \in 1..m + 1 : SubSeq(q, 1, m + 1)[i] = q[i]
    BY SubSeqProperties
  <1> DEFINE p == SubSeq(q, 1, m)
             r == SubSeq(q, 1, m + 1)
  <1> HIDE DEF p, r
  <1>3. q[m + 1] \in S
    OBVIOUS
  <1>4. Append(p, q[m + 1]) \in Seq(S) /\ Len(Append(p, q[m + 1])) = m + 1
        /\ \A i \in 1..m + 1 : Append(p, q[m + 1])[i] = IF i = m + 1 THEN q[m + 1] ELSE p[i]
    BY <1>1, <1>3 DEF p
  <1>5. \A i \in 1..m + 1 : Append(p, q[m + 1])[i] = r[i]
    BY <1>1, <1>2, <1>4 DEF p, r
  <1>6. Append(p, q[m + 1]) = r
    BY <1>2, <1>4, <1>5, SeqEqual DEF r
  <1> QED
    BY <1>6 DEF p, r

LEMMA SuffixShrinks ==
    ASSUME NEW S, NEW q \in Seq(S), NEW m \in 0..Len(q) - 1
    PROVE  RemoveFirst(SubSeq(q, m + 1, Len(q)), q[m + 1]) = SubSeq(q, m + 2, Len(q))
  <1> DEFINE n == Len(q)
             p == SubSeq(q, m + 1, n)
             r == SubSeq(q, m + 2, n)
             a == SubSeq(p, 1, 0)
             b == SubSeq(p, 2, n - m)
  <1>1. p \in Seq(S) /\ Len(p) = n - m /\ \A i \in 1..n - m : p[i] = q[m + i]
    <2>1. \A i \in m + 1..n : q[i] \in S
      OBVIOUS
    <2> QED
      BY <2>1, SubSeqProperties
  <1>2. r \in Seq(S) /\ Len(r) = n - m - 1 /\ \A i \in 1..n - m - 1 : r[i] = q[m + 1 + i]
    <2>1. \A i \in m + 2..n : q[i] \in S
      OBVIOUS
    <2> QED
      BY <2>1, SubSeqProperties
  <1> HIDE DEF p, r
  <1>3. RemoveFirst(p, q[m + 1]) = a \o b
    <2> DEFINE I == {i \in 1..Len(p) : p[i] = q[m + 1]}
    <2>1. 1 \in I /\ \A i \in I : 1 <= i
      BY <1>1
    <2>2. Min(I) = 1
      <3>1. \A x \in I : (\A y \in I : x <= y) => x = 1
        BY <2>1
      <3> HIDE DEF I
      <3> QED
        BY <2>1, <3>1 DEF Min
    <2>3. RemoveFirst(p, q[m + 1]) = RemoveAt(p, Min(I))
      BY <2>1 DEF RemoveFirst, SelectInSeq
    <2>4. RemoveAt(p, 1) = a \o b
      BY <1>1 DEF RemoveAt
    <2> HIDE DEF I
    <2> QED
      BY <2>2, <2>3, <2>4
  <1>4. a \in Seq(S) /\ Len(a) = 0
    BY <1>1, SubSeqProperties
  <1>5. b \in Seq(S) /\ Len(b) = n - m - 1 /\ \A i \in 1..n - m - 1 : b[i] = p[i + 1]
    <2>1. \A i \in 2..n - m : p[i] \in S
      BY <1>1
    <2> QED
      BY <1>1, <2>1, SubSeqProperties
  <1> HIDE DEF a, b
  <1>6. a \o b \in Seq(S) /\ Len(a \o b) = n - m - 1 /\ \A i \in 1..n - m - 1 : (a \o b)[i] = b[i]
    BY <1>4, <1>5, ConcatProperties
  <1>7. ASSUME NEW i \in 1..n - m - 1 PROVE (a \o b)[i] = r[i]
    <2>1. i + 1 \in 1..n - m /\ m + (i + 1) = m + 1 + i
      OBVIOUS
    <2>2. (a \o b)[i] = p[i + 1]
      BY <1>5, <1>6
    <2>3. p[i + 1] = q[m + 1 + i]
      BY <1>1, <2>1
    <2> QED
      BY <1>2, <2>2, <2>3
  <1>8. a \o b = r
    BY <1>2, <1>6, <1>7, SeqEqual
  <1> QED
    BY <1>3, <1>8 DEF p, r

\* The chains while rules are added, and while they are removed, before a step
\* of the list.
Adding(c, step) ==
    [f \in Families |-> [h \in ChainNames |->
        IF h \in Range(Hooks(c)) THEN SubSeq(ChainRules(c), 1, CallsBefore(c, step, f, h))
        ELSE <<>>]]

Removing(c, step) ==
    [f \in Families |-> [h \in ChainNames |->
        IF h \in Range(Hooks(c))
        THEN SubSeq(ChainRules(c), CallsBefore(c, step, f, h) + 1, Len(ChainRules(c))) ELSE <<>>]]

LEMMA CallsEnd ==
    ASSUME NEW c \in Configs, Generates(c), NEW f \in Families, NEW h \in Range(Hooks(c))
    PROVE  /\ CallsBefore(c, 1, f, h) = 0
           /\ CallsBefore(c, CallCount(c) + 1, f, h) = Len(ChainRules(c))
           /\ 1 \in 1..CallCount(c)
  <1> DEFINE n == Len(ChainRules(c))
             k == Len(Hooks(c))
  <1>1. n \in {4, 5}
    BY ChainRulesAre
  <1>2. k \in {1, 2} /\ Place(h) \in {1, 2} /\ (k = 1 => Place(h) = 1)
    BY HooksAre DEF Place
  <1>3. CallCount(c) = 2 * k * n
    BY DEF CallCount
  <1>4. \A s : CallsBefore(c, s, f, h) =
            LET t == s - 1 - 2 * n * (Place(h) - 1)
            IN IF t < 0 THEN 0 ELSE IF t >= 2 * n THEN n
               ELSE IF f = "ipv4" THEN (t + 1) \div 2 ELSE t \div 2
    BY DEF CallsBefore
  <1> HIDE DEF n, k
  <1>5. CallsBefore(c, 1, f, h) = 0
    BY <1>1, <1>2, <1>4
  <1>6. CallsBefore(c, 2 * k * n + 1, f, h) = n
    BY <1>1, <1>2, <1>4
  <1>7. 1 \in 1..2 * k * n
    BY <1>1, <1>2
  <1>8. f \in Families /\ h \in Range(Hooks(c)) /\ 1 \in 1..CallCount(c)
    BY <1>3, <1>7
  <1> QED
    BY <1>3, <1>5, <1>6, <1>8 DEF n

LEMMA ListEnds ==
    ASSUME NEW c \in Configs, Generates(c)
    PROVE  /\ Adding(c, 1) = Empty /\ Adding(c, CallCount(c) + 1) = Complete(c)
           /\ Removing(c, 1) = Complete(c) /\ Removing(c, CallCount(c) + 1) = Empty
  <1> DEFINE q == ChainRules(c)
  <1>1. q \in Seq(Rules)
    BY ChainRulesAre
  <1> HIDE DEF q
  <1>2. SubSeq(q, 1, 0) = <<>> /\ SubSeq(q, 1, Len(q)) = q /\ SubSeq(q, Len(q) + 1, Len(q)) = <<>>
    BY <1>1
  <1>3. Adding(c, 1) = Empty
    BY <1>2, CallsEnd DEF Adding, Empty, q
  <1>4. Adding(c, CallCount(c) + 1) = Complete(c)
    BY <1>2, CallsEnd DEF Adding, Complete, q
  <1>5. Removing(c, 1) = Complete(c)
    <2>1. \A f \in Families : \A h \in Range(Hooks(c)) : CallsBefore(c, 1, f, h) + 1 = 1
      BY CallsEnd
    <2> QED
      BY <1>2, <2>1 DEF Removing, Complete, q
  <1>6. Removing(c, CallCount(c) + 1) = Empty
    <2>1. \A f \in Families : \A h \in Range(Hooks(c)) :
             CallsBefore(c, CallCount(c) + 1, f, h) + 1 = Len(q) + 1
      BY CallsEnd DEF q
    <2> QED
      BY <1>2, <2>1 DEF Removing, Empty, q
  <1> QED
    BY <1>3, <1>4, <1>5, <1>6

LEMMA HooksAreChains ==
    ASSUME NEW c \in Configs
    PROVE  Range(Hooks(c)) \subseteq ChainNames
  BY HooksAre DEF ChainNames, Configs

\* A call of iptables takes the list one step further.
LEMMA AddingAdvances ==
    ASSUME NEW c \in Configs, Generates(c), NEW s \in 1..CallCount(c)
    PROVE  LET call == CallAt(c, s)
               old == Adding(c, s)
           IN /\ call.rule \notin Range(old[call.family][call.chain])
              /\ [old EXCEPT ![call.family][call.chain] = Append(@, call.rule)] = Adding(c, s + 1)
  <1> DEFINE q == ChainRules(c)
             f0 == CallAt(c, s).family
             h0 == CallAt(c, s).chain
             e == CallAt(c, s).rule
             m == CallsBefore(c, s, f0, h0)
             old == Adding(c, s)
  <1>1. /\ f0 \in Families /\ h0 \in Range(Hooks(c)) /\ h0 \in ChainNames
        /\ m \in 0..Len(q) - 1 /\ e = q[m + 1]
        /\ \A f \in Families : \A h \in Range(Hooks(c)) :
              CallsBefore(c, s + 1, f, h) =
                 IF f = f0 /\ h = h0 THEN m + 1 ELSE CallsBefore(c, s, f, h)
    BY CallsAdvance, HooksAreChains
  <1>2. q \in Seq(Rules) /\ \A i, j \in 1..Len(q) : q[i] = q[j] => i = j
    <2>1. CASE c.rst
      <3>1. /\ q \in Seq(Rules) /\ Len(q) = 5 /\ q[1] = "mark" /\ q[2] = "accept"
            /\ q[3] = "reset" /\ q[4] = "drop" /\ q[5] = "queue"
        BY <2>1, ChainRulesAre
      <3> HIDE DEF q
      <3> QED
        BY <3>1
    <2>2. CASE ~c.rst
      <3>1. /\ q \in Seq(Rules) /\ Len(q) = 4 /\ q[1] = "mark" /\ q[2] = "accept"
            /\ q[3] = "drop" /\ q[4] = "queue"
        BY <2>2, ChainRulesAre
      <3> HIDE DEF q
      <3> QED
        BY <3>1
    <2> QED
      BY <2>1, <2>2
  <1> HIDE DEF q, f0, h0, e
  <1>3. old[f0][h0] = SubSeq(q, 1, m)
    BY <1>1 DEF Adding, q
  <1>4. e \notin Range(old[f0][h0])
    <2>1. SubSeq(q, 1, m) \in Seq(Rules) /\ Len(SubSeq(q, 1, m)) = m
          /\ \A i \in 1..m : SubSeq(q, 1, m)[i] = q[i]
      BY <1>1, <1>2, SubSeqProperties
    <2>2. ASSUME NEW i \in 1..m PROVE SubSeq(q, 1, m)[i] # e
      <3>1. i \in 1..Len(q) /\ m + 1 \in 1..Len(q) /\ i # m + 1
        BY <1>1, <1>2
      <3> QED
        BY <1>1, <1>2, <2>1, <3>1
    <2>3. Range(SubSeq(q, 1, m)) = {SubSeq(q, 1, m)[i] : i \in 1..m}
      BY <2>1 DEF Range
    <2> QED
      BY <1>3, <2>2, <2>3
  <1>5. Append(old[f0][h0], e) = SubSeq(q, 1, m + 1)
    BY <1>1, <1>2, <1>3, PrefixGrows
  <1> HIDE DEF m
  <1>6. [old EXCEPT ![f0][h0] = Append(@, e)] = Adding(c, s + 1)
    <2>1. Adding(c, s + 1) =
            [f \in Families |-> [h \in ChainNames |->
                IF f = f0 /\ h = h0 THEN SubSeq(q, 1, m + 1)
                ELSE old[f][h]]]
      BY <1>1 DEF Adding, q
    <2>2. old = [f \in Families |-> old[f]]
          /\ \A f \in Families : old[f] = [h \in ChainNames |-> old[f][h]]
      BY DEF Adding
    <2> HIDE DEF old
    <2> DEFINE new == [old[f0] EXCEPT ![h0] = SubSeq(q, 1, m + 1)]
    <2>3. [old EXCEPT ![f0][h0] = Append(@, e)] = [old EXCEPT ![f0] = new]
      BY <1>5
    <2>4. new = [h \in ChainNames |-> IF h = h0 THEN SubSeq(q, 1, m + 1) ELSE old[f0][h]]
      BY <1>1, <2>2
    <2>5. [old EXCEPT ![f0] = new] = [f \in Families |-> IF f = f0 THEN new ELSE old[f]]
      BY <1>1, <2>2
    <2> HIDE DEF new
    <2>6. \A f \in Families :
            (IF f = f0 THEN new ELSE old[f]) =
            [h \in ChainNames |-> IF f = f0 /\ h = h0 THEN SubSeq(q, 1, m + 1) ELSE old[f][h]]
      BY <2>2, <2>4
    <2> QED
      BY <2>1, <2>3, <2>5, <2>6
  <1> QED
    BY <1>4, <1>6 DEF f0, h0, e, old

LEMMA RemovingAdvances ==
    ASSUME NEW c \in Configs, Generates(c), NEW s \in 1..CallCount(c)
    PROVE  LET call == CallAt(c, s)
               old == Removing(c, s)
           IN [old EXCEPT ![call.family][call.chain] = RemoveFirst(@, call.rule)]
                = Removing(c, s + 1)
  <1> DEFINE q == ChainRules(c)
             f0 == CallAt(c, s).family
             h0 == CallAt(c, s).chain
             e == CallAt(c, s).rule
             m == CallsBefore(c, s, f0, h0)
             old == Removing(c, s)
  <1>1. /\ f0 \in Families /\ h0 \in Range(Hooks(c)) /\ h0 \in ChainNames
        /\ m \in 0..Len(q) - 1 /\ e = q[m + 1]
        /\ \A f \in Families : \A h \in Range(Hooks(c)) :
              CallsBefore(c, s + 1, f, h) =
                 IF f = f0 /\ h = h0 THEN m + 1 ELSE CallsBefore(c, s, f, h)
    BY CallsAdvance, HooksAreChains
  <1>2. q \in Seq(Rules)
    BY ChainRulesAre
  <1> HIDE DEF q, f0, h0, e
  <1>3. old[f0][h0] = SubSeq(q, m + 1, Len(q))
    BY <1>1 DEF Removing, q
  <1>4. RemoveFirst(old[f0][h0], e) = SubSeq(q, m + 2, Len(q))
    BY <1>1, <1>2, <1>3, SuffixShrinks
  <1>5. \A f \in Families : \A h \in Range(Hooks(c)) :
           CallsBefore(c, s + 1, f, h) + 1 =
              IF f = f0 /\ h = h0 THEN m + 2 ELSE CallsBefore(c, s, f, h) + 1
    BY <1>1
  <1> HIDE DEF m
  <1>6. [old EXCEPT ![f0][h0] = RemoveFirst(@, e)] = Removing(c, s + 1)
    <2>1. Removing(c, s + 1) =
            [f \in Families |-> [h \in ChainNames |->
                IF f = f0 /\ h = h0 THEN SubSeq(q, m + 2, Len(q))
                ELSE old[f][h]]]
      BY <1>1, <1>5 DEF Removing, q
    <2>2. old = [f \in Families |-> old[f]]
          /\ \A f \in Families : old[f] = [h \in ChainNames |-> old[f][h]]
      BY DEF Removing
    <2> HIDE DEF old
    <2> DEFINE new == [old[f0] EXCEPT ![h0] = SubSeq(q, m + 2, Len(q))]
    <2>3. [old EXCEPT ![f0][h0] = RemoveFirst(@, e)] = [old EXCEPT ![f0] = new]
      BY <1>4
    <2>4. new = [h \in ChainNames |-> IF h = h0 THEN SubSeq(q, m + 2, Len(q)) ELSE old[f0][h]]
      BY <1>1, <2>2
    <2>5. [old EXCEPT ![f0] = new] = [f \in Families |-> IF f = f0 THEN new ELSE old[f]]
      BY <1>1, <2>2
    <2> HIDE DEF new
    <2>6. \A f \in Families :
            (IF f = f0 THEN new ELSE old[f]) =
            [h \in ChainNames |-> IF f = f0 /\ h = h0 THEN SubSeq(q, m + 2, Len(q))
                                  ELSE old[f][h]]
      BY <2>2, <2>4
    <2> QED
      BY <2>1, <2>3, <2>5, <2>6
  <1> QED
    BY <1>6 DEF f0, h0, e, old

-----------------------------------------------------------------------------
(***************************************************************************)
(* The rules at every moment of the program's life: none or all of them    *)
(* before it adds its own, a prefix or all of them while it adds them, all *)
(* of them while they are set, a suffix while it removes them, and none    *)
(* afterwards when no command failed.                                      *)
(***************************************************************************)
RulesSet ==
    rSet => /\ life \in {"running", "cancelled"} /\ command.doing = "none"
            /\ Generates(config) /\ chains = Complete(config)

RulesAdded ==
    command.doing = "add" =>
        /\ life = "running" /\ ~rSet /\ Generates(config)
        /\ config.tool = "iptables" =>
              /\ command.step \in 1..CallCount(config)
              /\ chains \in {Complete(config), Adding(config, command.step)}

RulesRemoved ==
    command.doing = "remove" =>
        /\ life = "cancelled" /\ ~rSet /\ Generates(config)
        /\ config.tool = "iptables" =>
              /\ command.step \in 1..CallCount(config)
              /\ chains = Removing(config, command.step)

RulesGone ==
    faults.commands = 0 /\ Generates(config) =>
        /\ life = "cancelled" /\ command.doing = "none" => rSet
        /\ life = "closed" \/ command.doing = "done" => chains = Empty

Phases ==
    /\ life \in {"opening", "open", "failed"} =>
          command.doing = "none" /\ chains \in {Empty, Complete(config)}
    /\ life = "running" => rSet \/ command.doing = "add"
    /\ life = "closed" => command.doing = "none"
    /\ command.doing = "done" => life = "cancelled"

RulesInv == kind = "nfqueue" => RulesSet /\ RulesAdded /\ RulesRemoved /\ RulesGone /\ Phases

Configured == config \in Configs /\ command \in Commands /\ faults \in Faults

LEMMA RulesInit ==
    ASSUME Init
    PROVE  RulesInv
  BY DEF Init, NFInit, RulesInv, RulesSet, RulesAdded, RulesRemoved, RulesGone, Phases, Commands

\* What the rules depend on.
LEMMA RulesKeep ==
    ASSUME RulesInv, UNCHANGED <<kind, life, config, chains, command, rSet>>,
           faults'.commands = faults.commands
    PROVE  RulesInv'
  BY DEF RulesInv, RulesSet, RulesAdded, RulesRemoved, RulesGone, Phases

LEMMA RulesStart ==
    ASSUME RulesInv, kind = "nfqueue", Configured, OpenQueue \/ RegisterQueue
    PROVE  RulesInv'
  <1> USE DEF RulesInv
  <1>1. CASE OpenQueue
    <2>1. /\ UNCHANGED <<kind, config, chains, command, rSet, faults>>
          /\ life = "opening" /\ life' \in {"open", "failed"}
      BY <1>1 DEF OpenQueue, nfVars
    <2>2. command.doing = "none" /\ ~rSet
      BY <2>1 DEF Phases, RulesSet
    <2> QED
      BY <2>1, <2>2 DEF RulesSet, RulesAdded, RulesRemoved, RulesGone, Phases
  <1>2. CASE RegisterQueue
    <2>1. /\ UNCHANGED <<kind, config, chains, rSet>> /\ life = "open"
          /\ \/ /\ Generates(config) /\ life' = "running"
                /\ command' = [doing |-> "add", step |-> 1]
             \/ ~Generates(config) /\ life' = "cancelled" /\ UNCHANGED command
             \/ /\ faults' = [faults EXCEPT !.commands = @ + 1]
                /\ life' = "cancelled" /\ UNCHANGED command
      BY <1>2 DEF RegisterQueue
    <2>2. command.doing = "none" /\ ~rSet /\ chains \in {Empty, Complete(config)}
      BY <2>1 DEF Phases, RulesSet
    <2>3. CASE life' = "cancelled" /\ UNCHANGED command /\ (Generates(config) => faults'.commands # 0)
      BY <2>1, <2>2, <2>3 DEF RulesSet, RulesAdded, RulesRemoved, RulesGone, Phases
    <2>4. CASE /\ Generates(config) /\ life' = "running"
               /\ command' = [doing |-> "add", step |-> 1]
      <3>1. command'.doing = "add" /\ command'.step = 1 /\ life' = "running"
        BY <2>1, <2>4
      <3>2. 1 \in 1..CallCount(config) /\ Adding(config, 1) = Empty
        <4>1. \E f, h : f \in Families /\ h \in Range(Hooks(config))
          BY HooksAre DEF Configured, Configs, Families
        <4> QED
          BY <2>4, <4>1, CallsEnd, ListEnds DEF Configured
      <3>3. chains' \in {Complete(config'), Adding(config', command'.step)}
        BY <2>1, <2>2, <3>1, <3>2
      <3> QED
        BY <2>1, <2>2, <2>4, <3>1, <3>2, <3>3
        DEF RulesSet, RulesAdded, RulesRemoved, RulesGone, Phases
    <2>5. faults' = [faults EXCEPT !.commands = @ + 1] => faults'.commands # 0
      BY DEF Configured, Faults
    <2> QED
      BY <2>1, <2>3, <2>4, <2>5
  <1> QED
    BY <1>1, <1>2

LEMMA RulesAdd ==
    ASSUME RulesInv, kind = "nfqueue", Configured, AddTable \/ AppendRule
    PROVE  RulesInv'
  <1> USE DEF RulesInv
  <1>1. /\ command.doing = "add" /\ life = "running" /\ ~rSet /\ Generates(config)
        /\ UNCHANGED <<kind, config>>
    BY DEF AddTable, AppendRule, RulesAdded, Phases
  \* What is left of a failure, and of the last step of the list.
  <1>2. ASSUME life' = "cancelled", command' = [doing |-> "none", step |-> 0], rSet' = rSet,
               faults' = [faults EXCEPT !.commands = @ + 1]
        PROVE  RulesInv'
    <2>1. command'.doing = "none" /\ ~rSet' /\ life' = "cancelled" /\ faults'.commands # 0
      BY <1>1, <1>2 DEF Configured, Faults
    <2> QED
      BY <1>1, <2>1 DEF RulesSet, RulesAdded, RulesRemoved, RulesGone, Phases
  <1>3. ASSUME life' = life, command' = [doing |-> "none", step |-> 0], rSet',
               chains' = Complete(config)
        PROVE  RulesInv'
    <2>1. command'.doing = "none" /\ life' = "running"
      BY <1>1, <1>3
    <2> QED
      BY <1>1, <1>3, <2>1 DEF RulesSet, RulesAdded, RulesRemoved, RulesGone, Phases
  <1>4. CASE AddTable
    BY <1>2, <1>3, <1>4 DEF AddTable
  <1>5. CASE AppendRule
    <2> DEFINE last == command.step = CallCount(config)
               old == chains[Call.family][Call.chain]
               added == [chains EXCEPT ![Call.family][Call.chain] = Append(@, Call.rule)]
               s == command.step
    <2>1. \/ /\ chains' = IF Call.rule \in Range(old) THEN chains ELSE added
             /\ command' = IF last THEN [doing |-> "none", step |-> 0] ELSE NextStep
             /\ rSet' = last
             /\ UNCHANGED <<life, faults>>
          \/ /\ faults' = [faults EXCEPT !.commands = @ + 1]
             /\ command' = [doing |-> "none", step |-> 0]
             /\ life' = "cancelled"
             /\ UNCHANGED <<chains, rSet>>
      BY <1>5 DEF AppendRule
    <2>2. s \in 1..CallCount(config) /\ chains \in {Complete(config), Adding(config, s)}
      BY <1>1, <1>5 DEF AppendRule, RulesAdded
    <2>3. config \in Configs
      BY DEF Configured
    <2>4. (IF Call.rule \in Range(old) THEN chains ELSE added)
            \in {Complete(config), Adding(config, s + 1)}
      <3>1. CASE chains = Complete(config)
        <4>1. Call.rule \in Range(old)
          <5>1. /\ Call.family \in Families /\ Call.chain \in Range(Hooks(config))
                /\ Call.chain \in ChainNames
                /\ \E i \in 1..Len(ChainRules(config)) : Call.rule = ChainRules(config)[i]
            <6> DEFINE m == CallsBefore(config, s, Call.family, Call.chain)
            <6>1. m \in 0..Len(ChainRules(config)) - 1 /\ Call.rule = ChainRules(config)[m + 1]
              BY <1>1, <2>2, <2>3, CallsAdvance DEF Call
            <6> HIDE DEF m
            <6>2. m + 1 \in 1..Len(ChainRules(config))
              BY <2>3, <6>1, ChainRulesAre
            <6> QED
              BY <1>1, <2>2, <2>3, <6>1, <6>2, CallsAdvance, HooksAreChains DEF Call
          <5>2. old = ChainRules(config)
            BY <3>1, <5>1 DEF Complete
          <5>3. ChainRules(config) \in Seq(Rules)
            BY <2>3, ChainRulesAre
          <5> QED
            BY <5>1, <5>2, <5>3 DEF Range
        <4> QED
          BY <3>1, <4>1
      <3>2. CASE chains = Adding(config, s)
        <4>1. Call.rule \notin Range(old) /\ added = Adding(config, s + 1)
          BY <1>1, <2>2, <2>3, <3>2, AddingAdvances DEF Call
        <4> QED
          BY <4>1
      <3> QED
        BY <2>2, <3>1, <3>2
    <2> HIDE DEF old, added
    <2>5. CASE last /\ rSet' = last
      <3>1. chains' = Complete(config) /\ life' = life /\ rSet'
            /\ command' = [doing |-> "none", step |-> 0]
        BY <1>1, <2>1, <2>3, <2>4, <2>5, ListEnds
      <3> QED
        BY <1>3, <3>1
    <2>6. CASE ~last /\ rSet' = last /\ command' = NextStep
      <3>1. /\ life' = life /\ ~rSet' /\ command' = NextStep
            /\ chains' \in {Complete(config), Adding(config, s + 1)}
        BY <1>1, <2>1, <2>4, <2>6 DEF NextStep
      <3>2. command'.doing = "add" /\ command'.step = s + 1
        BY <1>1, <3>1 DEF NextStep, Configured, Commands
      <3>3. s + 1 \in 1..CallCount(config)
        <4>1. CallCount(config) \in Nat
          BY <2>3, CallCountType
        <4> QED
          BY <2>2, <2>6, <4>1
      <3> QED
        BY <1>1, <3>1, <3>2, <3>3 DEF RulesSet, RulesAdded, RulesRemoved, RulesGone, Phases
    <2> QED
      BY <1>1, <1>2, <2>1, <2>5, <2>6
  <1> QED
    BY <1>4, <1>5

LEMMA RulesRemove ==
    ASSUME RulesInv, kind = "nfqueue", Configured, BeginClose \/ DeleteTable \/ DeleteRule
    PROVE  RulesInv'
  <1> USE DEF RulesInv
  <1>c. config \in Configs
    BY DEF Configured
  <1>1. CASE BeginClose
    <2>1. /\ UNCHANGED <<kind, life, config, chains, faults>>
          /\ life = "cancelled" /\ rSet
          /\ command' = [doing |-> "remove", step |-> 1] /\ rSet' = FALSE
      BY <1>1 DEF BeginClose
    <2>2. Generates(config) /\ chains = Complete(config)
      BY <2>1 DEF RulesSet
    <2>3. command'.doing = "remove" /\ command'.step = 1
      BY <2>1
    <2>4. 1 \in 1..CallCount(config) /\ Removing(config, 1) = Complete(config)
      <3>1. \E f, h : f \in Families /\ h \in Range(Hooks(config))
        BY <1>c, HooksAre DEF Configs, Families
      <3> QED
        BY <1>c, <2>2, <3>1, CallsEnd, ListEnds
    <2> QED
      BY <2>1, <2>2, <2>3, <2>4 DEF RulesSet, RulesAdded, RulesRemoved, RulesGone, Phases
  <1>2. ASSUME command.doing = "remove", command' = [doing |-> "done", step |-> 0],
               UNCHANGED <<kind, life, config, rSet>>,
               \/ chains' = Empty /\ UNCHANGED faults
               \/ faults' = [faults EXCEPT !.commands = @ + 1]
        PROVE  RulesInv'
    <2>1. command'.doing = "done" /\ life = "cancelled" /\ ~rSet
      BY <1>2 DEF RulesRemoved, Phases
    <2>2. faults'.commands = 0 => chains' = Empty
      BY <1>2 DEF Configured, Faults
    <2> QED
      BY <1>2, <2>1, <2>2 DEF RulesSet, RulesAdded, RulesRemoved, RulesGone, Phases
  <1>3. CASE DeleteTable
    BY <1>2, <1>3 DEF DeleteTable
  <1>4. CASE DeleteRule
    <2> DEFINE last == command.step = CallCount(config)
               removed == [chains EXCEPT ![Call.family][Call.chain] = RemoveFirst(@, Call.rule)]
               s == command.step
    <2>1. /\ UNCHANGED <<kind, life, config, rSet>>
          /\ command.doing = "remove"
          /\ \/ /\ chains' = removed
                /\ command' = IF last THEN [doing |-> "done", step |-> 0] ELSE NextStep
                /\ UNCHANGED faults
             \/ /\ faults' = [faults EXCEPT !.commands = @ + 1]
                /\ command' = [doing |-> "done", step |-> 0]
      BY <1>4 DEF DeleteRule
    <2>2. /\ s \in 1..CallCount(config) /\ chains = Removing(config, s)
          /\ Generates(config) /\ life = "cancelled" /\ ~rSet
      BY <1>4, <2>1 DEF DeleteRule, RulesRemoved, Phases
    <2>3. removed = Removing(config, s + 1)
      BY <1>c, <2>2, RemovingAdvances DEF Call
    <2> HIDE DEF removed
    <2>4. CASE last
      <3>1. removed = Empty
        BY <1>c, <2>2, <2>3, <2>4, ListEnds
      <3> QED
        BY <1>2, <2>1, <2>4, <3>1
    <2>5. CASE ~last /\ chains' = removed /\ command' = NextStep /\ UNCHANGED faults
      <3>1. command'.doing = "remove" /\ command'.step = s + 1
        BY <2>1, <2>5 DEF NextStep, Configured, Commands
      <3>2. s + 1 \in 1..CallCount(config)
        <4>1. CallCount(config) \in Nat
          BY <1>c, CallCountType
        <4> QED
          BY <2>2, <2>5, <4>1
      <3> QED
        BY <2>1, <2>2, <2>3, <2>5, <3>1, <3>2
        DEF RulesSet, RulesAdded, RulesRemoved, RulesGone, Phases
    <2> QED
      BY <1>2, <2>1, <2>4, <2>5
  <1> QED
    BY <1>1, <1>3, <1>4

LEMMA RulesEnd ==
    ASSUME RulesInv, kind = "nfqueue", Configured, QueueReturn \/ CloseQueue
    PROVE  RulesInv'
  <1> USE DEF RulesInv
  <1>1. CASE QueueReturn
    <2>1. UNCHANGED nfVars /\ UNCHANGED kind /\ life = "running" /\ life' = "cancelled"
          /\ command.doing = "none"
      BY <1>1 DEF QueueReturn
    <2>2. rSet
      BY <2>1 DEF Phases
    <2> QED
      BY <2>1, <2>2 DEF nfVars, RulesSet, RulesAdded, RulesRemoved, RulesGone, Phases
  <1>2. CASE CloseQueue
    <2>1. /\ life = "cancelled" /\ ~rSet /\ command.doing \in {"none", "done"}
          /\ life' = "closed" /\ command' = [doing |-> "none", step |-> 0]
          /\ UNCHANGED <<kind, config, chains, rSet, faults>>
      BY <1>2 DEF CloseQueue
    <2>2. faults'.commands = faults.commands /\ command'.doing = "none"
      BY <2>1
    <2>3. faults.commands = 0 /\ Generates(config) => chains = Empty
      BY <2>1 DEF RulesGone
    <2> QED
      BY <2>1, <2>2, <2>3 DEF RulesSet, RulesAdded, RulesRemoved, RulesGone, Phases
  <1> QED
    BY <1>1, <1>2

LEMMA RulesStep ==
    ASSUME RulesInv, kind = "nfqueue", NFTypeOK, NFNext
    PROVE  RulesInv'
  <1>1. Configured
    BY DEF NFTypeOK, Configured, Configs, Commands, Faults
  <1>2. CASE Manage
    BY <1>1, <1>2, RulesStart, RulesAdd, RulesRemove, RulesEnd DEF Manage
  <1>3. CASE \/ QueueSignal \/ HookFails \/ HookStops \/ Deliver \/ Answer
             \/ \E c \in Conns, dir \in ChainNames, form \in Forms : PacketArrives(c, dir, form)
    <2>1. UNCHANGED <<kind, life, config, chains, command, rSet>>
      BY <1>3 DEF QueueSignal, HookFails, HookStops, Deliver, Answer, SetVerdict, PacketArrives
    <2>2. faults'.commands = faults.commands
      <3>1. CASE HookFails \/ HookStops
        BY <1>1, <3>1 DEF HookFails, HookStops, Configured, Faults
      <3>2. CASE ~(HookFails \/ HookStops)
        BY <1>3, <3>2 DEF QueueSignal, Deliver, Answer, SetVerdict, PacketArrives
      <3> QED
        BY <3>1, <3>2
    <2> QED
      BY <2>1, <2>2, RulesKeep
  <1> QED
    BY <1>2, <1>3 DEF NFNext

-----------------------------------------------------------------------------
(* What the rules do with a packet while they are set *)

\* The mark a packet's connection has for the rules after the first one.
Marked(c, dir) == IF c \in Protected /\ dir = "OUTPUT" THEN "accept" ELSE mark[c]

LEMMA CompleteVerdict ==
    ASSUME NEW cf \in Configs, NEW c, NEW dir,
           Marked(c, dir) \in {"none", "accept", "drop"}
    PROVE  /\ Verdict(ChainRules(cf), c, dir) = CASE Marked(c, dir) = "accept" -> "passed"
                                                  [] Marked(c, dir) = "drop" -> "dropped"
                                                  [] Marked(c, dir) = "none" ->
                                                        IF Listening THEN "queue" ELSE "passed"
           /\ MarkAt(ChainRules(cf), Len(ChainRules(cf)) + 1, c, dir) = Marked(c, dir)
  <1> DEFINE q == ChainRules(cf)
             n == Len(q)
             m == Marked(c, dir)
             deciding == {k \in DOMAIN q : Decides(q[k], MarkAt(q, k, c, dir))}
             first == CHOOSE k \in deciding : \A j \in deciding : k <= j
  <1>1. /\ q \in Seq(Rules) /\ q[1] = "mark" /\ q[2] = "accept" /\ n \in {4, 5} /\ q[n] = "queue"
        /\ q[3] \in {"reset", "drop"} /\ \A k \in 3..n - 1 : q[k] \in {"reset", "drop"}
        /\ DOMAIN q = 1..n
    <2>1. CASE cf.rst
      <3>1. q \in Seq(Rules) /\ q[1] = "mark" /\ q[2] = "accept" /\ n = 5 /\ q[5] = "queue"
            /\ q[3] = "reset" /\ q[4] = "drop"
        BY <2>1, ChainRulesAre
      <3> HIDE DEF q
      <3> QED
        BY <3>1
    <2>2. CASE ~cf.rst
      <3>1. q \in Seq(Rules) /\ q[1] = "mark" /\ q[2] = "accept" /\ n = 4 /\ q[4] = "queue"
            /\ q[3] = "drop"
        BY <2>2, ChainRulesAre
      <3> HIDE DEF q
      <3> QED
        BY <3>1
    <2> QED
      BY <2>1, <2>2
  <1> HIDE DEF q, n
  <1>2. \A k \in 2..n + 1 : MarkAt(q, k, c, dir) = m
    BY <1>1 DEF MarkAt, Marked
  <1>3. n \in deciding <=> Listening
    BY <1>1, <1>2 DEF Decides
  <1>4. 1 \notin deciding
    BY <1>1 DEF Decides
  <1>5. \A k \in 2..n : k \in deciding <=> Decides(q[k], m)
    BY <1>1, <1>2
  <1>6. 2 \in deciding <=> m = "accept"
    BY <1>1, <1>5 DEF Decides
  <1>7. \A k \in 3..n - 1 : k \in deciding <=> m = "drop"
    BY <1>1, <1>5 DEF Decides
  <1>8. deciding \subseteq 2..n
    <2>1. deciding \subseteq 1..n
      BY <1>1
    <2> HIDE DEF deciding
    <2> QED
      BY <1>1, <1>4, <2>1
  <1>9. deciding # {} => first \in deciding /\ \A j \in deciding : first <= j
    <2>1. deciding \in SUBSET Nat
      BY <1>1, <1>8
    <2> HIDE DEF deciding
    <2>2. deciding # {} => \E x \in deciding : \A y \in deciding : x <= y
      BY <2>1, Smallest
    <2> QED
      BY <2>2
  <1>10. /\ deciding = {} => Verdict(q, c, dir) = "passed"
         /\ deciding # {} =>
               Verdict(q, c, dir) = CASE q[first] = "accept" -> "passed"
                                      [] q[first] \in {"reset", "drop"} -> "dropped"
                                      [] q[first] = "queue" -> "queue"
    BY DEF Verdict
  <1> HIDE DEF deciding, first, m
  <1>11. CASE m = "accept"
    <2>1. 2 \in deciding
      BY <1>6, <1>11
    <2>2. deciding # {}
      BY <2>1
    <2>3. first = 2
      <3>1. first \in deciding /\ first <= 2
        BY <1>9, <2>1, <2>2
      <3> QED
        BY <1>1, <1>8, <3>1
    <2> QED
      BY <1>1, <1>2, <1>10, <1>11, <2>2, <2>3 DEF m, q, n
  <1>12. CASE m = "drop"
    <2>1. first = 3 /\ deciding # {}
      <3>1. 2 \notin deciding /\ 3 \in deciding
        BY <1>1, <1>6, <1>7, <1>12
      <3>2. deciding # {}
        BY <3>1
      <3>3. first \in deciding /\ first <= 3
        BY <1>9, <3>1, <3>2
      <3> QED
        BY <1>1, <1>8, <3>1, <3>2, <3>3
    <2>2. Verdict(q, c, dir) = "dropped"
      BY <1>1, <1>10, <2>1
    <2> QED
      BY <1>1, <1>2, <1>12, <2>2 DEF m, q, n
  <1>13. CASE m = "none" /\ Listening
    <2>1. first = n /\ deciding # {}
      <3>1. 2 \notin deciding /\ n \in deciding /\ \A k \in 3..n - 1 : k \notin deciding
        BY <1>3, <1>6, <1>7, <1>13
      <3>2. deciding # {}
        BY <3>1
      <3>3. first \in deciding
        BY <1>9, <3>2
      <3> QED
        BY <1>1, <1>8, <3>1, <3>2, <3>3
    <2>2. Verdict(q, c, dir) = "queue"
      BY <1>1, <1>10, <2>1
    <2> QED
      BY <1>1, <1>2, <1>13, <2>2 DEF m, q, n
  <1>14. CASE m = "none" /\ ~Listening
    <2>1. deciding = {}
      <3>1. n \notin deciding /\ 2 \notin deciding /\ \A k \in 3..n - 1 : k \notin deciding
        BY <1>3, <1>6, <1>7, <1>14
      <3> QED
        BY <1>1, <1>8, <3>1
    <2> QED
      BY <1>1, <1>2, <1>10, <1>14, <2>1 DEF m, q, n
  <1> QED
    BY <1>11, <1>12, <1>13, <1>14 DEF m

\* A packet that arrives while the rules are set.
LEMMA ArrivalWhileSet ==
    ASSUME RulesInv, NFTypeOK, kind = "nfqueue", rSet,
           NEW c \in Conns, NEW dir \in ChainNames, NEW form \in Forms, PacketArrives(c, dir, form)
    PROVE  LET p == packets'[Len(packets')]
               m == Marked(c, dir)
           IN /\ Len(packets') = Len(packets) + 1 /\ p.conn = c /\ p.form = form
              /\ m = "accept" => p.at = "passed"
              /\ m = "drop" => p.at = "dropped"
              /\ m = "none" => p.at \in IF Listening THEN {"queue", "dropped"} ELSE {"passed"}
              /\ form = "whole" => mark' = [mark EXCEPT ![c] = m]
  <1> DEFINE chain == chains[FamilyOf[c]][dir]
             to == Verdict(chain, c, dir)
             at == IF to = "queue" /\ Cardinality(Queued) >= QueueLength THEN "dropped" ELSE to
             m == Marked(c, dir)
  <1>1. chains = Complete(config) /\ config \in Configs
    BY DEF RulesInv, RulesSet, NFTypeOK, Configs
  <1>2. chain = ChainRules(config)
    <2>1. dir \in Range(Hooks(config)) /\ FamilyOf[c] \in Families
      BY NFQueueAssumption DEF PacketArrives, MayArrive
    <2> QED
      BY <1>1, <2>1 DEF Complete
  <1>3. m \in {"none", "accept", "drop"}
    BY DEF Marked, NFTypeOK
  <1>4. /\ to = CASE m = "accept" -> "passed" [] m = "drop" -> "dropped"
                  [] m = "none" -> IF Listening THEN "queue" ELSE "passed"
        /\ MarkAt(chain, Len(chain) + 1, c, dir) = m
    <2> HIDE DEF chain
    <2> QED
      BY <1>1, <1>2, <1>3, CompleteVerdict
  <1>5. /\ mark' = IF form = "whole"
                   THEN [mark EXCEPT ![c] = MarkAt(chain, Len(chain) + 1, c, dir)] ELSE mark
        /\ packets' = Append(packets, [conn |-> c, form |-> form, at |-> at])
    BY DEF PacketArrives
  <1>6. packets \in Seq(QueuedPacket)
    BY DEF NFTypeOK, QueuedPacket
  <1> HIDE DEF chain, to, m
  <1>7. /\ m = "accept" => at = "passed"
        /\ m = "drop" => at = "dropped"
        /\ m = "none" => at \in IF Listening THEN {"queue", "dropped"} ELSE {"passed"}
    BY <1>4
  <1> HIDE DEF at
  <1> DEFINE p == [conn |-> c, form |-> form, at |-> at]
  <1>8. Len(packets') = Len(packets) + 1 /\ packets'[Len(packets')] = p
    BY <1>5, <1>6
  <1>9. p.conn = c /\ p.form = form /\ p.at = at
    OBVIOUS
  <1> HIDE DEF p
  <1> QED
    BY <1>4, <1>5, <1>7, <1>8, <1>9 DEF m

\* The connections whose first packet the rules have seen, once all were set, and
\* those that have no packets yet.
Covered == {c \in Protected : dialed[c] = "covered"}

Fresh == {c \in Protected : dialed[c] = "no"}

\* A covered connection is marked by its first packet and never queued.
BypassInv ==
    /\ kind = "afpacket" => packets = <<>> /\ ~rSet
    /\ kind = "nfqueue" /\ (life \in {"opening", "open", "failed"} \/ command.doing = "add") =>
          Covered = {}
    /\ \A k \in DOMAIN packets :
          /\ packets[k].conn \notin Fresh
          /\ packets[k].at = "user" => packets[k].form = "whole"
          /\ rSet /\ packets[k].at \in {"queue", "user"} => packets[k].conn \notin Covered
    /\ rSet => \A c \in Covered : mark[c] = "accept"

LEMMA BypassInit ==
    ASSUME Init
    PROVE  BypassInv
  BY DEF Init, NFInit, BypassInv, Covered

\* Steps that manage the rules: they may set them, when no connection is covered.
LEMMA BypassManage ==
    ASSUME RulesInv, BypassInv, NFTypeOK, kind = "nfqueue", 
           Manage \/ QueueSignal \/ HookFails \/ HookStops
    PROVE  BypassInv'
  <1>1. UNCHANGED <<kind, mark, dialed>> /\ Covered' = Covered /\ Fresh' = Fresh
    BY DEF Covered, Fresh, Manage, OpenQueue, RegisterQueue, AddTable, AppendRule, QueueReturn, BeginClose,
           DeleteTable, DeleteRule, CloseQueue, QueueSignal, HookFails, HookStops, nfVars
  <1>2. rSet' => rSet \/ command.doing = "add"
    BY DEF Manage, OpenQueue, RegisterQueue, AddTable, AppendRule, QueueReturn, BeginClose,
           DeleteTable, DeleteRule, CloseQueue, QueueSignal, HookFails, HookStops, nfVars
  <1>3. life' \in {"opening", "open", "failed"} \/ command'.doing = "add" =>
           life \in {"opening", "open", "failed"} \/ command.doing = "add"
    <2>1. CASE CloseQueue
      BY <2>1 DEF CloseQueue
    <2>2. CASE BeginClose \/ DeleteTable \/ DeleteRule
      <3>1. life' = life /\ (command.doing \in {"none", "remove"})
            /\ \/ command' = [doing |-> "remove", step |-> 1]
               \/ command' = [doing |-> "done", step |-> 0]
               \/ command.doing = "remove" /\ command' = NextStep
        BY <2>2 DEF BeginClose, DeleteTable, DeleteRule
      <3>2. command'.doing \in {"remove", "done"}
        BY <3>1 DEF NextStep, NFTypeOK
      <3> QED
        BY <3>1, <3>2
    <2>3. CASE AddTable \/ AppendRule
      BY <2>3 DEF AddTable, AppendRule
    <2>4. CASE OpenQueue \/ RegisterQueue
      BY <2>4 DEF OpenQueue, RegisterQueue
    <2>5. CASE QueueReturn \/ QueueSignal \/ HookFails \/ HookStops
      BY <2>5 DEF QueueReturn, QueueSignal, HookFails, HookStops, nfVars
    <2> QED
      BY <2>1, <2>2, <2>3, <2>4, <2>5 DEF Manage
  <1>4. \/ packets' = packets
        \/ /\ DOMAIN packets' = DOMAIN packets
           /\ \A k \in DOMAIN packets :
                 /\ packets'[k].conn = packets[k].conn /\ packets'[k].form = packets[k].form
                 /\ packets'[k].at \in {packets[k].at, "dropped"}
    <2>1. CASE CloseQueue \/ HookFails \/ HookStops
      <3>1. packets' = Flushed
        BY <2>1 DEF CloseQueue, HookFails, HookStops
      <3>2. packets \in Seq(QueuedPacket)
        BY DEF NFTypeOK, QueuedPacket
      <3> QED
        BY <3>1, <3>2, FlushedType
    <2>2. CASE ~(CloseQueue \/ HookFails \/ HookStops)
      BY <2>2 DEF Manage, OpenQueue, RegisterQueue, AddTable, AppendRule, QueueReturn,
                  BeginClose, DeleteTable, DeleteRule, QueueSignal, nfVars
    <2> QED
      BY <2>1, <2>2
  <1>5. command.doing = "add" /\ rSet' /\ ~rSet => Covered = {}
    BY DEF BypassInv
  <1>6. CASE rSet' => rSet
    BY <1>1, <1>3, <1>4, <1>6 DEF BypassInv
  <1>7. CASE rSet' /\ ~rSet
    <2>1. command.doing = "add" /\ Covered = {}
      BY <1>2, <1>5, <1>7
    <2> QED
      BY <1>1, <1>3, <1>4, <2>1 DEF BypassInv
  <1> QED
    BY <1>6, <1>7

LEMMA BypassPackets ==
    ASSUME RulesInv, BypassInv, NFTypeOK, kind = "nfqueue", Deliver \/ Answer
    PROVE  BypassInv'
  <1>0. packets \in Seq(QueuedPacket) /\ mark \in [Conns -> {"none", "accept", "drop"}]
    BY DEF NFTypeOK, QueuedPacket
  <1>1. UNCHANGED <<kind, life, command, rSet>> /\ Covered' = Covered /\ Fresh' = Fresh
    BY DEF Deliver, Answer, SetVerdict, Covered, Fresh
  <1>2. ASSUME NEW k \in DOMAIN packets, NEW at,
               packets' = [packets EXCEPT ![k].at = at],
               at = "user" => packets[k].form = "whole" /\ packets[k].at = "queue",
               at # "queue",
               \A c \in Covered : rSet /\ mark[c] = "accept" => mark'[c] = "accept"
        PROVE  BypassInv'
    <2>1. ASSUME NEW j \in DOMAIN packets'
          PROVE  /\ j \in DOMAIN packets
                 /\ packets'[j].conn = packets[j].conn /\ packets'[j].form = packets[j].form
                 /\ packets'[j].at = IF j = k THEN at ELSE packets[j].at
      <3>1. j \in DOMAIN packets /\ packets[j] \in QueuedPacket
        BY <1>0, <1>2
      <3>2. packets'[j] = IF j = k THEN [packets[k] EXCEPT !.at = at] ELSE packets[j]
        BY <1>2, <3>1
      <3> QED
        BY <3>1, <3>2 DEF QueuedPacket
    <2> QED
      BY <1>1, <1>2, <2>1 DEF BypassInv
  <1>3. CASE Deliver
    <2> DEFINE k == CHOOSE k \in Queued : \A j \in Queued : k <= j
               at == CASE packets[k].form = "short" -> "dropped"
                       [] packets[k].form = "untracked" ->
                             IF config.local THEN "passed" ELSE "dropped"
                       [] packets[k].form = "whole" -> "user"
    <2>1. Queued # {} /\ packets' = [packets EXCEPT ![k].at = at] /\ UNCHANGED mark
      BY <1>3 DEF Deliver
    <2>2. k \in DOMAIN packets /\ packets[k].at = "queue"
      <3>1. Queued \in SUBSET Nat
        BY <1>0 DEF Queued
      <3>2. k \in Queued
        BY <2>1, <3>1, Smallest
      <3> QED
        BY <3>2 DEF Queued
    <2> HIDE DEF k
    <2>3. packets[k].form \in {"whole", "short", "untracked"}
      <3>1. packets[k] \in QueuedPacket
        BY <1>0, <2>2
      <3> QED
        BY <3>1 DEF QueuedPacket, Forms
    <2>4. at # "queue" /\ (at = "user" => packets[k].form = "whole")
      <3>1. CASE packets[k].form = "short"
        BY <3>1
      <3>2. CASE packets[k].form = "untracked"
        BY <3>2
      <3>3. CASE packets[k].form = "whole"
        BY <3>3
      <3> QED
        BY <2>3, <3>1, <3>2, <3>3
    <2> HIDE DEF at
    <2> QED
      BY <1>2, <2>1, <2>2, <2>4
  <1>4. ASSUME NEW k \in DOMAIN packets, NEW v \in Verdicts, SetVerdict(k, v)
        PROVE  BypassInv'
    <2> DEFINE at == IF v \in {"Drop", "DropStream"} THEN "dropped" ELSE "passed"
    <2>1. /\ packets[k].at = "user" /\ packets' = [packets EXCEPT ![k].at = at]
          /\ \/ mark' = mark
             \/ mark' = [mark EXCEPT ![packets[k].conn] = "accept"]
             \/ mark' = [mark EXCEPT ![packets[k].conn] = "drop"]
      BY <1>4 DEF SetVerdict
    <2>2. rSet => packets[k].conn \notin Covered
      BY <2>1 DEF BypassInv
    <2>3. at \in {"dropped", "passed"}
      OBVIOUS
    <2> HIDE DEF at
    <2>4. ASSUME NEW c \in Covered, rSet, mark[c] = "accept"
          PROVE  mark'[c] = "accept"
      <3>1. c # packets[k].conn
        BY <2>2, <2>4
      <3> QED
        BY <1>0, <2>1, <2>4, <3>1, NFQueueAssumption DEF Covered
    <2> QED
      BY <1>2, <2>1, <2>3, <2>4
  <1> QED
    BY <1>3, <1>4 DEF Answer

LEMMA BypassArrival ==
    ASSUME RulesInv, BypassInv, NFTypeOK, kind = "nfqueue",
           NEW c \in Conns, NEW dir \in ChainNames, NEW form \in Forms, PacketArrives(c, dir, form)
    PROVE  BypassInv'
  <1> DEFINE at == packets'[Len(packets')].at
  <1>0. packets \in Seq(QueuedPacket) /\ mark \in [Conns -> {"none", "accept", "drop"}]
        /\ dialed \in [Protected -> {"no", "covered", "exposed"}] /\ Protected \subseteq Conns
    BY NFQueueAssumption DEF NFTypeOK, QueuedPacket
  <1>1. /\ UNCHANGED <<kind, life, command, rSet>>
        /\ Fresh' = Fresh \ {c}
        /\ Covered' = IF rSet /\ c \in Fresh THEN Covered \cup {c} ELSE Covered
        /\ c \in Fresh => dir = "OUTPUT"
        /\ c \in Protected => form = "whole"
    <2>1. /\ UNCHANGED <<kind, life, command, rSet>>
          /\ dialed' = IF c \in Protected /\ dialed[c] = "no"
                       THEN [dialed EXCEPT ![c] = IF rSet THEN "covered" ELSE "exposed"] ELSE dialed
          /\ c \in Protected /\ dialed[c] = "no" => dir = "OUTPUT"
          /\ c \in Protected => form = "whole"
      BY DEF PacketArrives, MayArrive
    <2> QED
      BY <1>0, <2>1 DEF Covered, Fresh
  <1>2. PICK to \in {"queue", "passed", "dropped"} :
           packets' = Append(packets, [conn |-> c, form |-> form, at |-> to])
    <2> DEFINE chain == chains[FamilyOf[c]][dir]
               v == Verdict(chain, c, dir)
    <2>1. chain \in Seq(Rules)
      BY NFQueueAssumption DEF NFTypeOK
    <2>2. v \in {"queue", "passed", "dropped"}
      BY <2>1, VerdictType
    <2>3. packets' = Append(packets,
            [conn |-> c, form |-> form,
             at |-> IF v = "queue" /\ Cardinality(Queued) >= QueueLength THEN "dropped" ELSE v])
      BY DEF PacketArrives
    <2> HIDE DEF v
    <2> QED
      BY <2>2, <2>3
  <1>3. ASSUME NEW k \in DOMAIN packets'
        PROVE  \/ k \in DOMAIN packets /\ packets'[k] = packets[k]
               \/ /\ k = Len(packets') /\ packets'[k].conn = c /\ packets'[k].form = form
                  /\ packets'[k].at # "user"
    BY <1>0, <1>2
  <1>4. \A k \in DOMAIN packets' : packets'[k].conn \notin Fresh'
    BY <1>1, <1>3 DEF BypassInv
  <1>5. \A k \in DOMAIN packets' : packets'[k].at = "user" => packets'[k].form = "whole"
    BY <1>3 DEF BypassInv
  <1>6. CASE rSet
    <2>1. /\ Marked(c, dir) = "accept" => at = "passed"
          /\ form = "whole" => mark' = [mark EXCEPT ![c] = Marked(c, dir)]
      BY <1>6, ArrivalWhileSet
    <2>2. c \in Covered' => Marked(c, dir) = "accept"
      <3>1. CASE c \in Fresh
        BY <1>1, <3>1 DEF Marked, Fresh
      <3>2. CASE c \in Covered
        BY <1>6, <3>2 DEF Marked, BypassInv
      <3> QED
        BY <1>1, <3>1, <3>2
    <2>3. \A k \in DOMAIN packets' :
             packets'[k].at \in {"queue", "user"} => packets'[k].conn \notin Covered'
      <3>1. ASSUME NEW k \in DOMAIN packets, packets'[k] = packets[k],
                   packets[k].at \in {"queue", "user"}
            PROVE  packets[k].conn \notin Covered'
        BY <1>1, <1>6, <3>1 DEF BypassInv
      <3>2. ASSUME NEW k \in DOMAIN packets', k = Len(packets'), packets'[k].conn = c,
                   packets'[k].at \in {"queue", "user"}
            PROVE  c \notin Covered'
        <4>1. packets'[k].at # "passed"
          BY <3>2
        <4> QED
          BY <2>1, <2>2, <3>2, <4>1
      <3> QED
        BY <1>3, <3>1, <3>2
    <2>4. \A x \in Covered' : mark'[x] = "accept"
      <3>1. CASE c \in Protected
        <4>1. mark' = [mark EXCEPT ![c] = Marked(c, dir)]
          BY <1>1, <2>1, <3>1
        <4>2. \A x \in Covered' : x \in Conns /\ (x = c \/ x \in Covered)
          BY <1>0, <1>1 DEF Covered, Fresh
        <4> QED
          BY <1>0, <1>6, <2>2, <4>1, <4>2 DEF BypassInv
      <3>2. CASE c \notin Protected
        <4>1. \A x \in Protected : mark'[x] = mark[x]
          BY <1>0, <3>2 DEF PacketArrives
        <4>2. Covered' = Covered /\ Covered \subseteq Protected
          BY <1>1, <3>2 DEF Covered, Fresh
        <4> QED
          BY <1>6, <4>1, <4>2 DEF BypassInv
      <3> QED
        BY <3>1, <3>2
    <2>5. kind' = "nfqueue" /\ (life' \in {"opening", "open", "failed"} \/ command'.doing = "add")
             => FALSE
      BY <1>1, <1>6 DEF RulesInv, RulesSet
    <2> QED
      BY <1>1, <1>4, <1>5, <2>3, <2>4, <2>5 DEF BypassInv
  <1>7. CASE ~rSet
    <2>1. Covered' = Covered
      BY <1>1, <1>7
    <2> QED
      BY <1>1, <1>4, <1>5, <1>7, <2>1 DEF BypassInv
  <1> QED
    BY <1>6, <1>7

LEMMA BypassStep ==
    ASSUME RulesInv, BypassInv, NFTypeOK, kind = "nfqueue", NFNext
    PROVE  BypassInv'
  BY BypassManage, BypassPackets, BypassArrival DEF NFNext

LEMMA KernelAgreesStep ==
    ASSUME RulesInv, NFTypeOK, kind = "nfqueue", NFNext, Len(packets') > Len(packets), rSet
    PROVE  LET p == packets'[Len(packets')]
           IN p.form = "whole" =>
              p.at \in CASE mark'[p.conn] = "accept" -> {"passed"}
                         [] mark'[p.conn] = "drop" -> {"dropped"}
                         [] mark'[p.conn] = "none" ->
                               IF Listening THEN {"queue", "dropped"} ELSE {"passed"}
  <1>0. packets \in Seq(QueuedPacket) /\ mark \in [Conns -> {"none", "accept", "drop"}]
    BY DEF NFTypeOK, QueuedPacket
  <1>1. PICK c \in Conns, dir \in ChainNames, form \in Forms : PacketArrives(c, dir, form)
    <2>1. CASE Deliver \/ Answer
      <3>1. \E k, at : packets' = [packets EXCEPT ![k].at = at]
        BY <2>1 DEF Deliver, Answer, SetVerdict
      <3> QED
        BY <1>0, <3>1
    <2>2. CASE CloseQueue \/ HookFails \/ HookStops
      <3>1. packets' = Flushed
        BY <2>2 DEF CloseQueue, HookFails, HookStops
      <3> QED
        BY <1>0, <3>1, FlushedType
    <2>3. CASE \/ OpenQueue \/ RegisterQueue \/ AddTable \/ AppendRule \/ QueueReturn
               \/ BeginClose \/ DeleteTable \/ DeleteRule \/ QueueSignal
      <3>1. packets' = packets
        BY <2>3 DEF OpenQueue, RegisterQueue, AddTable, AppendRule, QueueReturn, BeginClose,
                    DeleteTable, DeleteRule, QueueSignal, nfVars
      <3> QED
        BY <1>0, <3>1
    <2> QED
      BY <2>1, <2>2, <2>3 DEF NFNext, Manage
  <1> DEFINE p == packets'[Len(packets')]
  <1>2. /\ p.conn = c /\ p.form = form
        /\ Marked(c, dir) = "accept" => p.at = "passed"
        /\ Marked(c, dir) = "drop" => p.at = "dropped"
        /\ Marked(c, dir) = "none" => p.at \in IF Listening THEN {"queue", "dropped"} ELSE {"passed"}
        /\ form = "whole" => mark' = [mark EXCEPT ![c] = Marked(c, dir)]
    BY <1>1, ArrivalWhileSet
  <1> HIDE DEF p
  <1>3. SUFFICES ASSUME form = "whole"
                 PROVE  p.at \in CASE mark'[c] = "accept" -> {"passed"}
                                   [] mark'[c] = "drop" -> {"dropped"}
                                   [] mark'[c] = "none" ->
                                         IF Listening THEN {"queue", "dropped"} ELSE {"passed"}
    BY <1>2 DEF p
  <1>4. mark'[c] = Marked(c, dir) /\ Marked(c, dir) \in {"none", "accept", "drop"}
    <2>1. Marked(c, dir) \in {"none", "accept", "drop"}
      BY <1>0 DEF Marked
    <2> QED
      BY <1>0, <1>2, <1>3, <2>1
  <1>5. CASE mark'[c] = "accept"
    BY <1>2, <1>4, <1>5
  <1>6. CASE mark'[c] = "drop"
    BY <1>2, <1>4, <1>6
  <1>7. CASE mark'[c] = "none"
    BY <1>2, <1>4, <1>7
  <1> QED
    BY <1>4, <1>5, <1>6, <1>7

-----------------------------------------------------------------------------
(* The theorems *)

Inv ==
    /\ kind \in Kinds /\ life \in Lives
    /\ AFInv /\ CountersInv /\ Held
    /\ NFInv /\ RulesInv /\ BypassInv

LEMMA InvInit ==
    ASSUME Init
    PROVE  Inv
  <1>1. kind \in Kinds /\ life \in Lives /\ Held
    BY DEF Init, AFInit, Lives, Held
  <1> QED
    BY <1>1, AFInitInv, CountersInit, NFInitInv, RulesInit, BypassInit DEF Inv

LEMMA InvStep ==
    ASSUME Inv, [Next]_vars
    PROVE  Inv'
  <1>1. CASE kind = "afpacket" /\ AFNext /\ UNCHANGED nfVars
    <2>1. AFInv' /\ life' \in Lives /\ kind' = kind
      BY <1>1, AFStep DEF Inv
    <2>2. CountersInv'
      BY <1>1, <2>1, CountersStep DEF Inv, AFInv
    <2>3. Held'
      BY <1>1, <2>1, HeldStep DEF Inv
    <2>4. NFInv' /\ RulesInv' /\ BypassInv'
      BY <1>1, <2>1 DEF Inv, NFInv, NFTypeOK, HookOnce, RulesInv, BypassInv, Covered, Fresh, nfVars
    <2> QED
      BY <2>1, <2>2, <2>3, <2>4 DEF Inv
  <1>2. CASE kind = "nfqueue" /\ NFNext /\ UNCHANGED afVars
    <2>1. NFInv' /\ life' \in Lives /\ kind' = kind
      BY <1>2, ManageStep, PacketStep DEF Inv, NFNext
    <2>2. AFInv'
      BY <1>2, <2>1, AFStutter DEF Inv
    <2>3. CountersInv' /\ Held'
      BY <1>2, <2>1 DEF Inv, CountersInv, Held, afVars
    <2>4. RulesInv' /\ BypassInv'
      BY <1>2, RulesStep, BypassStep DEF Inv, NFInv
    <2> QED
      BY <2>1, <2>2, <2>3, <2>4 DEF Inv
  <1>3. CASE UNCHANGED vars
    <2>1. UNCHANGED <<kind, life>> /\ UNCHANGED afVars /\ UNCHANGED nfVars
      BY <1>3 DEF vars
    <2>2. AFInv'
      BY <2>1, AFStutter DEF Inv
    <2>3. CountersInv' /\ Held'
      BY <2>1 DEF Inv, CountersInv, Held, afVars
    <2>4. NFInv' /\ RulesInv' /\ BypassInv'
      BY <2>1 DEF Inv, NFInv, NFTypeOK, HookOnce, RulesInv, RulesSet, RulesAdded, RulesRemoved,
                  RulesGone, Phases, BypassInv, Covered, Fresh, nfVars
    <2> QED
      BY <2>1, <2>2, <2>3, <2>4 DEF Inv
  <1> QED
    BY <1>1, <1>2, <1>3 DEF Next

LEMMA Invariance == Spec => []Inv
  <1>1. Init => Inv
    BY InvInit
  <1>2. Inv /\ [Next]_vars => Inv'
    BY InvStep
  <1> QED
    BY <1>1, <1>2, PTL DEF Spec

\* While the reader of the ring is in a block, the kernel does not own it
\* (io/afpacket.go, rxRing.readBlocks and releaseBlock), for any number of blocks.
THEOREM NeverReadsTheKernelsBlocks == Spec => []ReadsOwnBlocks
  <1>1. Inv => ReadsOwnBlocks
    BY DEF Inv, AFInv
  <1> QED
    BY <1>1, Invariance, PTL

\* No packet reaches the engine twice, and those of a block, or of the plain
\* socket, reach it in the order they were captured, for any number of blocks.
THEOREM NoPacketTwice == Spec => []DeliveredInOrder
  <1>1. Inv => DeliveredInOrder
    BY DEF Inv, AFInv
  <1> QED
    BY <1>1, Invariance, PTL

\* Every variable keeps its type, and neither IO ever tells the engine of a
\* second error, which the channel of Run would have no room for.
THEOREM OneErrorOnly == Spec => []OneError
  <1>1. Inv => OneError
    BY DEF Inv, AFInv, NFInv, OneError, TypeOK, Told, HookOnce
  <1> QED
    BY <1>1, Invariance, PTL

\* Every packet the kernel's counter lost is in the statistics, in the hands of
\* one caller of Stats, or still in the kernel: none twice, none nowhere
\* (io/afpacket.go, Stats and kernelDrops), for any number of callers.
THEOREM NoDropUncounted == Spec => []CountersComplete
  <1>1. Inv => CountersComplete
    BY DEF Inv, CountersInv, CountersComplete, AskSum
  <1> QED
    BY <1>1, Invariance, PTL

\* After the end there is no descriptor, no mapping and no rule left
\* (io/afpacket.go, Close and the error paths of its constructor; io/nfqueue.go,
\* Close, with nft or iptables), also with rules an earlier run had left.
THEOREM NothingIsLeft == Spec => []NothingLeft
  <1>1. Inv => NothingLeft
    <2> SUFFICES ASSUME Inv PROVE NothingLeft
      OBVIOUS
    <2>1. NothingLeftOpen
      BY DEF Inv, Held, NothingLeftOpen
    <2>2. NoRulesLeft
      BY DEF Inv, RulesInv, RulesGone, NoRulesLeft
    <2> QED
      BY <2>1, <2>2 DEF NothingLeft
  <1> QED
    BY <1>1, Invariance, PTL

\* The callback gets whole packets only, and while the rules are set none of a
\* connection whose first packet found all of them (io/nfqueue.go, the connmark
\* rules and ProtectedDialContext), for any connections.
THEOREM ProtectedNeverQueued == Spec => []ProtectedBypass
  <1>1. Inv => ProtectedBypass
    BY DEF Inv, BypassInv, Covered, ProtectedBypass
  <1> QED
    BY <1>1, Invariance, PTL

\* While the rules are set, the place the kernel gives a packet that arrives is
\* the one the verdicts so far call for, and past the program, as the bypass has
\* it, when there is none and the callbacks have ended (io/nfqueue.go,
\* generateNftRules and generateIptRules; SetVerdict).
THEOREM RulesDoWhatVerdictsSay == Spec => KernelAgrees
  <1> DEFINE Agrees ==
        Len(packets') > Len(packets) /\ rSet =>
          LET p == packets'[Len(packets')]
          IN p.form = "whole" =>
             p.at \in CASE mark'[p.conn] = "accept" -> {"passed"}
                        [] mark'[p.conn] = "drop" -> {"dropped"}
                        [] mark'[p.conn] = "none" ->
                              IF Listening THEN {"queue", "dropped"} ELSE {"passed"}
  <1>1. Inv /\ [Next]_vars => [Agrees]_nfVars
    <2> SUFFICES ASSUME Inv, Next, ~UNCHANGED nfVars PROVE Agrees
      BY DEF vars
    <2>1. kind = "nfqueue" /\ NFNext /\ RulesInv /\ NFTypeOK
      BY DEF Next, Inv, NFInv
    <2> QED
      BY <2>1, KernelAgreesStep
  <1> HIDE DEF Agrees
  <1>2. Spec => [][Agrees]_nfVars
    BY <1>1, Invariance, PTL DEF Spec
  <1> QED
    BY <1>2 DEF KernelAgrees, Agrees

=============================================================================
