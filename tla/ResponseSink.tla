---------------------------- MODULE ResponseSink ----------------------------
(***************************************************************************)
(* The OVS response sink (cmd/response.go): workers offer events to a      *)
(* bounded queue, one goroutine installs two drop flows per machine and    *)
(* remembers in memory when it last tried, and the process may be closed   *)
(* or die and start again.  The switch, its hard timeouts and the          *)
(* ovs-quarantine command of another process (cmd/ovs_quarantine.go) act   *)
(* on the flows at the same time.                                          *)
(***************************************************************************)
EXTENDS Integers, Sequences

CONSTANTS
    Macs,            \* addresses of machines
    NoMac,           \* an event without an address
    QueueSize,       \* config.QueueSize
    Cooldown,        \* config.Cooldown
    HardTimeout,     \* config.HardTimeout
    Second,          \* instants of the clock in a second
    CommandTimeout,  \* config.CommandTimeout
    DeleteOnStart,   \* config.DeleteOnStart
    MaxTime,         \* bound: last instant of the clock
    MaxRestarts      \* bound: restarts of the process

ASSUME ResponseAssumption ==
    /\ NoMac \notin Macs
    /\ QueueSize \in Nat \ {0}
    /\ Cooldown \in Nat \ {0} /\ HardTimeout \in Nat \ {0} /\ Second \in Nat \ {0}
    /\ CommandTimeout \in Nat
    /\ DeleteOnStart \in BOOLEAN
    /\ MaxTime \in Nat /\ MaxRestarts \in Nat

Fields == {"dl_src", "dl_dst"}

None == -1

VARIABLES
    clock,      \* time.Now(), and the clock of the switch
    queue,      \* s.events
    runner,     \* the goroutine: waiting, at a command, or ended
    target,     \* the address it installs flows for
    since,      \* when its command began
    closing,    \* s.stop is closed
    last,       \* s.last: when the flows of an address were last attempted
    expiry,     \* in the switch: when a flow goes away
    releasing,  \* ovs-quarantine release: the address of its second command
    restarts,   \* how often the process started again
    outcome     \* history: how the last attempt for an address ended

vars == <<clock, queue, runner, target, since, closing, last, expiry, releasing,
          restarts, outcome>>

process == <<queue, runner, target, since, closing, last, restarts>>

Active(mac, field) == clock < expiry[mac][field]

Blocked(mac) == \A field \in Fields : Active(mac, field)

Without(macs, fields) ==
    [mac \in Macs |-> [field \in Fields |->
        IF mac \in macs /\ field \in fields THEN 0 ELSE expiry[mac][field]]]

\* History: the flows of these addresses were taken away.
Released(macs) == [mac \in Macs |-> IF mac \in macs THEN "released" ELSE outcome[mac]]

-----------------------------------------------------------------------------

Init ==
    /\ clock = 0
    /\ queue = <<>>
    /\ runner = "select"
    /\ target = NoMac
    /\ since = 0
    /\ closing = FALSE
    /\ last = [mac \in Macs |-> None]
    /\ expiry = [mac \in Macs |-> [field \in Fields |-> 0]]
    /\ releasing = NoMac
    /\ restarts = 0
    /\ outcome = [mac \in Macs |-> "none"]

\* Flows go away by themselves as the clock passes their expiry, and a command
\* that takes too long is killed.
Tick ==
    /\ clock < MaxTime
    /\ runner \in Fields => clock < since + CommandTimeout
    /\ clock' = clock + 1
    /\ UNCHANGED <<process, expiry, releasing, outcome>>

\* Emit of an event that passes shouldHandle, or Quarantine.  A full queue drops
\* the event; a closed stop channel may, and need not, win over room.
Enqueue(event) ==
    /\ Len(queue) < QueueSize
    /\ queue' = Append(queue, event)
    /\ UNCHANGED <<clock, runner, target, since, closing, last, expiry, releasing,
                   restarts, outcome>>

\* Mutant: the last instant of the cooldown swallows as well.
CoolingLonger(mac) == last[mac] # None /\ clock - last[mac] <= Cooldown

Cooling(mac) == last[mac] # None /\ clock - last[mac] < Cooldown

\* What handle needs to go to the switch: an address, and no recent attempt.
Due(event) == event \in Macs /\ ~Cooling(event)

Receive ==
    /\ runner = "select"
    /\ queue # <<>>
    /\ queue' = Tail(queue)
    /\ UNCHANGED <<clock, closing, expiry, releasing, restarts>>

\* Mutant: a swallowed event starts the cooldown anew.
SkipAndStamp ==
    /\ Receive
    /\ ~Due(Head(queue))
    /\ last' = [mac \in Macs |-> IF mac = Head(queue) THEN clock ELSE last[mac]]
    /\ UNCHANGED <<runner, target, since, outcome>>

\* handle returns without a command: no address, or too soon.
Skip ==
    /\ Receive
    /\ ~Due(Head(queue))
    /\ UNCHANGED <<runner, target, since, last, outcome>>

\* handle goes to the switch; the time is stored before the first command.
Handle ==
    LET mac == Head(queue)
    IN /\ Receive
       /\ Due(mac)
       /\ last' = [last EXCEPT ![mac] = clock]
       /\ runner' = "dl_src"
       /\ target' = mac
       /\ since' = clock
       /\ outcome' = [outcome EXCEPT ![mac] = "started"]

\* durationSeconds: the hard timeout of a flow is told in whole seconds, rounded
\* down, and at least in one.
FlowTimeout ==
    LET seconds == HardTimeout \div Second
    IN Second * (IF seconds = 0 THEN 1 ELSE seconds)

\* add-flow replaces a flow with the same match, and its timeout starts anew.
Install(field) == [expiry EXCEPT ![target][field] = clock + FlowTimeout]

\* A command that succeeds.  After the second one the response was applied.
AddFlow(field) ==
    /\ runner = field
    /\ expiry' = Install(field)
    /\ runner' = IF field = "dl_src" THEN "dl_dst" ELSE "select"
    /\ target' = IF field = "dl_src" THEN target ELSE NoMac
    /\ since' = IF field = "dl_src" THEN clock ELSE 0
    /\ outcome' = IF field = "dl_dst" /\ outcome[target] = "started"
                  THEN [outcome EXCEPT ![target] = "installed"] ELSE outcome
    /\ UNCHANGED <<clock, queue, closing, last, releasing, restarts>>

\* Mutant: a failed command does not end the attempt.
FailOnward(field) ==
    /\ runner = field
    /\ expiry' \in {expiry, Install(field)}
    /\ runner' = IF field = "dl_src" THEN "dl_dst" ELSE "select"
    /\ target' = IF field = "dl_src" THEN target ELSE NoMac
    /\ since' = IF field = "dl_src" THEN clock ELSE 0
    /\ outcome' = IF field = "dl_src" THEN outcome ELSE [outcome EXCEPT ![target] = "failed"]
    /\ UNCHANGED <<clock, queue, closing, last, releasing, restarts>>

\* A command that fails or times out, after the switch took the flow or before.
FailFlow(field) ==
    /\ runner = field
    /\ expiry' \in {expiry, Install(field)}
    /\ runner' = "select"
    /\ target' = NoMac
    /\ since' = 0
    /\ outcome' = [outcome EXCEPT ![target] = "failed"]
    /\ UNCHANGED <<clock, queue, closing, last, releasing, restarts>>

Close ==
    /\ ~closing
    /\ closing' = TRUE
    /\ UNCHANGED <<clock, queue, runner, target, since, last, expiry, releasing,
                   restarts, outcome>>

\* Mutant: what is queued is served before the goroutine ends.
StopDrained ==
    /\ closing
    /\ runner = "select" /\ queue = <<>>
    /\ runner' = "done"
    /\ UNCHANGED <<clock, queue, target, since, closing, last, expiry, releasing,
                   restarts, outcome>>

\* The goroutine sees stop between two events; what is queued is left.
Stop ==
    /\ closing
    /\ runner = "select"
    /\ runner' = "done"
    /\ UNCHANGED <<clock, queue, target, since, closing, last, expiry, releasing,
                   restarts, outcome>>

\* The process ends, orderly or not, and newResponseSink starts anew: the switch
\* keeps its flows unless the cleanup is configured and succeeds.
Restart ==
    /\ restarts < MaxRestarts
    /\ restarts' = restarts + 1
    /\ queue' = <<>>
    /\ runner' = "select"
    /\ target' = NoMac
    /\ since' = 0
    /\ closing' = FALSE
    /\ last' = [mac \in Macs |-> None]
    /\ outcome' = [mac \in Macs |-> "none"]
    /\ \/ UNCHANGED expiry
       \/ DeleteOnStart /\ expiry' = Without(Macs, Fields)
    /\ UNCHANGED <<clock, releasing>>

\* ovs-quarantine release: two commands, the second only after the first.
ReleaseSrc(mac) ==
    /\ releasing = NoMac
    /\ expiry' = Without({mac}, {"dl_src"})
    /\ releasing' = mac
    /\ outcome' = Released({mac})
    /\ UNCHANGED <<clock, process>>

ReleaseDst ==
    /\ releasing # NoMac
    /\ expiry' \in {expiry, Without({releasing}, {"dl_dst"})}
    /\ releasing' = NoMac
    /\ outcome' = Released({releasing})
    /\ UNCHANGED <<clock, process>>

\* ovs-quarantine clear.
Clear ==
    /\ releasing = NoMac
    /\ expiry' = Without(Macs, Fields)
    /\ outcome' = Released(Macs)
    /\ UNCHANGED <<clock, process, releasing>>

Run == Skip \/ Handle \/ (\E field \in Fields : AddFlow(field) \/ FailFlow(field))

Next ==
    \/ Tick
    \/ \E event \in Macs \cup {NoMac} : Enqueue(event)
    \/ Skip \/ Handle
    \/ \E field \in Fields : AddFlow(field) \/ FailFlow(field)
    \/ Close \/ Stop \/ Restart
    \/ \E mac \in Macs : ReleaseSrc(mac)
    \/ ReleaseDst \/ Clear

Spec == Init /\ [][Next]_vars

\* The goroutine is scheduled and every command ends (each has a timeout).  Go
\* chooses at random between the ready cases of a select, so that stop is taken
\* in the end although events keep coming.
FairSpec == Spec /\ WF_vars(Run) /\ SF_vars(Stop)

-----------------------------------------------------------------------------
(* Properties *)

TypeOK ==
    /\ clock \in 0..MaxTime
    /\ queue \in Seq(Macs \cup {NoMac}) /\ Len(queue) <= QueueSize
    /\ runner \in {"select", "done", "dl_src", "dl_dst"}
    /\ target \in Macs \cup {NoMac} /\ (runner \in Fields => target \in Macs)
    /\ since \in 0..MaxTime
    /\ closing \in BOOLEAN
    /\ last \in [Macs -> (0..MaxTime) \cup {None}]
    /\ expiry \in [Macs -> [Fields -> Nat]]
    /\ releasing \in Macs \cup {NoMac}
    /\ restarts \in 0..MaxRestarts
    /\ outcome \in [Macs -> {"none", "started", "installed", "failed", "released"}]

\* A response counted as applied isolates the machine in both directions for the
\* whole seconds of the hard timeout since the event was handled, unless an
\* operator releases it:
\* also when the second command was slow, other machines were handled in between or
\* flows of an earlier process were still there.
AppliedHolds ==
    \A mac \in Macs :
        (outcome[mac] = "installed" /\ clock < last[mac] + FlowTimeout) => Blocked(mac)

\* An event the cooldown swallows is about a machine that is blocked already,
\* as long as the last attempt for it succeeded and nobody undid it, and the
\* cooldown is no longer than the flows last.
SwallowedIsBlocked ==
    [][\A mac \in Macs :
          (/\ Skip /\ Head(queue) = mac
           /\ outcome[mac] = "installed"
           /\ Cooldown <= FlowTimeout) => Blocked(mac)]_vars

\* An event that got into the queue is decided: its machine becomes blocked, or
\* the attempt failed or was undone, unless the sink is closed or the process
\* ends first.
QueuedIsDecided ==
    \A mac \in Macs, n \in 0..MaxRestarts :
        ((\E i \in 1..Len(queue) : queue[i] = mac) /\ restarts = n)
            ~> (Blocked(mac) \/ outcome[mac] \in {"failed", "released"}
                    \/ closing \/ restarts # n)

\* Close returns, whatever is queued and however many events still arrive, as
\* long as the process lives.
CloseReturns == closing ~> (runner = "done" \/ ~closing)

=============================================================================
