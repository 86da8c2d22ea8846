------------------------------ MODULE PacketIO ------------------------------
(***************************************************************************)
(* The live packet IO of a program: AF_PACKET or NFQUEUE, as io.mode says  *)
(* (cmd/root.go, fillIO).                                                  *)
(***************************************************************************)
EXTENDS AFPacket, NFQueue

vars == <<kind, life, afVars, nfVars>>

Init ==
    /\ kind \in Kinds /\ life = "opening"
    /\ AFInit /\ NFInit
    /\ kind = "afpacket" => config = [tool |-> "nft", local |-> FALSE, rst |-> FALSE] /\ chains = Empty
    /\ kind = "nfqueue" => backend = "raw"

Next ==
    \/ kind = "afpacket" /\ AFNext /\ UNCHANGED nfVars
    \/ kind = "nfqueue" /\ NFNext /\ UNCHANGED afVars

\* The goroutines of Register and the callers of Stats go on; the program opens
\* its IO, runs the engine, and closes the IO once Run has returned; iptables
\* and nft return.  While the engine runs its workers take and answer packets,
\* so that callbacks return; workers that have stopped do neither.  Signals,
\* packets, drops and errors come or do not.
AFFairness ==
    /\ WF_vars(kind = "afpacket" /\ (Read \/ Fault) /\ UNCHANGED nfVars)
    /\ WF_vars(kind = "afpacket" /\ ~Cancelled /\ CallbackReturns /\ UNCHANGED nfVars)
    /\ WF_vars(kind = "afpacket" /\ (Register \/ ReturnError \/ AFClose) /\ UNCHANGED nfVars)

NFFairness ==
    /\ WF_vars(kind = "nfqueue" /\ Manage /\ UNCHANGED afVars)
    /\ WF_vars(kind = "nfqueue" /\ ~ContextDone /\ Deliver /\ UNCHANGED afVars)
    /\ \A k \in 1..MaxArrivals :
          WF_vars(kind = "nfqueue" /\ ~ContextDone /\ (\E v \in Verdicts : SetVerdict(k, v))
                     /\ UNCHANGED afVars)

Spec == Init /\ [][Next]_vars /\ AFFairness /\ NFFairness

TypeOK == kind \in Kinds /\ life \in Lives /\ AFTypeOK /\ NFTypeOK

\* The engine's channel has room for one error and is not read after Run has
\* returned: neither IO sends a second one, which would block its goroutine,
\* whichever of read errors, losses and bad packets come before the other stops.
OneError == TypeOK /\ errors.told <= 1 /\ faults.told <= 1

\* A program that has ended leaves nothing in the system: no descriptor, no
\* mapping and no rule, also when opening the IO failed half way.
NothingLeft == NothingLeftOpen /\ NoRulesLeft

\* What the kernel hands over comes back to it: a block of the ring is
\* released, and every queued packet gets an answer.
GivenBack == BlocksComeBack /\ Answered

=============================================================================
