----------------------------- MODULE PacketFlow -----------------------------
(***************************************************************************)
(* What the engine promises about the packets it is handed, whatever its   *)
(* workers, queues and reloads do: the packets of one stream are judged    *)
(* one at a time in the order they came, none twice, and each of them      *)
(* unless the engine is shut down first.                                   *)
(***************************************************************************)
EXTENDS Integers, Sequences

CONSTANTS Streams, Packets

VARIABLES
    waiting,    \* packets of each stream that have no verdict yet, in order
    judged,     \* packets that have their verdict
    closing     \* the engine is being shut down

vars == <<waiting, judged, closing>>

Waiting(p) == \E s \in Streams : \E i \in DOMAIN waiting[s] : waiting[s][i] = p

Init ==
    /\ waiting = [s \in Streams |-> <<>>]
    /\ judged = {}
    /\ closing = FALSE

Arrive(s, p) ==
    /\ p \notin judged /\ ~Waiting(p)
    /\ waiting' = [waiting EXCEPT ![s] = Append(@, p)]
    /\ UNCHANGED <<judged, closing>>

Judge(s) ==
    /\ waiting[s] # <<>>
    /\ judged' = judged \cup {Head(waiting[s])}
    /\ waiting' = [waiting EXCEPT ![s] = Tail(@)]
    /\ UNCHANGED closing

Shut ==
    /\ closing' = TRUE
    /\ UNCHANGED <<waiting, judged>>

Next ==
    \/ \E s \in Streams, p \in Packets : Arrive(s, p)
    \/ \E s \in Streams : Judge(s)
    \/ Shut

\* What may happen, and what has to.
Safety == Init /\ [][Next]_vars

Spec ==
    /\ Safety
    /\ \A s \in Streams : WF_vars(~closing /\ Judge(s))

=============================================================================
