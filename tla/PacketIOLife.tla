---------------------------- MODULE PacketIOLife ----------------------------
(***************************************************************************)
(* The life of the one packet IO a program opens (cmd/root.go, fillIO and  *)
(* runMain): it is created, its callback is registered when the engine     *)
(* runs, the engine returns when its context is cancelled or the IO        *)
(* reports an error, and a deferred call closes the IO.                    *)
(***************************************************************************)

VARIABLES
    kind,   \* io.mode: "afpacket" or "nfqueue"
    life    \* "opening", "failed", "open", "running", "cancelled", "closed"

Kinds == {"afpacket", "nfqueue"}

Lives == {"opening", "failed", "open", "running", "cancelled", "closed"}

\* The context given to Register; Run cancels it when it returns.
Cancelled == life \in {"cancelled", "closed"}

=============================================================================
