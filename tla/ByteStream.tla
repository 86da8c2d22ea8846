----------------------------- MODULE ByteStream -----------------------------
(***************************************************************************)
(* What the TCP analyzers are built from: a buffer per direction, and a    *)
(* linear state machine per direction whose steps are parse functions      *)
(* (analyzer/utils/bytebuffer.go, analyzer/utils/lsm.go).                  *)
(*                                                                         *)
(* A stream is a record: its analyzer, what is buffered, the steps of each *)
(* machine and the place it is at, what the last parse function said, whether it was   *)
(* cancelled, the analyzer's flags and property maps per direction, and    *)
(* mem, the analyzer's own fields.  A parse function takes a stream and    *)
(* gives the stream it leaves behind.                                      *)
(***************************************************************************)
EXTENDS Naturals, Sequences, SequencesExt, TLC

Dirs == {"req", "resp"}

\* An empty property map, and one that is nil.
Nothing == <<>>

NewStream(analyzer, reqSteps, respSteps, mem) ==
    [analyzer |-> analyzer,
     buf |-> [dir \in Dirs |-> <<>>],
     steps |-> [req |-> reqSteps, resp |-> respSteps],
     at |-> [dir \in Dirs |-> 1],
     says |-> "next",
     cancelled |-> [dir \in Dirs |-> FALSE],
     updated |-> [dir \in Dirs |-> FALSE],
     done |-> [dir \in Dirs |-> FALSE],
     map |-> [dir \in Dirs |-> Nothing],
     mem |-> mem]

-----------------------------------------------------------------------------
(* ByteBuffer *)

Append_(s, dir, data) == [s EXCEPT !.buf[dir] = @ \o data]

\* Get: there are enough bytes, the bytes, the stream without them.
Has(s, dir, n) == Len(s.buf[dir]) >= n
Get(s, dir, n) == SubSeq(s.buf[dir], 1, n)
Skip(s, dir, n) == [s EXCEPT !.buf[dir] = SubSeq(@, n + 1, Len(@))]

\* GetUint16, big endian.
Uint16(bytes, at) == bytes[at] * 256 + bytes[at + 1]

\* GetUntil: the first place of a separator, what stands before it, and the
\* stream without both.
Places(s, dir, sep) ==
    {i \in 0..(Len(s.buf[dir]) - Len(sep)) : SubSeq(s.buf[dir], i + 1, i + Len(sep)) = sep}
Before(s, dir, sep) ==
    Get(s, dir, CHOOSE i \in Places(s, dir, sep) : \A j \in Places(s, dir, sep) : i <= j)
Behind(s, dir, sep) == Skip(s, dir, Len(Before(s, dir, sep)) + Len(sep))

-----------------------------------------------------------------------------
(* LinearStateMachine *)

Pause(s) == [s EXCEPT !.says = "pause"]
Next_(s) == [s EXCEPT !.says = "next"]
Reset(s) == [s EXCEPT !.says = "reset"]
Cancel(s) == [s EXCEPT !.says = "cancel"]

\* A parse function that needs n bytes.
Given(s, dir, n, parsed) == IF Has(s, dir, n) THEN parsed ELSE Pause(s)

AppendSteps(s, dir, steps) == [s EXCEPT !.steps[dir] = @ \o steps]

\* What Feed tells the engine: the stream is over.
Over(s, dir) == s.cancelled[dir] \/ (s.done["req"] /\ s.done["resp"])

=============================================================================
