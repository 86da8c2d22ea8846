------------------------------- MODULE NFQueue -------------------------------
(***************************************************************************)
(* The NFQUEUE packet IO (io/nfqueue.go): the firewall rules it generates, *)
(* installs with nft or, rule by rule, with iptables, and removes; the     *)
(* kernel's queue; the verdicts, which also mark connections so that the   *)
(* rules decide their later packets without the program.                   *)
(***************************************************************************)
EXTENDS PacketIOLife, StreamTypes, Integers, Sequences, FiniteSets, SequencesExt

CONSTANTS
    Conns,         \* connections
    Protected,     \* those the program dials itself
    FamilyOf,      \* ipt4 or ipt6: the family of each connection
    QueueLength,   \* config.QueueSize
    MaxArrivals,   \* bound: packets
    MaxFailures    \* bound: failing commands

Families == {"ipv4", "ipv6"}

ASSUME NFQueueAssumption ==
    /\ Protected \subseteq Conns
    /\ FamilyOf \in [Conns -> Families]
    /\ QueueLength \in Nat \ {0} /\ {MaxArrivals, MaxFailures} \subseteq Nat

VARIABLES
    config,     \* tool "nft" or "iptables"; local; rst
    chains,     \* the rules in each chain of each family
    command,    \* rules being added or removed, and the place in the list
    rSet,       \* the rules have been set
    signalled,  \* a signal has cancelled the context of Run
    mark,       \* the conntrack mark of each connection
    packets,    \* the packets so far: connection, form, where each is
    faults,     \* failing calls, errors the engine was told, the queue's callbacks
    dialed      \* protected connections: not dialed, dialed while rSet, or before

nfVars == <<config, chains, command, rSet, signalled, mark, packets, faults, dialed>>

\* Register binds the queue; it is unbound when its callbacks end or it is closed.
Listening == faults.hook = "on" /\ life # "closed"

ContextDone == signalled \/ Cancelled

ChainNames == {"FORWARD", "INPUT", "OUTPUT"}

Hooks(c) == IF c.local THEN <<"INPUT", "OUTPUT">> ELSE <<"FORWARD">>

Rules == {"mark", "accept", "reset", "drop", "queue"}

\* Mutant: packets are queued before any mark is looked at.
QueueFirstRules(c) ==
    <<"queue", "mark", "accept">> \o IF c.rst THEN <<"reset", "drop">> ELSE <<"drop">>

\* The rules of one chain, in order.
ChainRules(c) ==
    <<"mark", "accept">> \o (IF c.rst THEN <<"reset">> ELSE <<>>) \o <<"drop", "queue">>

\* TCP reset is refused in local mode.
Generates(c) == ~(c.local /\ c.rst)

\* iptables is called for the rules of one chain after the other, and for each
\* rule for IPv4, then IPv6.
CallCount(c) == 2 * Len(Hooks(c)) * Len(ChainRules(c))

CallAt(c, step) ==
    LET n == Len(ChainRules(c))
    IN [family |-> IF step % 2 = 1 THEN "ipv4" ELSE "ipv6",
        rule   |-> ChainRules(c)[(((step - 1) \div 2) % n) + 1],
        chain  |-> Hooks(c)[(step - 1) \div (2 * n) + 1]]

Empty == [f \in Families |-> [h \in ChainNames |-> <<>>]]

Complete(c) ==
    [f \in Families |-> [h \in ChainNames |->
        IF h \in Range(Hooks(c)) THEN ChainRules(c) ELSE <<>>]]

\* What an earlier run that was killed may have left: nothing, or everything.
NFInit ==
    /\ config \in [tool : {"nft", "iptables"}, local : BOOLEAN, rst : BOOLEAN]
    /\ chains \in {Empty} \cup IF Generates(config) THEN {Complete(config)} ELSE {}
    /\ command = [doing |-> "none", step |-> 0]
    /\ rSet = FALSE /\ signalled = FALSE
    /\ mark = [c \in Conns |-> "none"]
    /\ packets = <<>>
    /\ faults = [commands |-> 0, told |-> 0, hook |-> "none"]
    /\ dialed = [c \in Protected |-> "no"]

-----------------------------------------------------------------------------
(* Opening, the rules, closing *)

\* nfqueue.Open, then the sizes of the socket's buffers.
OpenQueue ==
    /\ life = "opening"
    /\ life' \in {"open", "failed"}
    /\ UNCHANGED <<kind, nfVars>>

\* The callbacks come first, then the rules; a failure ends Run, and the
\* program closes the IO.
RegisterQueue ==
    /\ life = "open"
    /\ \/ /\ faults' = [faults EXCEPT !.hook = "on"]
          /\ \/ /\ Generates(config)
                /\ life' = "running" /\ command' = [doing |-> "add", step |-> 1]
             \/ ~Generates(config) /\ life' = "cancelled" /\ UNCHANGED command
       \/ /\ faults.commands < MaxFailures
          /\ faults' = [faults EXCEPT !.commands = @ + 1]
          /\ life' = "cancelled" /\ UNCHANGED command
    /\ UNCHANGED <<kind, config, chains, rSet, signalled, mark, packets, dialed>>

\* nft deletes the table and adds it whole.
AddTable ==
    /\ command.doing = "add" /\ config.tool = "nft"
    /\ command' = [doing |-> "none", step |-> 0]
    /\ \/ chains' = Complete(config) /\ rSet' = TRUE /\ UNCHANGED <<life, faults>>
       \/ /\ faults.commands < MaxFailures
          /\ faults' = [faults EXCEPT !.commands = @ + 1]
          /\ chains' = Empty /\ life' = "cancelled" /\ UNCHANGED rSet
    /\ UNCHANGED <<kind, config, signalled, mark, packets, dialed>>

Call == CallAt(config, command.step)

NextStep == [command EXCEPT !.step = @ + 1]

\* Mutant: the rules count as set when the first call succeeds.
AppendRuleEarly ==
    /\ command.doing = "add" /\ config.tool = "iptables"
    /\ LET last == command.step = CallCount(config)
           old == chains[Call.family][Call.chain]
       IN /\ chains' = IF Call.rule \in Range(old) THEN chains
                       ELSE [chains EXCEPT ![Call.family][Call.chain] = Append(@, Call.rule)]
          /\ command' = IF last THEN [doing |-> "none", step |-> 0] ELSE NextStep
          /\ rSet' = TRUE
    /\ UNCHANGED <<kind, life, faults, config, signalled, mark, packets, dialed>>

\* One call of iptables: a rule that is there already is not added again.
AppendRule ==
    /\ command.doing = "add" /\ config.tool = "iptables"
    /\ LET last == command.step = CallCount(config)
           old == chains[Call.family][Call.chain]
       IN \/ /\ chains' = IF Call.rule \in Range(old) THEN chains
                          ELSE [chains EXCEPT ![Call.family][Call.chain] = Append(@, Call.rule)]
             /\ command' = IF last THEN [doing |-> "none", step |-> 0] ELSE NextStep
             /\ rSet' = last
             /\ UNCHANGED <<life, faults>>
          \/ /\ faults.commands < MaxFailures
             /\ faults' = [faults EXCEPT !.commands = @ + 1]
             /\ command' = [doing |-> "none", step |-> 0]
             /\ life' = "cancelled"
             /\ UNCHANGED <<chains, rSet>>
    /\ UNCHANGED <<kind, config, signalled, mark, packets, dialed>>

\* A signal cancels the context, also while the rules are added.
QueueSignal ==
    /\ life \in {"open", "running"} /\ ~signalled
    /\ signalled' = TRUE
    /\ UNCHANGED <<kind, life, config, chains, command, rSet, mark, packets, faults, dialed>>

\* Once the rules are set Run returns on a signal, or on an error of the queue.
QueueReturn ==
    /\ life = "running" /\ command.doing = "none" /\ (signalled \/ faults.told > 0)
    /\ life' = "cancelled"
    /\ UNCHANGED <<kind, nfVars>>

\* Close starts by removing the rules, if they were all set.
BeginClose ==
    /\ life = "cancelled" /\ rSet /\ command.doing = "none"
    /\ command' = [doing |-> "remove", step |-> 1]
    /\ rSet' = FALSE
    /\ UNCHANGED <<kind, life, config, chains, signalled, mark, packets, faults, dialed>>

DeleteTable ==
    /\ command.doing = "remove" /\ config.tool = "nft"
    /\ command' = [doing |-> "done", step |-> 0]
    /\ \/ chains' = Empty /\ UNCHANGED faults
       \/ /\ faults.commands < MaxFailures
          /\ faults' = [faults EXCEPT !.commands = @ + 1]
          /\ UNCHANGED chains
    /\ UNCHANGED <<kind, life, config, rSet, signalled, mark, packets, dialed>>

\* Mutant: the rules are removed for IPv4 only.
DeleteRuleIPv4 ==
    /\ command.doing = "remove" /\ config.tool = "iptables"
    /\ LET last == command.step = CallCount(config)
       IN /\ chains' = [chains EXCEPT !["ipv4"][Call.chain] = RemoveFirst(@, Call.rule)]
          /\ command' = IF last THEN [doing |-> "done", step |-> 0] ELSE NextStep
    /\ UNCHANGED <<kind, life, faults, config, rSet, signalled, mark, packets, dialed>>

\* The first call that fails is the last.
DeleteRule ==
    /\ command.doing = "remove" /\ config.tool = "iptables"
    /\ LET last == command.step = CallCount(config)
       IN \/ /\ chains' = [chains EXCEPT ![Call.family][Call.chain] =
                                RemoveFirst(@, Call.rule)]
             /\ command' = IF last THEN [doing |-> "done", step |-> 0] ELSE NextStep
             /\ UNCHANGED faults
          \/ /\ faults.commands < MaxFailures
             /\ faults' = [faults EXCEPT !.commands = @ + 1]
             /\ command' = [doing |-> "done", step |-> 0]
             /\ UNCHANGED chains
    /\ UNCHANGED <<kind, life, config, rSet, signalled, mark, packets, dialed>>

Waiting == {k \in DOMAIN packets : packets[k].at \in {"queue", "user"}}

\* A queue nobody is bound to: the kernel drops what waits for a verdict.
Flushed ==
    [k \in DOMAIN packets |->
        IF k \in Waiting THEN [packets[k] EXCEPT !.at = "dropped"] ELSE packets[k]]

CloseQueue ==
    /\ life = "cancelled" /\ ~rSet /\ command.doing \in {"none", "done"}
    /\ life' = "closed" /\ packets' = Flushed
    /\ command' = [doing |-> "none", step |-> 0]
    /\ UNCHANGED <<kind, config, chains, rSet, signalled, mark, faults, dialed>>

-----------------------------------------------------------------------------
(* Packets *)

\* The connection's mark when rule k of a chain sees one of its packets: the
\* first rule marks what comes from a protected socket.
MarkAt(chain, k, c, dir) ==
    IF c \in Protected /\ dir = "OUTPUT" /\ \E j \in 1..k - 1 : chain[j] = "mark"
    THEN "accept" ELSE mark[c]

Decides(rule, m) ==
    \/ rule = "accept" /\ m = "accept"
    \/ rule \in {"reset", "drop"} /\ m = "drop"
    \/ rule = "queue" /\ Listening

\* Where a chain sends a packet; one no rule decides is accepted.
Verdict(chain, c, dir) ==
    LET deciding == {k \in DOMAIN chain : Decides(chain[k], MarkAt(chain, k, c, dir))}
        first == CHOOSE k \in deciding : \A j \in deciding : k <= j
    IN IF deciding = {} THEN "passed"
       ELSE CASE chain[first] = "accept" -> "passed"
              [] chain[first] \in {"reset", "drop"} -> "dropped"
              [] chain[first] = "queue" -> "queue"

Queued == {k \in DOMAIN packets : packets[k].at = "queue"}

\* A packet short of an IP header or without a conntrack entry has no
\* connection the program could tell.
Forms == {"whole", "short", "untracked"}

\* The program dials protected connections for what its rules look up and report
\* about packets: from the first callback on, whether or not the rules are set.
MayArrive(c, dir) ==
    /\ dir \in Range(Hooks(config))
    /\ c \in Protected /\ dialed[c] = "no" => dir = "OUTPUT" /\ faults.hook # "none"

PacketArrives(c, dir, form) ==
    LET chain == chains[FamilyOf[c]][dir]
        to == Verdict(chain, c, dir)
    IN /\ life \notin {"failed", "closed"} /\ Len(packets) < MaxArrivals
       /\ MayArrive(c, dir) /\ (c \in Protected => config.local /\ form = "whole")
       /\ dialed' = IF c \in Protected /\ dialed[c] = "no"
                    THEN [dialed EXCEPT ![c] = IF rSet THEN "covered" ELSE "exposed"] ELSE dialed
       /\ mark' = IF form = "whole"
                  THEN [mark EXCEPT ![c] = MarkAt(chain, Len(chain) + 1, c, dir)] ELSE mark
       /\ packets' = Append(packets,
                        [conn |-> c, form |-> form,
                         at |-> IF to = "queue" /\ Cardinality(Queued) >= QueueLength
                                THEN "dropped" ELSE to])
       /\ UNCHANGED <<kind, life, config, chains, command, rSet, signalled, faults>>

\* The callback of Register: packets that fail packetAttributeSanityCheck are
\* answered here, the others go to the engine.
Deliver ==
    /\ faults.hook = "on" /\ Queued # {}
    /\ LET k == CHOOSE k \in Queued : \A j \in Queued : k <= j
       IN packets' = [packets EXCEPT ![k].at =
                        CASE packets[k].form = "short" -> "dropped"
                          [] packets[k].form = "untracked" ->
                                IF config.local THEN "passed" ELSE "dropped"
                          [] packets[k].form = "whole" -> "user"]
    /\ UNCHANGED <<kind, life, config, chains, command, rSet, signalled, mark, faults, dialed>>

\* Mutant: the callbacks go on after an error.
HookFailsOn ==
    /\ faults.hook = "on" /\ faults.told < 2
    /\ faults' = [faults EXCEPT !.told = @ + 1]
    /\ UNCHANGED <<kind, life, config, chains, command, rSet, signalled, mark, packets, dialed>>

\* Any other error than a full socket buffer stops the callbacks.
HookFails ==
    /\ faults.hook = "on" /\ faults.told + faults.commands < MaxFailures
    /\ faults' = [faults EXCEPT !.told = @ + 1, !.hook = "gone"]
    /\ packets' = Flushed
    /\ UNCHANGED <<kind, life, config, chains, command, rSet, signalled, mark, dialed>>

\* So does the end of the context, whenever the library notices it.
HookStops ==
    /\ faults.hook = "on" /\ ContextDone
    /\ faults' = [faults EXCEPT !.hook = "gone"]
    /\ packets' = Flushed
    /\ UNCHANGED <<kind, life, config, chains, command, rSet, signalled, mark, dialed>>

\* A worker answers a packet; a verdict on the stream marks the connection.
SetVerdict(k, v) ==
    /\ life \in {"running", "cancelled"} /\ k \in DOMAIN packets /\ packets[k].at = "user"
    /\ packets' = [packets EXCEPT ![k].at = IF v \in {"Drop", "DropStream"} THEN "dropped"
                                            ELSE "passed"]
    /\ mark' = CASE v = "AcceptStream" -> [mark EXCEPT ![packets[k].conn] = "accept"]
                 [] v = "DropStream" -> [mark EXCEPT ![packets[k].conn] = "drop"]
                 [] OTHER -> mark
    /\ UNCHANGED <<kind, life, config, chains, command, rSet, signalled, faults, dialed>>

Manage ==
    \/ OpenQueue \/ RegisterQueue \/ AddTable \/ AppendRule \/ QueueReturn
    \/ BeginClose \/ DeleteTable \/ DeleteRule \/ CloseQueue

Answer == \E k \in DOMAIN packets : \E v \in Verdicts : SetVerdict(k, v)

NFNext ==
    \/ Manage \/ QueueSignal \/ HookFails \/ HookStops \/ Deliver \/ Answer
    \/ \E c \in Conns, dir \in ChainNames, form \in Forms : PacketArrives(c, dir, form)

-----------------------------------------------------------------------------
(* Properties *)

NFTypeOK ==
    /\ config \in [tool : {"nft", "iptables"}, local : BOOLEAN, rst : BOOLEAN]
    /\ chains \in [Families -> [ChainNames -> Seq(Rules)]]
    /\ command \in [doing : {"none", "add", "remove", "done"}, step : Nat]
    /\ rSet \in BOOLEAN /\ signalled \in BOOLEAN
    /\ mark \in [Conns -> {"none", "accept", "drop"}]
    /\ packets \in Seq([conn : Conns, form : Forms, at : {"queue", "user", "passed", "dropped"}])
    /\ faults \in [commands : Nat, told : Nat, hook : {"none", "on", "gone"}]
    /\ dialed \in [Protected -> {"no", "covered", "exposed"}]

\* While the rules are set the kernel goes by the verdicts given so far, in
\* every chain and both families: packets of an accepted stream pass, those of
\* a dropped one do not, neither reaches the program again, and what has no
\* verdict yet never gets past the program while its callbacks run; when they
\* have ended it passes, as the bypass of the queue's rule says.
KernelAgrees ==
    [][Len(packets') > Len(packets) /\ rSet =>
          LET p == packets'[Len(packets')]
          IN p.form = "whole" =>
             p.at \in CASE mark'[p.conn] = "accept" -> {"passed"}
                        [] mark'[p.conn] = "drop" -> {"dropped"}
                        [] mark'[p.conn] = "none" ->
                              IF Listening THEN {"queue", "dropped"} ELSE {"passed"}]_nfVars

\* Connections the program dials while the rules are set never come back to it
\* (io/interface.go, ProtectedDialContext) as long as they are: neither what
\* they send nor what they receive is given to the callback.  One dialed for the
\* first packets handled, before the last rule was added, may; that is why the
\* claim is about the connections whose first packet the rules have seen.  And
\* nothing is given to the callback that the engine cannot assign to a connection.
ProtectedBypass ==
    \A k \in DOMAIN packets : packets[k].at = "user" =>
        /\ packets[k].form = "whole"
        /\ packets[k].conn \in Protected /\ rSet => dialed[packets[k].conn] # "covered"

\* No rule outlives the program, not even one that an earlier, killed run left,
\* unless a command failed.
NoRulesLeft ==
    life = "closed" /\ kind = "nfqueue" /\ faults.commands = 0 /\ Generates(config) => chains = Empty

\* Every packet the kernel hands over gets an answer: a verdict, or the drop
\* of everything that waits when the queue is closed.
Answered ==
    \A k \in 1..MaxArrivals : k \in Waiting ~> k \notin Waiting

=============================================================================
