------------------------------ MODULE Identity ------------------------------
(***************************************************************************)
(* Who a packet belongs to (cmd/identity.go): static entries, and the      *)
(* virtual machines of libvirt, which a goroutine lists and reads one by   *)
(* one while they change, replacing the whole inventory or, when a command *)
(* fails, nothing of it.                                                   *)
(***************************************************************************)
EXTENDS Integers, Sequences, FiniteSets, SequencesExt

CONSTANTS
    VMs,            \* names of libvirt domains
    MACs, IPs,      \* addresses
    Packets,        \* what packets may look like
    StaticEntries,  \* entries of the configuration and the inventory file
    Configs,        \* configurations of the program
    MaxChanges,     \* bound: changes of libvirt's domains
    MaxFailures     \* bound: virsh commands that fail by themselves

\* An entry: the identity it gives, its addresses, the VLANs it is limited to.
Entry == [id : STRING, macs : SUBSET MACs, ips : SUBSET IPs, vlans : SUBSET Nat]

\* A packet: the addresses of both its ends, and its VLAN.
Packet == [macs : SUBSET MACs, ips : SUBSET IPs, vlan : Nat]

ASSUME IdentityAssumption ==
    /\ VMs \subseteq STRING /\ IsFiniteSet(VMs) /\ StaticEntries \in Seq(Entry) /\ Packets \subseteq Packet
    /\ {MaxChanges, MaxFailures} \subseteq Nat

VARIABLES
    config,      \* the configuration of this program
    main,        \* where runMain is
    domains,     \* libvirt: the addresses of each defined domain
    changes,     \* how often they changed
    entries,     \* the inventory that lookups read
    refresh,     \* the goroutine: place, domains still to read, what it read
    trueSince,   \* history: the change count when the last stored refresh began
    failures

identityVars == <<domains, changes, entries, refresh, trueSince, failures>>

\* The program is gone: it exited, or gave up at start-up.
Ended == {"exited", "fatal"}

Quiet == [at |-> "idle", names |-> <<>>, read |-> <<>>, began |-> 0]

\* Without libvirt there is no goroutine.
IdentityInit ==
    /\ domains \in IF config.libvirt THEN [VMs -> {{m} : m \in MACs}] \cup {<<>>} ELSE {<<>>}
    /\ changes = 0
    /\ entries = StaticEntries
    /\ refresh = [Quiet EXCEPT !.at = IF config.libvirt THEN "list" ELSE "none"]
    /\ trueSince = -1
    /\ failures = 0

Names == SetToSeq(DOMAIN domains)

\* A domain is defined, undefined, or given other interfaces, perhaps none.
Change ==
    /\ config.libvirt /\ main \notin Ended /\ changes < MaxChanges
    /\ changes' = changes + 1
    /\ \/ \E vm \in VMs, macs \in SUBSET MACs :
             domains' = [n \in DOMAIN domains \cup {vm} |-> IF n = vm THEN macs ELSE domains[n]]
       \/ \E vm \in DOMAIN domains : domains' = [n \in DOMAIN domains \ {vm} |-> domains[n]]
    /\ UNCHANGED <<config, main, entries, refresh, trueSince, failures>>

\* The first refresh starts at once, later ones with the ticker.
Tick ==
    /\ refresh.at = "idle" /\ main \notin Ended
    /\ refresh' = [refresh EXCEPT !.at = "list"]
    /\ UNCHANGED <<config, main, domains, changes, entries, trueSince, failures>>

\* A command fails by itself, or because the program's end cancelled it; with
\* it the refresh ends.
CommandFails ==
    /\ IF main = "closeIdentity" THEN UNCHANGED failures
       ELSE failures < MaxFailures /\ failures' = failures + 1
    /\ refresh' = Quiet

\* virsh list: the names of that moment.
ListDomains ==
    /\ refresh.at = "list" /\ main \notin Ended
    /\ \/ /\ refresh' = [at |-> "dump", names |-> Names, read |-> <<>>, began |-> changes]
          /\ UNCHANGED failures
       \/ CommandFails
    /\ UNCHANGED <<config, main, domains, changes, entries, trueSince>>

\* parseLibvirtDomainXML: a domain without an interface gives no entry.
DomainEntry(vm) ==
    IF domains[vm] = {} THEN <<>>
    ELSE <<[id |-> vm, macs |-> domains[vm], ips |-> {}, vlans |-> {}]>>

\* Mutant: a domain that cannot be read is left out of the new inventory.
DumpDomainOrSkip ==
    /\ refresh.at = "dump" /\ refresh.names # <<>> /\ main \notin Ended
    /\ LET vm == Head(refresh.names)
       IN refresh' = [refresh EXCEPT !.names = Tail(@),
                        !.read = IF vm \notin DOMAIN domains THEN @
                                 ELSE @ \o DomainEntry(vm)]
    /\ failures' \in failures..MaxFailures
    /\ UNCHANGED <<config, main, domains, changes, entries, trueSince>>

\* Mutant: after a domain that cannot be read the goroutine is gone.
DumpDomainStopping ==
    /\ refresh.at = "dump" /\ refresh.names # <<>> /\ main \notin Ended
    /\ LET vm == Head(refresh.names)
       IN refresh' = IF vm \in DOMAIN domains
                     THEN [refresh EXCEPT !.names = Tail(@), !.read = @ \o DomainEntry(vm)]
                     ELSE [Quiet EXCEPT !.at = "none"]
    /\ UNCHANGED <<config, main, domains, changes, entries, trueSince, failures>>

\* virsh dumpxml: the domain as it is now. A domain without an interface gives
\* no entry; one that is gone by now, or a failing command, ends the refresh.
DumpDomain ==
    /\ refresh.at = "dump" /\ refresh.names # <<>> /\ main \notin Ended
    /\ LET vm == Head(refresh.names)
       IN \/ /\ vm \in DOMAIN domains
             /\ refresh' = [refresh EXCEPT !.names = Tail(@),
                              !.read = @ \o DomainEntry(vm)]
             /\ UNCHANGED failures
          \/ /\ vm \notin DOMAIN domains
             /\ refresh' = Quiet /\ UNCHANGED failures
          \/ CommandFails
    /\ UNCHANGED <<config, main, domains, changes, entries, trueSince>>

\* Mutant: the new domains are added to the old inventory.
StoreAdding ==
    /\ refresh.at = "dump" /\ refresh.names = <<>> /\ main \notin Ended
    /\ entries' = entries \o refresh.read
    /\ refresh' = Quiet /\ trueSince' = refresh.began
    /\ UNCHANGED <<config, main, domains, changes, failures>>

\* The inventory is replaced as a whole.
Store ==
    /\ refresh.at = "dump" /\ refresh.names = <<>> /\ main \notin Ended
    /\ entries' = StaticEntries \o refresh.read
    /\ refresh' = Quiet /\ trueSince' = refresh.began
    /\ UNCHANGED <<config, main, domains, changes, failures>>

\* Between two refreshes the goroutine sees that it was cancelled.
RefreshStops ==
    /\ refresh.at = "idle" /\ main = "closeIdentity"
    /\ refresh' = [refresh EXCEPT !.at = "none"]
    /\ UNCHANGED <<config, main, domains, changes, entries, trueSince, failures>>

RefreshStep == Tick \/ ListDomains \/ DumpDomain \/ Store

\* An entry's constraints come first, then its addresses.
EntryMatches(e, packet) ==
    /\ e.vlans # {} => packet.vlan \in e.vlans
    /\ packet.macs \cap e.macs # {} \/ packet.ips \cap e.ips # {}

Nobody == [id |-> "", macs |-> {}, ips |-> {}, vlans |-> {}]

\* Mutant: the last entry that matches.
EnrichLast(list, packet) ==
    LET hits == {k \in DOMAIN list : EntryMatches(list[k], packet)}
    IN IF hits = {} THEN Nobody ELSE list[CHOOSE k \in hits : \A j \in hits : k >= j]

\* Enrich: the first entry that matches, or nobody.
Enrich(list, packet) ==
    LET hits == {k \in DOMAIN list : EntryMatches(list[k], packet)}
    IN IF hits = {} THEN Nobody ELSE list[CHOOSE k \in hits : \A j \in hits : k <= j]

-----------------------------------------------------------------------------
(* Properties *)

IdentityTypeOK ==
    /\ config \in Configs
    /\ DOMAIN domains \subseteq VMs /\ \A vm \in DOMAIN domains : domains[vm] \subseteq MACs
    /\ changes \in Nat /\ failures \in Nat
    /\ entries \in Seq(Entry)
    /\ refresh \in [at : {"none", "idle", "list", "dump"}, names : Seq(VMs), read : Seq(Entry), began : Nat]
    /\ trueSince \in -1..MaxChanges

\* What an up to date inventory may answer for a packet: the first static entry
\* that fits it, else a domain with one of its addresses, else nobody.
Truth(packet) ==
    LET static == {k \in DOMAIN StaticEntries : EntryMatches(StaticEntries[k], packet)}
        owners == {vm \in DOMAIN domains : packet.macs \cap domains[vm] # {}}
    IN IF static # {} THEN {StaticEntries[CHOOSE k \in static : \A j \in static : k <= j].id}
       ELSE IF owners = {} THEN {""} ELSE owners

\* A static entry is never hidden by libvirt: lookups see it first
\* (mergeIdentityEntries).
StaticFirst ==
    \A k \in DOMAIN StaticEntries : k \in DOMAIN entries /\ entries[k] = StaticEntries[k]

\* If no domain has changed since the refresh in use began, every lookup is
\* right: however the refreshes before it failed or were overtaken by changes,
\* nothing of them is left, and no domain is missing (Enrich, Load).
LookupsExact ==
    /\ StaticFirst
    /\ trueSince = changes => \A packet \in Packets : Enrich(entries, packet).id \in Truth(packet)

\* Once the domains stay as they are, the inventory follows while the program
\* runs: failing commands and domains that disappear only delay it
\* (refreshLibvirtInventory and its ticker).
InventoryFollows ==
    config.libvirt => <>[](trueSince = changes \/ main # "run")

=============================================================================
