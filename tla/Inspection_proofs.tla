-------------------------- MODULE Inspection_proofs --------------------------
(***************************************************************************)
(* Proofs about Inspection and its Identity, for any inventory, domains,   *)
(* changes, rules, allowlists, streams and bounds.                         *)
(***************************************************************************)
EXTENDS Inspection, FiniteSetTheorems, FunctionTheorems, SequenceTheorems,
        WellFoundedInduction, TLAPS

\* A set of numbers has a smallest one.
LEMMA Smallest ==
    ASSUME NEW I \in SUBSET Nat, I # {}
    PROVE  \E x \in I : \A y \in I : x <= y
  <1>1. \E x \in I : \A y \in I : ~ (<<y, x>> \in OpToRel(<, Nat))
    BY WFMin, NatLessThanWellFounded
  <1>2. ASSUME NEW x \in Nat, NEW y \in Nat, y < x
        PROVE  <<y, x>> \in OpToRel(<, Nat)
    <2>1. <<y, x>> \in Nat \X Nat /\ <<y, x>>[1] < <<y, x>>[2]
      BY <1>2
    <2> QED
      BY <2>1, Zenon DEF OpToRel
  <1>3. \A x, y \in Nat : x <= y \/ y < x
    OBVIOUS
  <1> QED
    BY <1>1, <1>2, <1>3

\* The names of a finite set, each of them once.
LEMMA ListsAll ==
    ASSUME NEW S, IsFiniteSet(S)
    PROVE  SetToSeq(S) \in Seq(S) /\ \A x \in S : \E k \in DOMAIN SetToSeq(S) : SetToSeq(S)[k] = x
  <1> DEFINE n == Cardinality(S)
             f == SetToSeq(S)
  <1>1. n \in Nat /\ ExistsBijection(1..n, S)
    BY FS_CardinalityType
  <1>2. \E g \in [1..n -> S] : IsInjective(g)
    <2>1. PICK g \in Bijection(1..n, S) : TRUE
      BY <1>1, Fun_ExistsBij
    <2> QED
      BY <2>1 DEF Bijection, Injection, IsInjective
  <1>3. f \in [1..n -> S] /\ IsInjective(f)
    BY <1>2 DEF SetToSeq
  <1> HIDE DEF f
  <1>4. f \in Seq(S)
    BY <1>1, <1>3, SeqDef
  <1>5. f \in Injection(1..n, S)
    BY <1>3 DEF Injection, IsInjective
  <1>6. Cardinality(1..n) = n
    BY <1>1, FS_Interval
  <1>7. f \in Surjection(1..n, S)
    BY <1>5, <1>6, FS_Injection
  <1> QED
    BY <1>3, <1>4, <1>7 DEF Surjection, f

-----------------------------------------------------------------------------
(***************************************************************************)
(* The inventory.  What a refresh has read describes the domains while     *)
(* they have not changed since it began, but for those still to be read.   *)
(***************************************************************************)
Describes(doms, list, left) ==
    /\ \A k \in DOMAIN list :
          /\ list[k].id \in DOMAIN doms /\ list[k].macs = doms[list[k].id]
          /\ list[k].ips = {} /\ list[k].vlans = {}
    /\ \A vm \in DOMAIN doms :
          doms[vm] = {} \/ vm \in left \/ \E k \in DOMAIN list : list[k].id = vm

Elements(list) == {list[k] : k \in DOMAIN list}

RefreshType ==
    refresh \in [at : {"none", "idle", "list", "dump"}, names : Seq(VMs), read : Seq(Entry), began : Nat]

DomainsType ==
    DOMAIN domains \subseteq VMs /\ \A vm \in DOMAIN domains : domains[vm] \subseteq MACs

Reading ==
    refresh.at = "dump" /\ refresh.began = changes => Describes(domains, refresh.read, Elements(refresh.names))

InUse ==
    \E rest \in Seq(Entry) :
        /\ entries = StaticEntries \o rest
        /\ trueSince = changes => Describes(domains, rest, {})

IdentityInv ==
    /\ config \in Configs /\ RefreshType /\ DomainsType
    /\ changes \in Nat /\ trueSince \in Int /\ trueSince <= changes /\ refresh.began <= changes
    /\ Reading /\ InUse

LEMMA IdentityInitInv ==
    ASSUME Init
    PROVE  IdentityInv
  <1>1. config \in Configs /\ changes = 0 /\ trueSince = -1 /\ entries = StaticEntries
    BY DEF Init, IdentityInit
  <1>2. refresh = [at |-> IF config.libvirt THEN "list" ELSE "none", names |-> <<>>,
                   read |-> <<>>, began |-> 0]
    BY DEF Init, IdentityInit, Quiet
  <1>3. RefreshType /\ refresh.at # "dump" /\ refresh.began = 0
    <2>1. <<>> \in Seq(VMs) /\ <<>> \in Seq(Entry)
      OBVIOUS
    <2> QED
      BY <1>2, <2>1 DEF RefreshType
  <1>4. DomainsType
    BY DEF Init, IdentityInit, DomainsType
  <1>5. InUse
    <2>1. <<>> \in Seq(Entry) /\ StaticEntries = StaticEntries \o <<>>
      BY IdentityAssumption, ConcatEmptySeq
    <2>2. ~ (trueSince = changes)
      BY <1>1
    <2>3. entries = StaticEntries \o <<>>
      BY <1>1, <2>1
    <2> QED
      BY <2>1, <2>2, <2>3 DEF InUse
  <1> QED
    BY <1>1, <1>3, <1>4, <1>5 DEF IdentityInv, Reading

LEMMA DomainEntryType ==
    ASSUME DomainsType, NEW vm \in DOMAIN domains
    PROVE  DomainEntry(vm) \in Seq(Entry)
  <1>1. [id |-> vm, macs |-> domains[vm], ips |-> {}, vlans |-> {}] \in Entry
    BY IdentityAssumption DEF DomainsType, Entry
  <1> QED
    BY <1>1 DEF DomainEntry

\* Reading one more domain.
LEMMA DumpStep ==
    ASSUME IdentityInv, refresh.at = "dump", refresh.names # <<>>,
           NEW vm \in DOMAIN domains, vm = Head(refresh.names),
           refresh' = [refresh EXCEPT !.names = Tail(@), !.read = @ \o DomainEntry(vm)],
           UNCHANGED <<domains, changes>>
    PROVE  RefreshType' /\ refresh'.began = refresh.began /\ Reading'
  <1> DEFINE more == DomainEntry(vm)
             old == refresh.read
             names == refresh.names
  <1>1. refresh.read \in Seq(Entry) /\ refresh.names \in Seq(VMs) /\ refresh.began \in Nat
    BY DEF IdentityInv, RefreshType
  <1>2. more \in Seq(Entry)
    BY DomainEntryType DEF IdentityInv
  <1>3. old \o more \in Seq(Entry) /\ Tail(names) \in Seq(VMs)
    BY <1>1, <1>2, ConcatProperties
  <1>4. /\ refresh'.at = "dump" /\ refresh'.began = refresh.began
        /\ refresh'.names = Tail(names) /\ refresh'.read = old \o more
    BY DEF IdentityInv, RefreshType
  <1>5. RefreshType'
    <2>1. [refresh EXCEPT !.names = Tail(@)] \in
             [at : {"none", "idle", "list", "dump"}, names : Seq(VMs), read : Seq(Entry), began : Nat]
      BY <1>3 DEF IdentityInv, RefreshType
    <2> QED
      BY <1>3, <2>1 DEF RefreshType
  <1>6. Elements(names) \subseteq {vm} \cup Elements(Tail(names))
    <2> SUFFICES ASSUME NEW k \in DOMAIN names
                 PROVE  names[k] \in {vm} \cup Elements(Tail(names))
      BY DEF Elements
    <2>1. k \in 1..Len(names) /\ DOMAIN Tail(names) = 1..Len(names) - 1
          /\ \A j \in 1..Len(names) - 1 : Tail(names)[j] = names[j + 1]
      BY <1>1
    <2>2. CASE k = 1
      BY <1>1, <2>2
    <2>3. CASE k # 1
      <3>1. k - 1 \in DOMAIN Tail(names) /\ Tail(names)[k - 1] = names[k]
        BY <1>1, <2>1, <2>3
      <3> QED
        BY <3>1 DEF Elements
    <2> QED
      BY <2>2, <2>3
  <1> HIDE DEF more
  <1>7. ASSUME refresh.began = changes
        PROVE  Describes(domains, old \o more, Elements(Tail(names)))
    <2>1. Describes(domains, old, Elements(names))
      BY <1>7 DEF IdentityInv, Reading
    <2>2. /\ DOMAIN (old \o more) = 1..Len(old) + Len(more)
          /\ Len(old) \in Nat /\ Len(more) \in Nat
          /\ DOMAIN old = 1..Len(old) /\ DOMAIN more = 1..Len(more)
          /\ \A k \in 1..Len(old) : (old \o more)[k] = old[k]
          /\ \A k \in 1..Len(more) : (old \o more)[Len(old) + k] = more[k]
      BY <1>1, <1>2, ConcatProperties
    <2>3. \A k \in DOMAIN more : more[k].id = vm /\ more[k].macs = domains[vm]
                                 /\ more[k].ips = {} /\ more[k].vlans = {}
      BY DEF more, DomainEntry
    <2>4. domains[vm] = {} \/ \E k \in DOMAIN more : more[k].id = vm
      BY DEF more, DomainEntry
    <2>5. ASSUME NEW k \in DOMAIN (old \o more)
          PROVE  \/ k \in DOMAIN old /\ (old \o more)[k] = old[k]
                 \/ k - Len(old) \in DOMAIN more /\ (old \o more)[k] = more[k - Len(old)]
      <3>1. CASE k <= Len(old)
        BY <2>2, <3>1
      <3>2. CASE k > Len(old)
        <4>1. k - Len(old) \in 1..Len(more) /\ Len(old) + (k - Len(old)) = k
          BY <2>2, <3>2
        <4> QED
          BY <2>2, <4>1
      <3> QED
        BY <2>2, <3>1, <3>2
    <2>6. ASSUME NEW k \in DOMAIN (old \o more)
          PROVE  LET e == (old \o more)[k]
                 IN e.id \in DOMAIN domains /\ e.macs = domains[e.id] /\ e.ips = {} /\ e.vlans = {}
      BY <2>1, <2>3, <2>5 DEF Describes
    <2>7. ASSUME NEW x \in DOMAIN domains
          PROVE  \/ domains[x] = {} \/ x \in Elements(Tail(names))
                 \/ \E k \in DOMAIN (old \o more) : (old \o more)[k].id = x
      <3>1. CASE \E k \in DOMAIN old : old[k].id = x
        <4>1. PICK k \in DOMAIN old : old[k].id = x
          BY <3>1
        <4>2. k \in DOMAIN (old \o more) /\ (old \o more)[k] = old[k]
          BY <2>2
        <4> QED
          BY <4>1, <4>2
      <3>2. CASE x = vm
        <4>1. CASE \E k \in DOMAIN more : more[k].id = vm
          <5>1. PICK k \in DOMAIN more : more[k].id = vm
            BY <4>1
          <5>2. Len(old) + k \in DOMAIN (old \o more) /\ (old \o more)[Len(old) + k] = more[k]
            BY <2>2
          <5> QED
            BY <3>2, <5>1, <5>2
        <4> QED
          BY <2>4, <3>2, <4>1
      <3>3. CASE domains[x] = {} \/ x \in Elements(names)
        BY <1>6, <3>2, <3>3
      <3> QED
        BY <2>1, <3>1, <3>3 DEF Describes
    <2> QED
      BY <2>6, <2>7 DEF Describes
  <1>8. Reading'
    <2> SUFFICES ASSUME refresh'.began = changes'
                 PROVE  Describes(domains', refresh'.read, Elements(refresh'.names))
      BY DEF Reading
    <2>1. Describes(domains, old \o more, Elements(Tail(names)))
      BY <1>4, <1>7
    <2>2. domains' = domains
      OBVIOUS
    <2> QED
      BY <1>4, <2>1, <2>2
  <1> QED
    BY <1>4, <1>5, <1>8

\* The end of a refresh.
LEMMA QuietStep ==
    ASSUME IdentityInv, refresh' = Quiet, UNCHANGED changes
    PROVE  RefreshType' /\ refresh'.began <= changes' /\ Reading'
  <1>1. <<>> \in Seq(VMs) /\ <<>> \in Seq(Entry)
    OBVIOUS
  <1>2. refresh'.at = "idle" /\ refresh'.began = 0 /\ refresh'.at # "dump"
    BY DEF Quiet
  <1>3. RefreshType'
    BY <1>1 DEF Quiet, RefreshType
  <1> QED
    BY <1>2, <1>3 DEF IdentityInv, Reading

\* What the inventory in use says stays true until the domains change.
LEMMA InUseStays ==
    ASSUME IdentityInv, UNCHANGED <<domains, changes, entries, trueSince>>
    PROVE  InUse'
  BY DEF IdentityInv, InUse

LEMMA ChangeStep ==
    ASSUME IdentityInv, Change
    PROVE  IdentityInv'
  <1>1. UNCHANGED <<config, main, entries, refresh, trueSince>> /\ changes' = changes + 1
    BY DEF Change
  <1>2. changes' \in Nat /\ trueSince' < changes' /\ refresh'.began < changes'
    BY <1>1 DEF IdentityInv, RefreshType
  <1>3. DomainsType'
    <2>1. CASE \E vm \in VMs, macs \in SUBSET MACs :
                  domains' = [n \in DOMAIN domains \cup {vm} |-> IF n = vm THEN macs ELSE domains[n]]
      BY <2>1 DEF IdentityInv, DomainsType
    <2>2. CASE \E vm \in DOMAIN domains : domains' = [n \in DOMAIN domains \ {vm} |-> domains[n]]
      BY <2>2 DEF IdentityInv, DomainsType
    <2> QED
      BY <2>1, <2>2 DEF Change
  <1>4. RefreshType'
    BY <1>1 DEF IdentityInv, RefreshType
  <1>5. Reading'
    BY <1>1, <1>2 DEF IdentityInv, RefreshType, Reading
  <1>6. InUse'
    <2>1. PICK rest \in Seq(Entry) : entries = StaticEntries \o rest
      BY DEF IdentityInv, InUse
    <2>2. ~ (trueSince' = changes')
      BY <1>1, <1>2 DEF IdentityInv
    <2> QED
      BY <1>1, <2>1, <2>2 DEF InUse
  <1> QED
    BY <1>1, <1>2, <1>3, <1>4, <1>5, <1>6 DEF IdentityInv, RefreshType

LEMMA ListStep ==
    ASSUME IdentityInv, UNCHANGED <<domains, changes>>,
           refresh' = [at |-> "dump", names |-> Names, read |-> <<>>, began |-> changes]
    PROVE  RefreshType' /\ refresh'.began <= changes' /\ Reading'
  <1>1. IsFiniteSet(DOMAIN domains) /\ DOMAIN domains \subseteq VMs
    BY IdentityAssumption, FS_Subset DEF IdentityInv, DomainsType
  <1>2. /\ Names \in Seq(DOMAIN domains)
        /\ \A vm \in DOMAIN domains : \E k \in DOMAIN Names : Names[k] = vm
    BY <1>1, ListsAll DEF Names
  <1> DEFINE names == Names
  <1>3. names \in Seq(VMs) /\ \A vm \in DOMAIN domains : vm \in Elements(names)
    BY <1>1, <1>2 DEF Elements
  <1> HIDE DEF names
  <1>4. <<>> \in Seq(Entry) /\ DOMAIN <<>> = {}
    OBVIOUS
  <1>5. /\ refresh'.at = "dump" /\ refresh'.names = names /\ refresh'.read = <<>>
        /\ refresh'.began = changes
    BY DEF names
  <1>6. RefreshType'
    <2>1. refresh' = [at |-> "dump", names |-> names, read |-> <<>>, began |-> changes]
      BY DEF names
    <2> QED
      BY <1>3, <1>4, <2>1 DEF IdentityInv, RefreshType
  <1>7. Describes(domains, <<>>, Elements(names))
    BY <1>3, <1>4 DEF Describes
  <1>8. Reading'
    BY <1>5, <1>7 DEF Reading
  <1> QED
    BY <1>5, <1>6, <1>8 DEF IdentityInv

LEMMA StoreStep ==
    ASSUME IdentityInv, Store
    PROVE  IdentityInv'
  <1>1. /\ UNCHANGED <<config, main, domains, changes>> /\ refresh' = Quiet
        /\ trueSince' = refresh.began /\ entries' = StaticEntries \o refresh.read
        /\ refresh.at = "dump" /\ refresh.names = <<>>
    BY DEF Store
  <1>2. RefreshType' /\ refresh'.began <= changes' /\ Reading'
    BY <1>1, QuietStep
  <1>3. refresh.read \in Seq(Entry) /\ refresh.began \in Nat
    BY DEF IdentityInv, RefreshType
  <1>4. InUse'
    <2>1. Elements(refresh.names) = {}
      BY <1>1 DEF Elements
    <2>2. refresh.began = changes => Describes(domains, refresh.read, {})
      BY <1>1, <2>1 DEF IdentityInv, Reading
    <2> QED
      BY <1>1, <1>3, <2>2 DEF InUse
  <1>5. trueSince' \in Int /\ trueSince' <= changes'
    BY <1>1, <1>3 DEF IdentityInv
  <1>6. DomainsType'
    BY <1>1 DEF IdentityInv, DomainsType
  <1> QED
    BY <1>1, <1>2, <1>4, <1>5, <1>6 DEF IdentityInv

\* A step that changes the goroutine only.
LEMMA RefreshOnly ==
    ASSUME IdentityInv, UNCHANGED <<config, domains, changes, entries, trueSince>>,
           RefreshType' /\ refresh'.began <= changes' /\ Reading'
    PROVE  IdentityInv'
  <1>1. InUse'
    BY InUseStays
  <1>2. DomainsType'
    BY DEF IdentityInv, DomainsType
  <1> QED
    BY <1>1, <1>2 DEF IdentityInv

\* A step to another place of the goroutine.
LEMMA PlaceStep ==
    ASSUME IdentityInv, NEW place \in {"none", "idle", "list"},
           refresh' = [refresh EXCEPT !.at = place],
           UNCHANGED changes
    PROVE  RefreshType' /\ refresh'.began <= changes' /\ Reading'
  <1>1. refresh'.at = place /\ refresh'.began = refresh.began
    BY DEF IdentityInv, RefreshType
  <1>2. RefreshType'
    BY DEF IdentityInv, RefreshType
  <1> QED
    BY <1>1, <1>2 DEF IdentityInv, Reading

LEMMA IdentityStep ==
    ASSUME IdentityInv, [Next]_vars
    PROVE  IdentityInv'
  <1>1. CASE UNCHANGED <<config, identityVars>>
    <2>1. UNCHANGED <<config, domains, changes, entries, refresh, trueSince>>
      BY <1>1 DEF identityVars
    <2>2. RefreshType' /\ refresh'.began <= changes' /\ Reading'
      BY <2>1 DEF IdentityInv, RefreshType, Reading
    <2> QED
      BY <2>1, <2>2, RefreshOnly
  <1>2. CASE Change
    BY <1>2, ChangeStep
  <1>3. CASE Tick
    <2>1. UNCHANGED <<config, domains, changes, entries, trueSince>>
          /\ refresh' = [refresh EXCEPT !.at = "list"]
      BY <1>3 DEF Tick
    <2> QED
      BY <2>1, PlaceStep, RefreshOnly
  <1>4. CASE ListDomains
    <2>1. UNCHANGED <<config, domains, changes, entries, trueSince>>
      BY <1>4 DEF ListDomains
    <2>2. \/ refresh' = [at |-> "dump", names |-> Names, read |-> <<>>, began |-> changes]
          \/ refresh' = Quiet
      BY <1>4 DEF ListDomains, CommandFails
    <2> QED
      BY <2>1, <2>2, ListStep, QuietStep, RefreshOnly
  <1>5. CASE DumpDomain
    <2>1. UNCHANGED <<config, domains, changes, entries, trueSince>>
          /\ refresh.at = "dump" /\ refresh.names # <<>>
      BY <1>5 DEF DumpDomain
    <2>2. CASE refresh' = Quiet
      BY <2>1, <2>2, QuietStep, RefreshOnly
    <2>3. CASE \E vm \in DOMAIN domains :
                  /\ vm = Head(refresh.names)
                  /\ refresh' = [refresh EXCEPT !.names = Tail(@), !.read = @ \o DomainEntry(vm)]
      <3>1. PICK vm \in DOMAIN domains :
                  /\ vm = Head(refresh.names)
                  /\ refresh' = [refresh EXCEPT !.names = Tail(@), !.read = @ \o DomainEntry(vm)]
        BY <2>3
      <3>2. RefreshType' /\ refresh'.began = refresh.began /\ Reading'
        BY <2>1, <3>1, DumpStep
      <3>3. refresh'.began <= changes'
        BY <2>1, <3>2 DEF IdentityInv
      <3> QED
        BY <2>1, <3>2, <3>3, RefreshOnly
    <2> QED
      BY <1>5, <2>2, <2>3 DEF DumpDomain, CommandFails
  <1>6. CASE Store
    BY <1>6, StoreStep
  <1>7. CASE RefreshStops
    <2>1. UNCHANGED <<config, domains, changes, entries, trueSince>>
          /\ refresh' = [refresh EXCEPT !.at = "none"]
      BY <1>7 DEF RefreshStops
    <2> QED
      BY <2>1, PlaceStep, RefreshOnly
  <1>8. \/ UNCHANGED <<config, identityVars>> \/ Change \/ Tick \/ ListDomains \/ DumpDomain
        \/ Store \/ RefreshStops
    <2>1. CASE Compile \/ Run \/ Shutdown
      BY <2>1 DEF Compile, Run, Shutdown
    <2>2. CASE \E s \in Streams : Worker(s)
      BY <2>2 DEF Worker, NewStream, Learn, Evaluate, Return, Tell, AddRisk, Unaffected
    <2>3. CASE \E k \in Sinks : Goroutine(k)
      BY <2>3 DEF Goroutine, Take, Finish, Stop, Unaffected
    <2>4. CASE Inventory
      BY <2>4 DEF Inventory, RefreshStep
    <2>5. CASE UNCHANGED vars
      BY <2>5 DEF vars
    <2> QED
      BY <2>1, <2>2, <2>3, <2>4, <2>5 DEF Next
  <1> QED
    BY <1>1, <1>2, <1>3, <1>4, <1>5, <1>6, <1>7, <1>8

\* What a lookup finds.
Hits(list, packet) == {k \in DOMAIN list : EntryMatches(list[k], packet)}

LEMMA FirstHit ==
    ASSUME NEW list \in Seq(Entry), NEW packet
    PROVE  /\ Hits(list, packet) = {} => Enrich(list, packet) = Nobody
           /\ Hits(list, packet) # {} =>
                 \E k \in Hits(list, packet) :
                    /\ \A j \in Hits(list, packet) : k <= j
                    /\ Enrich(list, packet) = list[k]
  <1>1. Hits(list, packet) \in SUBSET Nat
    BY DEF Hits
  <1>2. CASE Hits(list, packet) = {}
    BY <1>2 DEF Hits, Enrich
  <1>3. CASE Hits(list, packet) # {}
    <2> DEFINE first == CHOOSE k \in Hits(list, packet) : \A j \in Hits(list, packet) : k <= j
    <2>1. \E k \in Hits(list, packet) : \A j \in Hits(list, packet) : k <= j
      BY <1>1, <1>3, Smallest
    <2>2. first \in Hits(list, packet) /\ \A j \in Hits(list, packet) : first <= j
      BY <2>1
    <2>3. Enrich(list, packet) = list[first]
      BY <1>3 DEF Hits, Enrich
    <2> QED
      BY <1>3, <2>2, <2>3
  <1> QED
    BY <1>2, <1>3

\* The static entries come first, and what follows them is a list.
LEMMA EntriesSplit ==
    ASSUME IdentityInv, NEW rest \in Seq(Entry), entries = StaticEntries \o rest
    PROVE  /\ entries \in Seq(Entry) /\ StaticEntries \in Seq(Entry) /\ Len(StaticEntries) \in Nat
           /\ \A k \in DOMAIN StaticEntries : k \in DOMAIN entries /\ entries[k] = StaticEntries[k]
           /\ \A k \in DOMAIN rest : /\ Len(StaticEntries) + k \in DOMAIN entries
                                     /\ entries[Len(StaticEntries) + k] = rest[k]
           /\ \A k \in DOMAIN entries : /\ k \in Nat
                                        /\ k \notin DOMAIN StaticEntries =>
                                             k - Len(StaticEntries) \in DOMAIN rest
           /\ \A j, k \in Nat : j <= k /\ k \in DOMAIN StaticEntries /\ j \in DOMAIN entries =>
                                   j \in DOMAIN StaticEntries
  <1>1. StaticEntries \in Seq(Entry)
    BY IdentityAssumption
  <1> QED
    BY <1>1, ConcatProperties

\* Where a static entry fits, the lookup gives the first that does.
LEMMA StaticFound ==
    ASSUME IdentityInv, NEW packet, Hits(StaticEntries, packet) # {}
    PROVE  Enrich(entries, packet) = Enrich(StaticEntries, packet)
  <1> DEFINE static == Hits(StaticEntries, packet)
  <1>1. PICK rest \in Seq(Entry) : entries = StaticEntries \o rest
    BY DEF IdentityInv, InUse
  <1>2. /\ entries \in Seq(Entry) /\ StaticEntries \in Seq(Entry)
        /\ \A k \in DOMAIN StaticEntries : k \in DOMAIN entries /\ entries[k] = StaticEntries[k]
        /\ \A j, k \in Nat : j <= k /\ k \in DOMAIN StaticEntries /\ j \in DOMAIN entries =>
                                j \in DOMAIN StaticEntries
    BY <1>1, EntriesSplit
  <1>3. PICK first \in static : /\ \A j \in static : first <= j
                                /\ Enrich(StaticEntries, packet) = StaticEntries[first]
    BY <1>2, FirstHit
  <1>4. first \in Hits(entries, packet)
    BY <1>2, <1>3 DEF Hits
  <1>5. PICK k \in Hits(entries, packet) : /\ \A j \in Hits(entries, packet) : k <= j
                                           /\ Enrich(entries, packet) = entries[k]
    BY <1>2, <1>4, FirstHit
  <1>6. /\ k <= first /\ k \in DOMAIN entries /\ k \in Nat
        /\ first \in DOMAIN StaticEntries /\ first \in Nat
    BY <1>2, <1>3, <1>4, <1>5 DEF Hits
  <1>7. k \in DOMAIN StaticEntries
    BY <1>2, <1>6
  <1>8. k \in static
    BY <1>2, <1>5, <1>7 DEF Hits
  <1>9. k = first
    BY <1>3, <1>6, <1>8
  <1> QED
    BY <1>2, <1>3, <1>5, <1>7, <1>9

LEMMA LookupIsTrue ==
    ASSUME IdentityInv, trueSince = changes, NEW packet \in Packets
    PROVE  Enrich(entries, packet).id \in Truth(packet)
  <1> DEFINE static == Hits(StaticEntries, packet)
             owners == {vm \in DOMAIN domains : packet.macs \cap domains[vm] # {}}
             first == CHOOSE k \in static : \A j \in static : k <= j
  <1>1. PICK rest \in Seq(Entry) : /\ entries = StaticEntries \o rest
                                   /\ Describes(domains, rest, {})
    BY DEF IdentityInv, InUse
  <1>2. /\ entries \in Seq(Entry) /\ StaticEntries \in Seq(Entry) /\ Len(StaticEntries) \in Nat
        /\ \A k \in DOMAIN StaticEntries : k \in DOMAIN entries /\ entries[k] = StaticEntries[k]
        /\ \A k \in DOMAIN rest : /\ Len(StaticEntries) + k \in DOMAIN entries
                                  /\ entries[Len(StaticEntries) + k] = rest[k]
        /\ \A k \in DOMAIN entries : /\ k \in Nat
                                     /\ k \notin DOMAIN StaticEntries =>
                                          k - Len(StaticEntries) \in DOMAIN rest
        /\ \A j, k \in Nat : j <= k /\ k \in DOMAIN StaticEntries /\ j \in DOMAIN entries =>
                                j \in DOMAIN StaticEntries
    BY <1>1, EntriesSplit
  <1>3. static # {} => Truth(packet) = {StaticEntries[first].id}
    BY DEF Truth, Hits
  <1>4. static = {} => Truth(packet) = IF owners = {} THEN {""} ELSE owners
    BY DEF Truth, Hits
  <1>5. static \in SUBSET Nat
    BY <1>2 DEF Hits
  <1>6. CASE static # {}
    <2>1. Enrich(StaticEntries, packet) = StaticEntries[first]
      BY <1>6 DEF Enrich, Hits
    <2>2. Enrich(entries, packet) = Enrich(StaticEntries, packet)
      BY <1>6, StaticFound
    <2> QED
      BY <1>3, <1>6, <2>1, <2>2
  <1>7. CASE static = {} /\ Hits(entries, packet) = {}
    <2>1. Enrich(entries, packet).id = ""
      <3>1. entries \in Seq(Entry) /\ Hits(entries, packet) = {}
        BY <1>2, <1>7
      <3>2. Enrich(entries, packet) = Nobody
        BY <3>1, FirstHit
      <3>3. Nobody.id = ""
        BY DEF Nobody
      <3> QED
        BY <3>2, <3>3, Zenon
    <2>2. ASSUME NEW vm \in owners PROVE FALSE
      <3>1. vm \in DOMAIN domains /\ packet.macs \cap domains[vm] # {}
        BY <2>2
      <3>2. PICK k \in DOMAIN rest : rest[k].id = vm
        BY <1>1, <3>1 DEF Describes
      <3>3. rest[k].macs = domains[vm] /\ rest[k].vlans = {}
        BY <1>1, <3>2 DEF Describes
      <3>4. EntryMatches(rest[k], packet)
        BY <3>1, <3>3 DEF EntryMatches
      <3>5. Len(StaticEntries) + k \in Hits(entries, packet)
        BY <1>2, <3>2, <3>4 DEF Hits
      <3> QED
        BY <1>7, <3>5
    <2> QED
      BY <1>4, <1>7, <2>1, <2>2
  <1>8. CASE static = {} /\ Hits(entries, packet) # {}
    <2>1. PICK k \in Hits(entries, packet) : Enrich(entries, packet) = entries[k]
      BY <1>2, <1>8, FirstHit
    <2>2. k \in DOMAIN entries /\ EntryMatches(entries[k], packet) /\ k \in Nat
      BY <1>2, <2>1 DEF Hits
    <2>3. k \notin DOMAIN StaticEntries
      BY <1>2, <1>8, <2>2 DEF Hits
    <2> DEFINE e == rest[k - Len(StaticEntries)]
    <2>4. k - Len(StaticEntries) \in DOMAIN rest
      BY <1>2, <2>2, <2>3
    <2>5. entries[k] = e
      <3>1. Len(StaticEntries) + (k - Len(StaticEntries)) = k
        BY <1>2, <2>2
      <3> QED
        BY <1>2, <2>4, <3>1
    <2>6. e.id \in DOMAIN domains /\ e.macs = domains[e.id] /\ e.ips = {}
      BY <1>1, <2>4 DEF Describes
    <2>7. e.id \in owners
      BY <2>2, <2>5, <2>6 DEF EntryMatches
    <2> QED
      BY <1>4, <1>8, <2>1, <2>5, <2>7
  <1> QED
    BY <1>6, <1>7, <1>8

LEMMA LookupsFollow ==
    ASSUME IdentityInv
    PROVE  LookupsExact
  <1>1. StaticFirst
    <2>1. PICK rest \in Seq(Entry) : entries = StaticEntries \o rest
      BY DEF IdentityInv, InUse
    <2> QED
      BY <2>1, EntriesSplit DEF StaticFirst
  <1> QED
    BY <1>1, LookupIsTrue DEF LookupsExact

\* Whatever refreshes failed and whatever changed while one ran: lookups see
\* the static entries first, and while the domains are as they were when the
\* refresh in use began, every lookup gives an owner of the packet's addresses
\* (refreshLibvirtInventory, mergeIdentityEntries, Enrich).
THEOREM LookupsAreExact == Spec => []LookupsExact
  <1>1. Spec => []IdentityInv
    BY IdentityInitInv, IdentityStep, PTL DEF Spec
  <1> QED
    BY <1>1, LookupsFollow, PTL

-----------------------------------------------------------------------------
(***************************************************************************)
(* Who is acted against.  A stream is safe to act against if nothing of    *)
(* its packet is on the allowlist, and the static entries do not name it   *)
(* as a machine that is; what reaches the risk aggregator and the response *)
(* is about such streams only.                                             *)
(***************************************************************************)
Listed(s) ==
    LET packet == stream[s].packet
    IN \/ packet.macs \cap config.allow.macs # {}
       \/ packet.ips \cap config.allow.ips # {}
       \/ Enrich(StaticEntries, packet).id \in config.allow.ids

SafeEvents ==
    {e \in Events : /\ stream[e.stream].at # "unseen"
                    /\ config.allow.on => ~ Listed(e.stream) /\ e.rule \notin config.allow.rules}

SafeCalls == {c \in [to : Sinks \cup {"risk"}, event : Events] : c.to # "alert" => c.event \in SafeEvents}

StreamOf(C) ==
    [at : {"unseen", "match", "idle", "settled"}, packet : Packets \cup {<<>>},
     who : Entry \cup {Nobody},
     props : [Analyzers -> Values \cup {None}], next : Nat \ {0}, work : Seq(C),
     told : Seq(STRING),
     verdict : {"maybe", "", "allow", "block", "drop", "modify", "other"}]

SinkOf(E) ==
    [size : Nat, queue : Seq(E), busy : Seq(E), served : Seq(E), stopped : BOOLEAN, running : BOOLEAN]

WhoInv ==
    \A s \in Streams :
        IF stream[s].at = "unseen" THEN stream[s].work = <<>>
        ELSE Enrich(StaticEntries, stream[s].packet).id \in {"", stream[s].who.id}

AllowInv ==
    /\ ruleHits \in Nat
    /\ stream \in [Streams -> StreamOf(SafeCalls)] /\ WhoInv
    /\ sink \in [Sinks -> SinkOf(Events)] /\ sink["response"] \in SinkOf(SafeEvents)

LEMMA SeqMonotone ==
    ASSUME NEW S, NEW T, S \subseteq T
    PROVE  Seq(S) \subseteq Seq(T)
  OBVIOUS

\* A queue's steps keep what kind of events it holds.
LEMMA SinkSteps ==
    ASSUME NEW E, NEW r \in SinkOf(E)
    PROVE  /\ \A event \in E : [r EXCEPT !.queue = Append(@, event)] \in SinkOf(E)
           /\ r.queue # <<>> => [r EXCEPT !.busy = <<Head(r.queue)>>, !.queue = Tail(@)] \in SinkOf(E)
           /\ [r EXCEPT !.busy = <<>>, !.served = @ \o r.busy] \in SinkOf(E)
           /\ [r EXCEPT !.running = FALSE] \in SinkOf(E)
           /\ \A b \in BOOLEAN : [r EXCEPT !.stopped = @ \/ b] \in SinkOf(E)
  <1>1. r.queue \in Seq(E) /\ r.busy \in Seq(E) /\ r.served \in Seq(E) /\ r.stopped \in BOOLEAN
    BY DEF SinkOf
  <1>2. ASSUME NEW event \in E
        PROVE  [r EXCEPT !.queue = Append(@, event)] \in SinkOf(E)
    <2>1. Append(r.queue, event) \in Seq(E)
      BY <1>1
    <2> QED
      BY <2>1 DEF SinkOf
  <1>3. ASSUME r.queue # <<>>
        PROVE  [r EXCEPT !.busy = <<Head(r.queue)>>, !.queue = Tail(@)] \in SinkOf(E)
    <2>1. <<Head(r.queue)>> \in Seq(E) /\ Tail(r.queue) \in Seq(E)
      BY <1>1, <1>3
    <2> QED
      BY <2>1 DEF SinkOf
  <1>4. [r EXCEPT !.busy = <<>>, !.served = @ \o r.busy] \in SinkOf(E)
    <2>1. <<>> \in Seq(E) /\ r.served \o r.busy \in Seq(E)
      BY <1>1, ConcatProperties
    <2> QED
      BY <2>1 DEF SinkOf
  <1>5. [r EXCEPT !.running = FALSE] \in SinkOf(E)
    BY DEF SinkOf
  <1>6. ASSUME NEW b \in BOOLEAN
        PROVE  [r EXCEPT !.stopped = @ \/ b] \in SinkOf(E)
    BY <1>1 DEF SinkOf
  <1> QED
    BY <1>2, <1>3, <1>4, <1>5, <1>6

LEMMA AllowInitInv ==
    ASSUME Init
    PROVE  AllowInv
  <1>1. /\ config \in Configs /\ ruleHits = 0 /\ stream = [s \in Streams |-> Unseen]
        /\ sink = [k \in Sinks |-> IdleSink(config[k])]
    BY DEF Init
  <1>3. Unseen \in StreamOf(SafeCalls) /\ Unseen.at = "unseen" /\ Unseen.work = <<>>
    <2>1. <<>> \in Seq(SafeCalls) /\ <<>> \in Seq(STRING)
      OBVIOUS
    <2> QED
      BY <2>1 DEF Unseen, StreamOf
  <1>4. ASSUME NEW E, NEW k \in Sinks
        PROVE  sink[k] \in SinkOf(E)
    <2>1. config[k] \in Nat
      <3>1. config.alert \in Nat /\ config.response \in Nat
        BY <1>1, ConfigAssumption
      <3> QED
        BY <3>1 DEF Sinks
    <2>2. <<>> \in Seq(E)
      OBVIOUS
    <2>3. IdleSink(config[k]) \in SinkOf(E)
      BY <2>1, <2>2 DEF IdleSink, SinkOf
    <2> QED
      BY <1>1, <2>3
  <1>5. sink \in [Sinks -> SinkOf(Events)] /\ sink["response"] \in SinkOf(SafeEvents)
    BY <1>1, <1>4 DEF Sinks
  <1> HIDE DEF StreamOf
  <1>6. stream \in [Streams -> StreamOf(SafeCalls)] /\ WhoInv
    BY <1>1, <1>3 DEF WhoInv
  <1> QED
    BY <1>1, <1>5, <1>6 DEF AllowInv

\* A worker's step: its stream keeps its packet and its identity, or is new.
LEMMA StreamStep ==
    ASSUME AllowInv, UNCHANGED config, NEW s \in Streams, NEW r \in StreamOf(SafeCalls),
           stream' = [stream EXCEPT ![s] = r],
           r.at # "unseen",
           stream[s].at # "unseen" => r.packet = stream[s].packet /\ r.who = stream[s].who,
           stream[s].at = "unseen" => Enrich(StaticEntries, r.packet).id \in {"", r.who.id}
    PROVE  /\ SafeEvents \subseteq SafeEvents'
           /\ stream' \in [Streams -> StreamOf(SafeCalls')] /\ WhoInv'
  <1>1. stream \in [Streams -> StreamOf(SafeCalls)] /\ WhoInv
    BY DEF AllowInv
  <1>2. stream'[s] = r /\ \A u \in Streams \ {s} : stream'[u] = stream[u]
    BY <1>1
  <1>3. SafeEvents \subseteq SafeEvents'
    <2> SUFFICES ASSUME NEW e \in SafeEvents
                 PROVE  e \in SafeEvents'
      OBVIOUS
    <2>1. /\ e \in Events /\ e.stream \in Streams /\ stream[e.stream].at # "unseen"
          /\ config.allow.on => ~ Listed(e.stream) /\ e.rule \notin config.allow.rules
      BY DEF SafeEvents, Events
    <2>2. stream'[e.stream].at # "unseen" /\ stream'[e.stream].packet = stream[e.stream].packet
      BY <1>2, <2>1
    <2>3. Listed(e.stream)' <=> Listed(e.stream)
      BY <2>2 DEF Listed
    <2> QED
      BY <2>1, <2>2, <2>3 DEF SafeEvents
  <1>4. SafeCalls \subseteq SafeCalls'
    BY <1>3 DEF SafeCalls
  <1>5. Seq(SafeCalls) \subseteq Seq(SafeCalls')
    BY <1>4, SeqMonotone
  <1>6. StreamOf(SafeCalls) \subseteq StreamOf(SafeCalls')
    BY <1>5 DEF StreamOf
  <1>7. stream' \in [Streams -> StreamOf(SafeCalls')]
    BY <1>1, <1>6
  <1>8. WhoInv'
    <2> SUFFICES ASSUME NEW u \in Streams
                 PROVE  IF stream'[u].at = "unseen" THEN stream'[u].work = <<>>
                        ELSE Enrich(StaticEntries, stream'[u].packet).id \in {"", stream'[u].who.id}
      BY DEF WhoInv
    <2>1. CASE u = s
      BY <1>1, <1>2, <2>1 DEF WhoInv
    <2>2. CASE u # s
      BY <1>1, <1>2, <2>2 DEF WhoInv
    <2> QED
      BY <2>1, <2>2
  <1> QED
    BY <1>3, <1>7, <1>8

\* What holds events that are safe keeps doing so.
LEMMA SinkMonotone ==
    ASSUME SafeEvents \subseteq SafeEvents'
    PROVE  SinkOf(SafeEvents) \subseteq SinkOf(SafeEvents')
  <1>1. Seq(SafeEvents) \subseteq Seq(SafeEvents')
    BY SeqMonotone
  <1> QED
    BY <1>1 DEF SinkOf

\* A step of a worker that puts nothing into a queue.
LEMMA WorkerOnly ==
    ASSUME AllowInv, UNCHANGED <<config, sink>>, ruleHits' \in Nat,
           SafeEvents \subseteq SafeEvents',
           stream' \in [Streams -> StreamOf(SafeCalls')] /\ WhoInv'
    PROVE  AllowInv'
  <1>1. Events' = Events
    BY DEF Events
  <1>2. sink \in [Sinks -> SinkOf(Events)] /\ sink["response"] \in SinkOf(SafeEvents')
    BY SinkMonotone DEF AllowInv
  <1> QED
    BY <1>1, <1>2 DEF AllowInv

LEMMA NewStreamStep ==
    ASSUME IdentityInv, AllowInv, NEW s \in Streams, NewStream(s)
    PROVE  AllowInv'
  <1>1. UNCHANGED <<config, sink, ruleHits>> /\ stream[s].at = "unseen"
    BY DEF NewStream, Unaffected
  <1>2. PICK packet \in config.packets :
            stream' = [stream EXCEPT ![s].at = "match", ![s].packet = packet,
                                     ![s].who = Enrich(entries, packet)]
    BY DEF NewStream
  <1> DEFINE who == Enrich(entries, packet)
             r == [stream[s] EXCEPT !.at = "match", !.packet = packet, !.who = who]
  <1>3. stream \in [Streams -> StreamOf(SafeCalls)]
    BY DEF AllowInv
  <1>4. packet \in Packets
    BY ConfigAssumption DEF IdentityInv
  <1>5. entries \in Seq(Entry)
    BY EntriesSplit DEF IdentityInv, InUse
  <1>6. who \in Entry \cup {Nobody}
    <2>1. CASE Hits(entries, packet) = {}
      BY <1>5, <2>1, FirstHit
    <2>2. CASE Hits(entries, packet) # {}
      <3>1. PICK k \in Hits(entries, packet) : who = entries[k]
        BY <1>5, <2>2, FirstHit
      <3>2. k \in DOMAIN entries
        BY DEF Hits
      <3> QED
        BY <1>5, <3>1, <3>2
    <2> QED
      BY <2>1, <2>2
  <1>7. Enrich(StaticEntries, packet).id \in {"", who.id}
    <2>1. CASE Hits(StaticEntries, packet) = {}
      <3>1. Enrich(StaticEntries, packet) = Nobody
        BY <2>1, IdentityAssumption, FirstHit
      <3>2. Nobody.id = ""
        BY DEF Nobody
      <3>3. Enrich(StaticEntries, packet).id = ""
        BY <3>1, <3>2, Zenon
      <3> QED
        BY <3>3
    <2>2. CASE Hits(StaticEntries, packet) # {}
      BY <2>2, StaticFound
    <2> QED
      BY <2>1, <2>2
  <1> HIDE DEF who
  <1>8. stream' = [stream EXCEPT ![s] = r]
    BY <1>2, <1>3 DEF who
  <1>9. /\ r \in StreamOf(SafeCalls) /\ r.at = "match" /\ r.packet = packet /\ r.who = who
    BY <1>3, <1>4, <1>6 DEF StreamOf
  <1> HIDE DEF r
  <1>10. /\ SafeEvents \subseteq SafeEvents'
         /\ stream' \in [Streams -> StreamOf(SafeCalls')] /\ WhoInv'
    BY <1>1, <1>7, <1>8, <1>9, StreamStep
  <1>11. ruleHits' \in Nat
    BY <1>1 DEF AllowInv
  <1> QED
    BY <1>1, <1>10, <1>11, WorkerOnly

\* A worker's step that touches its own stream only, with calls that are safe.
LEMMA OwnStream ==
    ASSUME AllowInv, NEW s \in Streams, stream[s].at # "unseen",
           NEW r \in StreamOf(SafeCalls), stream' = [stream EXCEPT ![s] = r],
           r.at # "unseen", r.packet = stream[s].packet, r.who = stream[s].who,
           UNCHANGED <<config, sink>>, ruleHits' \in Nat
    PROVE  AllowInv'
  <1>1. /\ SafeEvents \subseteq SafeEvents'
        /\ stream' \in [Streams -> StreamOf(SafeCalls')] /\ WhoInv'
    BY StreamStep
  <1> QED
    BY <1>1, WorkerOnly

LEMMA LearnStep ==
    ASSUME IdentityInv, AllowInv, NEW s \in Streams, Learn(s)
    PROVE  AllowInv'
  <1>1. UNCHANGED <<config, sink, ruleHits>> /\ stream[s].at = "idle"
    BY DEF Learn, Unaffected
  <1>2. PICK an \in analyzers : \E value \in config.reports[an] :
            /\ stream[s].props[an] = None
            /\ stream' = [stream EXCEPT ![s].at = "match", ![s].props[an] = value,
                                        ![s].next = 1, ![s].told = <<>>]
    BY DEF Learn
  <1>3. PICK value \in config.reports[an] :
            stream' = [stream EXCEPT ![s].at = "match", ![s].props[an] = value,
                                     ![s].next = 1, ![s].told = <<>>]
    BY <1>2
  <1>4. stream \in [Streams -> StreamOf(SafeCalls)] /\ ruleHits \in Nat
    BY DEF AllowInv
  <1> DEFINE props == [stream[s].props EXCEPT ![an] = value]
             r0 == [stream[s] EXCEPT !.at = "match", !.props = props]
             r == [r0 EXCEPT !.next = 1, !.told = <<>>]
  <1>5. stream[s].props \in [Analyzers -> Values \cup {None}]
    BY <1>4 DEF StreamOf
  <1>6. props \in [Analyzers -> Values \cup {None}]
    <2>1. CASE an \in Analyzers
      <3>1. value \in Values
        BY <1>3, <2>1, ConfigAssumption DEF IdentityInv
      <3> QED
        BY <1>5, <3>1
    <2>2. CASE an \notin Analyzers
      BY <1>5, <2>2
    <2> QED
      BY <2>1, <2>2
  <1>7. stream' = [stream EXCEPT ![s] = r]
    BY <1>3, <1>4
  <1> HIDE DEF props
  <1>8. r \in StreamOf(SafeCalls) /\ r.at = "match" /\ r.packet = stream[s].packet /\ r.who = stream[s].who
    <2>1. <<>> \in Seq(STRING)
      OBVIOUS
    <2>2. /\ r0.at = "match" /\ r0.packet = stream[s].packet /\ r0.who = stream[s].who
          /\ r0 \in StreamOf(SafeCalls)
      BY <1>4, <1>6 DEF StreamOf
    <2> HIDE DEF r0
    <2>3. [r0 EXCEPT !.next = 1] \in StreamOf(SafeCalls)
      <3>1. ASSUME NEW n \in Nat \ {0}
            PROVE  [r0 EXCEPT !.next = n] \in StreamOf(SafeCalls)
        BY <2>2 DEF StreamOf
      <3> QED
        BY <3>1
    <2>4. /\ r.at = r0.at /\ r.packet = r0.packet /\ r.who = r0.who
          /\ r = [[r0 EXCEPT !.next = 1] EXCEPT !.told = <<>>]
      BY <2>2 DEF StreamOf
    <2>5. ASSUME NEW q \in StreamOf(SafeCalls), NEW told \in Seq(STRING)
          PROVE  [q EXCEPT !.told = told] \in StreamOf(SafeCalls)
      BY DEF StreamOf
    <2>6. r \in StreamOf(SafeCalls)
      BY <2>1, <2>3, <2>4, <2>5
    <2> QED
      BY <2>2, <2>4, <2>6
  <1> HIDE DEF r
  <1> QED
    BY <1>1, <1>4, <1>7, <1>8, OwnStream

LEMMA EventType ==
    ASSUME AllowInv, NEW s \in Streams, NEW rule \in Rule, NEW kind \in {"hit", "suppressed", "risk"}
    PROVE  Event(s, rule, kind, ruleHits + 1) \in Events
  <1>1. rule.name \in STRING
    BY DEF Rule
  <1>2. ruleHits + 1 \in Nat
    BY DEF AllowInv
  <1> QED
    BY <1>1, <1>2 DEF Event, Events

\* A hit that is not on the allowlist is safe to act against.
LEMMA HitIsSafe ==
    ASSUME IdentityInv, AllowInv, NEW s \in Streams, stream[s].at # "unseen", NEW rule \in Rule,
           ~ Allowlisted(s, rule)
    PROVE  Event(s, rule, "hit", ruleHits + 1) \in SafeEvents
  <1> DEFINE e == Event(s, rule, "hit", ruleHits + 1)
             packet == stream[s].packet
  <1>1. e \in Events /\ e.stream = s /\ e.rule = rule.name
    BY EventType DEF Event
  <1>2. ASSUME config.allow.on
        PROVE  ~ Listed(s) /\ rule.name \notin config.allow.rules
    <2>1. /\ stream[s].who.id \notin config.allow.ids
          /\ KnownMACs(s) \cap config.allow.macs = {}
          /\ packet.ips \cap config.allow.ips = {}
          /\ rule.name \notin config.allow.rules
      BY <1>2 DEF Allowlisted
    <2>2. packet.macs \cap config.allow.macs = {}
      BY <2>1 DEF KnownMACs
    <2>3. Enrich(StaticEntries, packet).id \in {"", stream[s].who.id}
      BY DEF AllowInv, WhoInv
    <2>4. "" \notin config.allow.ids
      BY <1>2, ConfigAssumption DEF IdentityInv
    <2> QED
      BY <2>1, <2>2, <2>3, <2>4 DEF Listed
  <1> HIDE DEF e
  <1> QED
    BY <1>1, <1>2 DEF SafeEvents, e

\* What a hit leads to are calls that are safe.
LEMMA CallsAreSafe ==
    ASSUME IdentityInv, AllowInv, NEW s \in Streams, stream[s].at # "unseen", NEW rule \in Rule
    PROVE  /\ ~ Allowlisted(s, rule) => Calls(s, rule) \in Seq(SafeCalls)
           /\ SuppressedCalls(s, rule) \in Seq(SafeCalls)
  <1>1. <<>> \in Seq(SafeCalls)
    OBVIOUS
  <1>2. ASSUME ~ Allowlisted(s, rule)
        PROVE  Calls(s, rule) \in Seq(SafeCalls)
    <2> DEFINE e == Event(s, rule, "hit", ruleHits + 1)
               alert == IF config.alert > 0 THEN <<[to |-> "alert", event |-> e]>> ELSE <<>>
               risk == IF config.risk THEN <<[to |-> "risk", event |-> e]>> ELSE <<>>
               response == IF config.response > 0 /\ rule.severe
                           THEN <<[to |-> "response", event |-> e]>> ELSE <<>>
    <2>1. e \in SafeEvents
      BY <1>2, HitIsSafe
    <2> HIDE DEF e
    <2>2. ASSUME NEW to \in {"alert", "risk", "response"}
          PROVE  [to |-> to, event |-> e] \in SafeCalls
      BY <2>1 DEF SafeCalls, SafeEvents, Sinks
    <2>3. alert \in Seq(SafeCalls) /\ risk \in Seq(SafeCalls) /\ response \in Seq(SafeCalls)
      BY <1>1, <2>2
    <2>4. Calls(s, rule) = alert \o risk \o response
      BY DEF Calls, e
    <2> HIDE DEF alert, risk, response
    <2> QED
      BY <2>3, <2>4, ConcatProperties
  <1>3. SuppressedCalls(s, rule) \in Seq(SafeCalls)
    <2> DEFINE c == [to |-> "alert", event |-> Event(s, rule, "suppressed", ruleHits + 1)]
    <2>1. c \in SafeCalls
      BY EventType DEF SafeCalls, Sinks
    <2>2. SuppressedCalls(s, rule) = <<c>> \/ SuppressedCalls(s, rule) = <<>>
      BY DEF SuppressedCalls
    <2> HIDE DEF c
    <2>3. <<c>> \in Seq(SafeCalls)
      BY <2>1
    <2> QED
      BY <1>1, <2>2, <2>3
  <1> QED
    BY <1>2, <1>3

LEMMA EvaluateStep ==
    ASSUME IdentityInv, AllowInv, NEW s \in Streams, Evaluate(s)
    PROVE  AllowInv'
  <1> DEFINE rule == config.rules[stream[s].next]
  <1>1. UNCHANGED config /\ stream[s].at = "match" /\ stream[s].next <= Len(config.rules)
    BY DEF Evaluate, Unaffected
  <1>2. stream \in [Streams -> StreamOf(SafeCalls)] /\ ruleHits \in Nat
    BY DEF AllowInv
  <1>3. stream[s].next \in Nat \ {0} /\ stream[s].work \in Seq(SafeCalls)
        /\ stream[s].told \in Seq(STRING)
    BY <1>2 DEF StreamOf
  <1>4. config.rules \in Seq(Rule) /\ Len(config.rules) \in Nat
    <2>1. config.rules \in Seq(Rule)
      BY ConfigAssumption DEF IdentityInv
    <2> QED
      BY <2>1
  <1>5. rule \in Rule
    BY <1>1, <1>3, <1>4
  <1>6. rule.name \in STRING /\ rule.action \in {"", "allow", "block", "drop", "modify", "other"}
    BY <1>5 DEF Rule
  <1>7. \/ Log(s, rule)
        \/ /\ \E n \in {stream[s].next + 1, Len(config.rules) + 1}, v \in {rule.action, stream[s].verdict} :
                 stream' = [stream EXCEPT ![s].next = n, ![s].verdict = v]
           /\ UNCHANGED <<sink, ruleHits>>
    BY <1>2 DEF Evaluate
  <1> HIDE DEF rule
  <1>8. CASE Log(s, rule)
    <2> DEFINE n == IF rule.action = "" THEN stream[s].next + 1 ELSE Len(config.rules) + 1
               v == IF rule.action = "" THEN stream[s].verdict ELSE rule.action
               calls == IF Allowlisted(s, rule) THEN SuppressedCalls(s, rule) ELSE Calls(s, rule)
               r == [stream[s] EXCEPT !.work = calls, !.told = Append(@, rule.name),
                                      !.next = n, !.verdict = v]
    <2>1. calls \in Seq(SafeCalls)
      BY <1>1, <1>5, CallsAreSafe
    <2>2. stream' = [stream EXCEPT ![s] = r] /\ UNCHANGED sink /\ ruleHits' = ruleHits + 1
      BY <1>2, <1>8 DEF Log
    <2>3. n \in Nat \ {0}
      <3>1. stream[s].next + 1 \in Nat \ {0} /\ Len(config.rules) + 1 \in Nat \ {0}
        BY <1>3, <1>4
      <3>2. n = stream[s].next + 1 \/ n = Len(config.rules) + 1
        OBVIOUS
      <3> QED
        BY <3>1, <3>2
    <2>4. v \in {"maybe", "", "allow", "block", "drop", "modify", "other"}
      BY <1>2, <1>6 DEF StreamOf
    <2>5. Append(stream[s].told, rule.name) \in Seq(STRING)
      <3>1. stream[s].told \in Seq(STRING) /\ rule.name \in STRING
        BY <1>3, <1>6, Zenon
      <3> QED
        BY <3>1
    <2> HIDE DEF n, v, calls
    <2>6. r \in StreamOf(SafeCalls) /\ r.at = "match" /\ r.packet = stream[s].packet
          /\ r.who = stream[s].who
      BY <1>1, <1>2, <2>1, <2>3, <2>4, <2>5 DEF StreamOf
    <2>7. ruleHits' \in Nat
      BY <1>2, <2>2
    <2> HIDE DEF r
    <2> QED
      BY <1>1, <2>2, <2>6, <2>7, OwnStream
  <1>9. CASE /\ \E n \in {stream[s].next + 1, Len(config.rules) + 1}, v \in {rule.action, stream[s].verdict} :
                   stream' = [stream EXCEPT ![s].next = n, ![s].verdict = v]
             /\ UNCHANGED <<sink, ruleHits>>
    <2>1. PICK n \in {stream[s].next + 1, Len(config.rules) + 1}, v \in {rule.action, stream[s].verdict} :
                   stream' = [stream EXCEPT ![s].next = n, ![s].verdict = v]
      BY <1>9
    <2> DEFINE r == [stream[s] EXCEPT !.next = n, !.verdict = v]
    <2>2. stream' = [stream EXCEPT ![s] = r]
      BY <1>2, <2>1
    <2>3. n \in Nat \ {0}
      BY <1>3, <1>4
    <2>4. v \in {"maybe", "", "allow", "block", "drop", "modify", "other"}
      BY <1>2, <1>6 DEF StreamOf
    <2>5. r \in StreamOf(SafeCalls) /\ r.at = "match" /\ r.packet = stream[s].packet
          /\ r.who = stream[s].who
      BY <1>1, <1>2, <2>3, <2>4 DEF StreamOf
    <2> HIDE DEF r
    <2> QED
      BY <1>1, <1>2, <1>9, <2>2, <2>5, OwnStream
  <1> QED
    BY <1>7, <1>8, <1>9

LEMMA ReturnStep ==
    ASSUME AllowInv, NEW s \in Streams, Return(s)
    PROVE  AllowInv'
  <1> DEFINE place == IF stream[s].verdict = "maybe" THEN "idle" ELSE "settled"
             r == [stream[s] EXCEPT !.at = place]
  <1>1. UNCHANGED <<config, sink, ruleHits>> /\ stream[s].at = "match"
    BY DEF Return, Unaffected
  <1>2. stream \in [Streams -> StreamOf(SafeCalls)] /\ ruleHits \in Nat
    BY DEF AllowInv
  <1>3. stream' = [stream EXCEPT ![s] = r]
    BY <1>2 DEF Return
  <1>4. place \in {"idle", "settled"}
    OBVIOUS
  <1> HIDE DEF place
  <1>5. r \in StreamOf(SafeCalls) /\ r.at # "unseen" /\ r.packet = stream[s].packet
        /\ r.who = stream[s].who
    BY <1>2, <1>4 DEF StreamOf
  <1> HIDE DEF r
  <1> QED
    BY <1>1, <1>2, <1>3, <1>5, OwnStream

\* The first call of a stream that has one.
LEMMA HeadCall ==
    ASSUME AllowInv, NEW s \in Streams, stream[s].work # <<>>
    PROVE  /\ Head(stream[s].work) \in SafeCalls /\ Tail(stream[s].work) \in Seq(SafeCalls)
  <1>1. stream[s].work \in Seq(SafeCalls)
    BY DEF AllowInv, StreamOf
  <1> QED
    BY <1>1

\* An event in a queue: of any kind for the webhook, a safe one for the response.
LEMMA QueueStep ==
    ASSUME AllowInv, NEW k \in Sinks, NEW event \in Events, k = "response" => event \in SafeEvents,
           sink' = [sink EXCEPT ![k].queue = Append(@, event)]
    PROVE  sink' \in [Sinks -> SinkOf(Events)] /\ sink'["response"] \in SinkOf(SafeEvents)
  <1>1. sink \in [Sinks -> SinkOf(Events)] /\ sink["response"] \in SinkOf(SafeEvents)
    BY DEF AllowInv
  <1> DEFINE r == [sink[k] EXCEPT !.queue = Append(@, event)]
  <1>2. sink' = [sink EXCEPT ![k] = r]
    BY <1>1
  <1>3. r \in SinkOf(Events) /\ (k = "response" => r \in SinkOf(SafeEvents))
    BY <1>1, SinkSteps
  <1> HIDE DEF r
  <1>4. sink' \in [Sinks -> SinkOf(Events)]
    BY <1>1, <1>2, <1>3
  <1>5. sink'["response"] \in SinkOf(SafeEvents)
    <2>1. "response" \in Sinks
      BY DEF Sinks
    <2> QED
      BY <1>1, <1>2, <1>3, <2>1
  <1> QED
    BY <1>4, <1>5

LEMMA TellStep ==
    ASSUME IdentityInv, AllowInv, NEW s \in Streams, Tell(s)
    PROVE  AllowInv'
  <1> DEFINE call == Head(stream[s].work)
             rest == Tail(stream[s].work)
             r == [stream[s] EXCEPT !.work = rest]
  <1>1. /\ UNCHANGED <<config, ruleHits>> /\ stream[s].work # <<>> /\ call.to \in Sinks
        /\ stream' = [stream EXCEPT ![s].work = Tail(@)]
        /\ Emit(call.to, call.event)
    BY DEF Tell, Unaffected
  <1>2. stream \in [Streams -> StreamOf(SafeCalls)] /\ ruleHits \in Nat
    BY DEF AllowInv
  <1>3. call \in SafeCalls /\ rest \in Seq(SafeCalls)
    BY <1>1, HeadCall
  <1>4. stream' = [stream EXCEPT ![s] = r]
    BY <1>1, <1>2
  <1>5. call.event \in Events /\ (call.to = "response" => call.event \in SafeEvents)
    BY <1>3 DEF SafeCalls
  <1> HIDE DEF call, rest
  <1>6. r \in StreamOf(SafeCalls) /\ r.at = stream[s].at /\ r.packet = stream[s].packet
        /\ r.who = stream[s].who
    BY <1>2, <1>3 DEF StreamOf
  <1> HIDE DEF r
  <1>7. sink' \in [Sinks -> SinkOf(Events)] /\ sink'["response"] \in SinkOf(SafeEvents)
    <2>1. CASE UNCHANGED sink
      BY <2>1 DEF AllowInv
    <2>2. CASE sink' = [sink EXCEPT ![call.to].queue = Append(@, call.event)]
      BY <1>1, <1>5, <2>2, QueueStep
    <2> QED
      BY <1>1, <2>1, <2>2 DEF Emit
  <1>8. ASSUME SafeEvents \subseteq SafeEvents',
               stream' \in [Streams -> StreamOf(SafeCalls')] /\ WhoInv'
        PROVE  AllowInv'
    <2>1. SinkOf(SafeEvents) \subseteq SinkOf(SafeEvents') /\ Events' = Events
      BY <1>8, SinkMonotone DEF Events
    <2>2. ruleHits' \in Nat
      BY <1>1, <1>2
    <2> QED
      BY <1>7, <1>8, <2>1, <2>2 DEF AllowInv
  <1>9. stream[s].at # "unseen"
    BY <1>1 DEF AllowInv, WhoInv
  <1>10. /\ SafeEvents \subseteq SafeEvents'
         /\ stream' \in [Streams -> StreamOf(SafeCalls')] /\ WhoInv'
    BY <1>1, <1>4, <1>6, <1>9, StreamStep
  <1> QED
    BY <1>8, <1>10

LEMMA AddRiskStep ==
    ASSUME IdentityInv, AllowInv, NEW s \in Streams, AddRisk(s)
    PROVE  AllowInv'
  <1> DEFINE call == Head(stream[s].work)
             rest == Tail(stream[s].work)
             event == [call.event EXCEPT !.kind = "risk"]
  <1>1. UNCHANGED <<config, sink, ruleHits>> /\ stream[s].work # <<>> /\ call.to = "risk"
    BY DEF AddRisk, Unaffected
  <1>2. stream \in [Streams -> StreamOf(SafeCalls)] /\ ruleHits \in Nat
    BY DEF AllowInv
  <1>3. call \in SafeCalls /\ rest \in Seq(SafeCalls)
    BY <1>1, HeadCall
  <1>4. PICK crossed \in SUBSET Sinks :
           stream' = [stream EXCEPT ![s].work =
               (IF "alert" \in crossed /\ config["alert"] > 0
                THEN <<[to |-> "alert", event |-> event]>> ELSE <<>>)
               \o (IF "response" \in crossed /\ config["response"] > 0
                   THEN <<[to |-> "response", event |-> event]>> ELSE <<>>)
               \o Tail(@)]
    BY DEF AddRisk
  <1> DEFINE alert == IF "alert" \in crossed /\ config["alert"] > 0
                      THEN <<[to |-> "alert", event |-> event]>> ELSE <<>>
             response == IF "response" \in crossed /\ config["response"] > 0
                         THEN <<[to |-> "response", event |-> event]>> ELSE <<>>
             r == [stream[s] EXCEPT !.work = alert \o response \o rest]
  <1>5. stream' = [stream EXCEPT ![s] = r]
    BY <1>2, <1>4
  <1>6. call.event \in SafeEvents
    BY <1>1, <1>3 DEF SafeCalls
  <1> HIDE DEF call, rest
  <1>7. event \in SafeEvents
    <2>1. event \in Events /\ event.stream = call.event.stream /\ event.rule = call.event.rule
      BY <1>6 DEF SafeEvents, Events
    <2> HIDE DEF event
    <2> QED
      BY <1>6, <2>1 DEF SafeEvents
  <1> HIDE DEF event
  <1>8. ASSUME NEW to \in Sinks
        PROVE  <<[to |-> to, event |-> event]>> \in Seq(SafeCalls)
    <2>1. [to |-> to, event |-> event] \in SafeCalls
      BY <1>7 DEF SafeCalls, SafeEvents, Sinks
    <2> QED
      BY <2>1
  <1>9. alert \in Seq(SafeCalls) /\ response \in Seq(SafeCalls)
    <2>1. <<>> \in Seq(SafeCalls)
      OBVIOUS
    <2> QED
      BY <1>8, <2>1 DEF Sinks
  <1> HIDE DEF alert, response
  <1>10. alert \o response \o rest \in Seq(SafeCalls)
    BY <1>3, <1>9, ConcatProperties
  <1>11. r \in StreamOf(SafeCalls) /\ r.at = stream[s].at /\ r.packet = stream[s].packet
         /\ r.who = stream[s].who
    BY <1>2, <1>10 DEF StreamOf
  <1> HIDE DEF r
  <1>12. stream[s].at # "unseen"
    BY <1>1 DEF AllowInv, WhoInv
  <1> QED
    BY <1>1, <1>2, <1>5, <1>11, <1>12, OwnStream

\* A step of a sink's goroutine, or of main.
LEMMA SinkOnly ==
    ASSUME AllowInv, UNCHANGED <<config, stream, ruleHits>>,
           sink' \in [Sinks -> SinkOf(Events)] /\ sink'["response"] \in SinkOf(SafeEvents)
    PROVE  AllowInv'
  <1>1. UNCHANGED <<SafeEvents, SafeCalls, Events>>
    BY DEF SafeEvents, SafeCalls, Listed, Events
  <1>2. WhoInv'
    BY DEF AllowInv, WhoInv
  <1> QED
    BY <1>1, <1>2 DEF AllowInv

LEMMA GoroutineStep ==
    ASSUME AllowInv, NEW k \in Sinks, Goroutine(k)
    PROVE  AllowInv'
  <1>1. UNCHANGED <<config, stream, ruleHits>>
    BY DEF Goroutine, Take, Finish, Stop, Unaffected
  <1>2. sink \in [Sinks -> SinkOf(Events)] /\ sink["response"] \in SinkOf(SafeEvents)
        /\ "response" \in Sinks
    BY DEF AllowInv, Sinks
  <1>3. ASSUME NEW r, sink' = [sink EXCEPT ![k] = r], r \in SinkOf(Events),
               k = "response" => r \in SinkOf(SafeEvents)
        PROVE  AllowInv'
    <2>1. sink' \in [Sinks -> SinkOf(Events)] /\ sink'["response"] \in SinkOf(SafeEvents)
      BY <1>2, <1>3
    <2> QED
      BY <1>1, <2>1, SinkOnly
  <1>4. CASE Take(k)
    <2> DEFINE r == [sink[k] EXCEPT !.busy = <<Head(sink[k].queue)>>, !.queue = Tail(@)]
    <2>1. sink' = [sink EXCEPT ![k] = r] /\ sink[k].queue # <<>>
      BY <1>2, <1>4 DEF Take
    <2>2. r \in SinkOf(Events) /\ (k = "response" => r \in SinkOf(SafeEvents))
      BY <1>2, <2>1, SinkSteps
    <2> HIDE DEF r
    <2> QED
      BY <1>3, <2>1, <2>2
  <1>5. CASE Finish(k)
    <2> DEFINE r == [sink[k] EXCEPT !.busy = <<>>, !.served = @ \o sink[k].busy]
    <2>1. sink' = [sink EXCEPT ![k] = r]
      BY <1>2, <1>5 DEF Finish
    <2>2. r \in SinkOf(Events) /\ (k = "response" => r \in SinkOf(SafeEvents))
      BY <1>2, SinkSteps
    <2> HIDE DEF r
    <2> QED
      BY <1>3, <2>1, <2>2
  <1>6. CASE Stop(k)
    <2> DEFINE r == [sink[k] EXCEPT !.running = FALSE]
    <2>1. sink' = [sink EXCEPT ![k] = r]
      BY <1>2, <1>6 DEF Stop
    <2>2. r \in SinkOf(Events) /\ (k = "response" => r \in SinkOf(SafeEvents))
      BY <1>2, SinkSteps
    <2> HIDE DEF r
    <2> QED
      BY <1>3, <2>1, <2>2
  <1> QED
    BY <1>4, <1>5, <1>6 DEF Goroutine

LEMMA ShutdownStep ==
    ASSUME AllowInv, Shutdown
    PROVE  AllowInv'
  <1>1. /\ UNCHANGED <<config, stream, ruleHits>>
        /\ sink' = [k \in Sinks |-> [sink[k] EXCEPT !.stopped = @ \/ k \in Closing(main')]]
    BY DEF Shutdown, identityVars
  <1>2. sink \in [Sinks -> SinkOf(Events)] /\ sink["response"] \in SinkOf(SafeEvents)
        /\ "response" \in Sinks
    BY DEF AllowInv, Sinks
  <1>3. ASSUME NEW E, NEW k \in Sinks, sink[k] \in SinkOf(E)
        PROVE  sink'[k] \in SinkOf(E)
    <2>1. sink'[k] = [sink[k] EXCEPT !.stopped = @ \/ k \in Closing(main')]
      BY <1>1
    <2>2. (k \in Closing(main')) \in BOOLEAN
      OBVIOUS
    <2> QED
      BY <1>3, <2>1, <2>2, SinkSteps
  <1>4. sink' \in [Sinks -> SinkOf(Events)] /\ sink'["response"] \in SinkOf(SafeEvents)
    BY <1>1, <1>2, <1>3
  <1> QED
    BY <1>1, <1>4, SinkOnly

LEMMA AllowStep ==
    ASSUME IdentityInv, AllowInv, [Next]_vars
    PROVE  AllowInv'
  <1>1. CASE UNCHANGED <<config, stream, sink, ruleHits>>
    <2>1. sink' \in [Sinks -> SinkOf(Events)] /\ sink'["response"] \in SinkOf(SafeEvents)
      BY <1>1 DEF AllowInv
    <2> QED
      BY <1>1, <2>1, SinkOnly
  <1>2. ASSUME NEW s \in Streams, Worker(s)
        PROVE  AllowInv'
    BY <1>2, NewStreamStep, LearnStep, EvaluateStep, ReturnStep, TellStep, AddRiskStep DEF Worker
  <1>3. ASSUME NEW k \in Sinks, Goroutine(k)
        PROVE  AllowInv'
    BY <1>3, GoroutineStep
  <1>4. CASE Shutdown
    BY <1>4, ShutdownStep
  <1>5. CASE Compile \/ Run
    BY <1>1, <1>5 DEF Compile, Run, hitVars
  <1>6. CASE Inventory
    BY <1>1, <1>6 DEF Inventory, hitVars, Change, RefreshStep, Tick, ListDomains, DumpDomain,
                      Store, RefreshStops
  <1>7. CASE UNCHANGED vars
    BY <1>1, <1>7 DEF vars, hitVars
  <1> QED
    BY <1>2, <1>3, <1>4, <1>5, <1>6, <1>7 DEF Next

LEMMA SafetyFollows ==
    ASSUME AllowInv
    PROVE  AllowlistedIsSafe
  <1> DEFINE r == sink["response"]
  <1>1. r.served \in Seq(SafeEvents) /\ r.busy \in Seq(SafeEvents) /\ r.queue \in Seq(SafeEvents)
    BY DEF AllowInv, SinkOf
  <1> HIDE DEF r
  <1>2. r.served \o r.busy \o r.queue \in Seq(SafeEvents)
    BY <1>1, ConcatProperties
  <1>3. Taken("response") \in Seq(SafeEvents)
    BY <1>2 DEF Taken, r
  <1>4. ASSUME NEW e \in ToSet(Taken("response"))
        PROVE  e \in SafeEvents
    BY <1>3, <1>4 DEF ToSet
  <1>5. ASSUME config.allow.on, NEW e \in SafeEvents
        PROVE  ~ Listed(e.stream) /\ e.rule \notin config.allow.rules
    BY <1>5 DEF SafeEvents
  <1> QED
    BY <1>4, <1>5 DEF AllowlistedIsSafe, Listed

\* What is on the allowlist is never acted against, by its own hits or by the
\* risk they add up to, with any rules, inventory and order of the workers, the
\* refreshes and the queues (rulesetLogger.Log, allowlist.Match, Enrich).
THEOREM AllowlistedIsAlwaysSafe == Spec => []AllowlistedIsSafe
  <1>1. Init => IdentityInv /\ AllowInv
    BY IdentityInitInv, AllowInitInv
  <1>2. IdentityInv /\ AllowInv /\ [Next]_vars => (IdentityInv /\ AllowInv)'
    BY IdentityStep, AllowStep
  <1>3. Spec => [](IdentityInv /\ AllowInv)
    BY <1>1, <1>2, PTL DEF Spec
  <1> QED
    BY <1>3, SafetyFollows, PTL

-----------------------------------------------------------------------------
(***************************************************************************)
(* What a match comes to.  One that has not decided has passed the rules   *)
(* before its next one, none of which acts, and named those it heard; one  *)
(* that has decided is done.                                               *)
(***************************************************************************)
HeardBefore(rules, props, n) == {j \in Holding(rules, props) : rules[j].log /\ j < n}

Done(rules, r) ==
    Decides(rules, r.props, r.verdict) /\ NamesOf(rules, r.told, Heard(rules, r.props))

Passed(rules, r) ==
    /\ \A j \in Acting(rules, r.props) : r.next <= j
    /\ NamesOf(rules, r.told, HeardBefore(rules, r.props, r.next))

MatchOf(rules, r) ==
    /\ r.next \in 1..Len(rules) + 1
    /\ r.at \in {"unseen", "idle"} => r.verdict = "maybe"
    /\ r.at = "unseen" => r.next = 1 /\ r.told = <<>>
    /\ r.at = "match" => IF r.verdict = "maybe" THEN Passed(rules, r)
                         ELSE r.next = Len(rules) + 1 /\ Done(rules, r)
    /\ r.at \in {"idle", "settled"} => Done(rules, r)

Started ==
    /\ main \in {"compile", "run", "closeResponse", "closeAlert", "closeIdentity"} \cup Ended
    /\ compiled \in 0..Len(config.rules) /\ analyzers \subseteq Analyzers
    /\ \A j \in 1..compiled : Compiles(config.rules[j]) /\ config.rules[j].analyzer \in analyzers
    /\ main \notin {"compile", "fatal"} => compiled = Len(config.rules)
    /\ main \in {"compile", "fatal"} => \A s \in Streams : stream[s].at = "unseen"

Matched == \A s \in Streams : MatchOf(config.rules, stream[s])

LEMMA RulePlaces ==
    ASSUME NEW rules \in Seq(Rule), NEW props
    PROVE  /\ Len(rules) \in Nat /\ DOMAIN rules = 1..Len(rules)
           /\ \A j \in Holding(rules, props) : j \in 1..Len(rules) /\ j \in Nat
           /\ \A j \in Acting(rules, props) : j \in Holding(rules, props) /\ rules[j].action # ""
           /\ \A n : \A j \in HeardBefore(rules, props, n) : j \in Nat /\ j < n
           /\ \A n \in Holding(rules, props) : rules[n].action # "" => n \in Acting(rules, props)
  <1>1. Len(rules) \in Nat /\ DOMAIN rules = 1..Len(rules)
    OBVIOUS
  <1>2. \A j \in Holding(rules, props) : j \in DOMAIN rules
    BY DEF Holding
  <1>3. \A j \in 1..Len(rules) : j \in Nat
    BY <1>1
  <1>4. \A j \in Acting(rules, props) : j \in Holding(rules, props) /\ rules[j].action # ""
    BY Zenon DEF Acting
  <1>5. \A n : \A j \in HeardBefore(rules, props, n) : j \in Holding(rules, props) /\ j < n
    BY Zenon DEF HeardBefore
  <1>6. \A n \in Holding(rules, props) : rules[n].action # "" => n \in Acting(rules, props)
    BY Zenon DEF Acting
  <1>7. \A j \in Holding(rules, props) : j \in 1..Len(rules) /\ j \in Nat
    BY <1>1, <1>2, <1>3, Zenon
  <1> QED
    BY <1>1, <1>4, <1>5, <1>6, <1>7, Zenon

LEMMA NothingNamed ==
    ASSUME NEW rules
    PROVE  NamesOf(rules, <<>>, {})
  <1> DEFINE place == [i \in {} |-> i]
  <1>1. DOMAIN <<>> = {}
    OBVIOUS
  <1>2. place \in [DOMAIN <<>> -> {}]
    BY <1>1
  <1> QED
    BY <1>1, <1>2 DEF NamesOf

LEMMA OneMoreNamed ==
    ASSUME NEW rules, NEW told \in Seq(STRING), NEW places \in SUBSET Nat, NEW n \in Nat,
           rules[n].name \in STRING, NamesOf(rules, told, places), \A j \in places : j < n
    PROVE  NamesOf(rules, Append(told, rules[n].name), places \cup {n})
  <1> DEFINE more == Append(told, rules[n].name)
             len == Len(told)
  <1>1. PICK place \in [DOMAIN told -> places] :
           /\ \A j \in places : \E i \in DOMAIN told : place[i] = j
           /\ \A i \in DOMAIN told : told[i] = rules[place[i]].name
           /\ \A i, k \in DOMAIN told : i < k => place[i] < place[k]
    BY DEF NamesOf
  <1>2. /\ len \in Nat /\ DOMAIN told = 1..len /\ DOMAIN more = 1..len + 1
        /\ more[len + 1] = rules[n].name /\ \A i \in 1..len : more[i] = told[i]
    <2>1. told \in Seq(STRING) /\ rules[n].name \in STRING
      OBVIOUS
    <2> QED
      BY <2>1, AppendProperties
  <1> DEFINE wider == [i \in DOMAIN more |-> IF i = len + 1 THEN n ELSE place[i]]
  <1> HIDE DEF more, len
  <1>3. wider \in [DOMAIN more -> places \cup {n}]
    BY <1>1, <1>2
  <1>4. wider[len + 1] = n /\ \A i \in 1..len : wider[i] = place[i]
    BY <1>2
  <1> HIDE DEF wider
  <1>5. \A j \in places \cup {n} : \E i \in DOMAIN more : wider[i] = j
    <2>1. len + 1 \in DOMAIN more /\ 1..len \subseteq DOMAIN more
      BY <1>2
    <2> QED
      BY <1>1, <1>2, <1>4, <2>1
  <1>6. ASSUME NEW i \in DOMAIN more
        PROVE  more[i] = rules[wider[i]].name
    <2>1. CASE i = len + 1
      BY <1>2, <1>4, <2>1
    <2>2. CASE i # len + 1
      <3>1. i \in 1..len
        BY <1>2, <2>2
      <3> QED
        BY <1>1, <1>2, <1>4, <3>1
    <2> QED
      BY <2>1, <2>2
  <1>7. ASSUME NEW i \in DOMAIN more, NEW k \in DOMAIN more, i < k
        PROVE  wider[i] < wider[k]
    <2>1. i \in 1..len
      BY <1>2, <1>7
    <2>2. CASE k = len + 1
      <3>1. wider[i] \in places /\ wider[k] = n
        BY <1>1, <1>2, <1>4, <2>1, <2>2
      <3> QED
        BY <3>1
    <2>3. CASE k # len + 1
      <3>1. k \in 1..len
        BY <1>2, <2>3
      <3> QED
        BY <1>1, <1>2, <1>4, <1>7, <2>1, <3>1
    <2> QED
      BY <2>2, <2>3
  <1>8. NamesOf(rules, more, places \cup {n})
    BY <1>3, <1>5, <1>6, <1>7 DEF NamesOf
  <1> QED
    BY <1>8 DEF more

LEMMA RuleActions ==
    ASSUME NEW rules \in Seq(Rule), NEW j \in DOMAIN rules
    PROVE  rules[j].name \in STRING /\ rules[j].action # "maybe" /\ rules[j].log \in BOOLEAN
  <1>1. rules[j] \in Rule
    OBVIOUS
  <1> QED
    BY <1>1 DEF Rule

\* A match that starts has heard nothing.
LEMMA MatchStarts ==
    ASSUME NEW rules \in Seq(Rule), NEW r, r.at = "match", r.next = 1, r.told = <<>>, r.verdict = "maybe"
    PROVE  MatchOf(rules, r)
  <1>1. /\ Len(rules) \in Nat
        /\ \A j \in Holding(rules, r.props) : j \in 1..Len(rules)
        /\ \A j \in Acting(rules, r.props) : j \in Holding(rules, r.props)
        /\ \A j \in HeardBefore(rules, r.props, 1) : j \in Nat /\ j < 1 /\ j \in Holding(rules, r.props)
    BY RulePlaces DEF HeardBefore
  <1>2. HeardBefore(rules, r.props, 1) = {} /\ \A j \in Acting(rules, r.props) : 1 <= j
    BY <1>1
  <1>3. Passed(rules, r)
    BY <1>2, NothingNamed DEF Passed
  <1>4. r.next \in 1..Len(rules) + 1
    BY <1>1
  <1> QED
    BY <1>3, <1>4 DEF MatchOf

\* The first acting rule decides, and no rule behind it is heard.
LEMMA FirstDecides ==
    ASSUME NEW rules \in Seq(Rule), NEW props, NEW n \in Acting(rules, props),
           \A j \in Acting(rules, props) : n <= j
    PROVE  /\ Decides(rules, props, rules[n].action)
           /\ Heard(rules, props) = HeardBefore(rules, props, n + 1)
  <1>1. /\ \A j \in Acting(rules, props) : j \in Holding(rules, props)
        /\ \A j \in Holding(rules, props) : j \in Nat
    BY RulePlaces
  <1>2. Decides(rules, props, rules[n].action)
    BY DEF Decides
  <1>3. ASSUME NEW j \in Holding(rules, props)
        PROVE  (\A i \in Acting(rules, props) : j <= i) <=> j < n + 1
    <2>1. \A i \in Acting(rules, props) : i \in Nat /\ n <= i
      BY <1>1
    <2>2. n \in Nat /\ j \in Nat
      BY <1>1
    <2> QED
      BY <2>1, <2>2
  <1> QED
    BY <1>2, <1>3 DEF Heard, HeardBefore

\* Without an acting rule every one with log that is true is heard.
LEMMA NoneDecides ==
    ASSUME NEW rules \in Seq(Rule), NEW props, \A j \in Acting(rules, props) : Len(rules) + 1 <= j
    PROVE  /\ Decides(rules, props, "maybe")
           /\ Heard(rules, props) = HeardBefore(rules, props, Len(rules) + 1)
  <1>1. /\ Len(rules) \in Nat
        /\ \A j \in Holding(rules, props) : j \in 1..Len(rules)
        /\ \A j \in Acting(rules, props) : j \in Holding(rules, props)
    BY RulePlaces
  <1>2. Acting(rules, props) = {}
    BY <1>1
  <1>3. \A j \in Holding(rules, props) : j < Len(rules) + 1
    BY <1>1
  <1> QED
    BY <1>2, <1>3 DEF Decides, Heard, HeardBefore

\* One more rule: it is heard if it is true and has log.
LEMMA HeardOneMore ==
    ASSUME NEW rules \in Seq(Rule), NEW props, NEW n \in DOMAIN rules
    PROVE  HeardBefore(rules, props, n + 1) =
              IF n \in Holding(rules, props) /\ rules[n].log
              THEN HeardBefore(rules, props, n) \cup {n} ELSE HeardBefore(rules, props, n)
  <1>1. n \in Nat /\ \A j \in Holding(rules, props) : j \in Nat
    <2>1. DOMAIN rules = 1..Len(rules) /\ Len(rules) \in Nat
      OBVIOUS
    <2>2. n \in Nat
      BY <2>1
    <2> QED
      BY <2>2, RulePlaces
  <1>2. \A j \in Nat : j < n + 1 <=> j < n \/ j = n
    BY <1>1
  <1> QED
    BY <1>1, <1>2 DEF HeardBefore

LEMMA NextPlace ==
    ASSUME NEW len \in Nat, NEW n \in 1..len
    PROVE  /\ n \in Nat /\ n + 1 \in 1..len + 1 /\ len + 1 \in 1..len + 1
           /\ \A j \in Nat : n <= j /\ j # n => n + 1 <= j
  OBVIOUS

\* A round of the match loop.
LEMMA MatchRound ==
    ASSUME NEW rules \in Seq(Rule), NEW r, Passed(rules, r), r.next \in DOMAIN rules,
           r.told \in Seq(STRING), NEW q, q.at = "match", q.props = r.props,
           NEW rule, rule = rules[r.next],
           q.told = (IF r.next \in Holding(rules, r.props) /\ rule.log THEN Append(r.told, rule.name) ELSE r.told),
           q.next = (IF r.next \in Holding(rules, r.props) /\ rule.action # "" THEN Len(rules) + 1 ELSE r.next + 1),
           q.verdict = (IF r.next \in Holding(rules, r.props) /\ rule.action # "" THEN rule.action ELSE "maybe")
    PROVE  MatchOf(rules, q)
  <1> DEFINE n == r.next
             props == r.props
             holds == r.next \in Holding(rules, r.props)
  <1>1. /\ n \in 1..Len(rules) /\ Len(rules) \in Nat /\ n \in Nat
        /\ \A j \in Acting(rules, props) : j \in Nat /\ j \in Holding(rules, props) /\ rules[j].action # ""
        /\ \A j \in HeardBefore(rules, props, n) : j \in Nat /\ j < n
        /\ holds /\ rule.action # "" => n \in Acting(rules, props)
    <2>1. DOMAIN rules = 1..Len(rules) /\ Len(rules) \in Nat
      BY RulePlaces, Zenon
    <2>2. n \in 1..Len(rules) /\ n \in Nat
      BY <2>1, NextPlace
    <2>3. /\ \A j \in Acting(rules, props) : j \in Nat /\ j \in Holding(rules, props) /\ rules[j].action # ""
          /\ \A j \in HeardBefore(rules, props, n) : j \in Nat /\ j < n
      BY RulePlaces
    <2>4. holds /\ rule.action # "" => n \in Acting(rules, props)
      BY RulePlaces
    <2> QED
      BY <2>1, <2>2, <2>3, <2>4
  <1>2. rules[n].name \in STRING /\ rules[n].action # "maybe"
    BY RuleActions
  <1>9. q.next \in 1..Len(rules) + 1
    <2>1. Len(rules) + 1 \in 1..Len(rules) + 1 /\ n + 1 \in 1..Len(rules) + 1
      BY <1>1, NextPlace
    <2>2. q.next = Len(rules) + 1 \/ q.next = n + 1
      OBVIOUS
    <2> HIDE DEF n
    <2> QED
      BY <2>1, <2>2
  <1>3. NamesOf(rules, q.told, HeardBefore(rules, props, n + 1))
    <2>1. NamesOf(rules, r.told, HeardBefore(rules, props, n))
      BY DEF Passed
    <2>2. HeardBefore(rules, props, n + 1) =
             IF holds /\ rule.log
             THEN HeardBefore(rules, props, n) \cup {n} ELSE HeardBefore(rules, props, n)
      BY HeardOneMore
    <2>3. HeardBefore(rules, props, n) \in SUBSET Nat /\ \A j \in HeardBefore(rules, props, n) : j < n
      BY <1>1
    <2> HIDE DEF n, props
    <2>4. CASE holds /\ rule.log
      <3>1. q.told = Append(r.told, rules[n].name)
        BY <2>4 DEF n
      <3>2. NamesOf(rules, Append(r.told, rules[n].name), HeardBefore(rules, props, n) \cup {n})
        BY <1>1, <1>2, <2>1, <2>3, OneMoreNamed
      <3> QED
        BY <2>2, <2>4, <3>1, <3>2
    <2>5. CASE ~ (holds /\ rule.log)
      BY <2>1, <2>2, <2>5
    <2> QED
      BY <2>4, <2>5
  <1>4. CASE holds /\ rule.action # ""
    <2>1. n \in Acting(rules, props) /\ \A j \in Acting(rules, props) : n <= j
      BY <1>1, <1>4 DEF Passed
    <2>2. Decides(rules, props, rules[n].action) /\ Heard(rules, props) = HeardBefore(rules, props, n + 1)
      BY <2>1, FirstDecides
    <2>3. q.verdict = rules[n].action /\ q.verdict # "maybe" /\ q.next = Len(rules) + 1
      BY <1>2, <1>4
    <2>4. Done(rules, q)
      BY <1>3, <2>2, <2>3 DEF Done
    <2> QED
      BY <1>9, <2>3, <2>4 DEF MatchOf
  <1>5. CASE ~ (holds /\ rule.action # "")
    <2>1. q.next = n + 1 /\ q.verdict = "maybe"
      BY <1>5
    <2>2. n \notin Acting(rules, props)
      BY <1>1, <1>5
    <2>3. ASSUME NEW j \in Acting(rules, props)
          PROVE  n + 1 <= j
      <3>1. n <= j /\ j # n /\ j \in Nat
        BY <1>1, <2>2 DEF Passed
      <3> QED
        BY <1>1, <3>1, NextPlace
    <2>4. Passed(rules, q)
      BY <1>3, <2>1, <2>3 DEF Passed
    <2> QED
      BY <1>9, <2>1, <2>4 DEF MatchOf
  <1> QED
    BY <1>4, <1>5

MatchInv == Started /\ Matched

LEMMA SameMatch ==
    ASSUME NEW rules, NEW r, NEW q, MatchOf(rules, r), q.at = r.at, q.props = r.props,
           q.next = r.next, q.told = r.told, q.verdict = r.verdict
    PROVE  MatchOf(rules, q)
  BY DEF MatchOf, Passed, Done

LEMMA MatchInitInv ==
    ASSUME Init
    PROVE  MatchInv
  <1>1. /\ config \in Configs /\ main = "compile" /\ compiled = 0 /\ analyzers = {}
        /\ stream = [s \in Streams |-> Unseen]
    BY DEF Init
  <1>2. Len(config.rules) \in Nat
    <2>1. config.rules \in Seq(Rule)
      BY <1>1, ConfigAssumption
    <2> QED
      BY <2>1
  <1>3. MatchOf(config.rules, Unseen)
    BY <1>2 DEF MatchOf, Unseen
  <1>4. Started
    BY <1>1, <1>2 DEF Started, Unseen
  <1> QED
    BY <1>1, <1>3, <1>4 DEF MatchInv, Matched

\* A worker's step, which is about its own stream.
LEMMA OneMatch ==
    ASSUME AllowInv, MatchInv, NEW s \in Streams, Working, Unaffected, NEW q, MatchOf(config.rules, q),
           stream' = [stream EXCEPT ![s] = q]
    PROVE  MatchInv'
  <1>1. UNCHANGED <<config, main, compiled, analyzers>> /\ main \notin {"compile", "fatal"}
    BY DEF Unaffected, Working, Ended
  <1>2. stream'[s] = q /\ \A u \in Streams \ {s} : stream'[u] = stream[u]
    BY DEF AllowInv
  <1>3. Started'
    BY <1>1 DEF MatchInv, Started, Compiles, Ended
  <1>4. ASSUME NEW u \in Streams
        PROVE  MatchOf(config.rules, stream'[u])
    BY <1>2 DEF MatchInv, Matched
  <1>5. Matched'
    BY <1>1, <1>4 DEF Matched
  <1> QED
    BY <1>3, <1>5 DEF MatchInv

LEMMA RulesType ==
    ASSUME IdentityInv
    PROVE  config.rules \in Seq(Rule) /\ Len(config.rules) \in Nat /\ DOMAIN config.rules = 1..Len(config.rules)
  <1>1. config.rules \in Seq(Rule)
    BY ConfigAssumption DEF IdentityInv
  <1> QED
    BY <1>1

LEMMA MatchEvaluate ==
    ASSUME IdentityInv, AllowInv, MatchInv, NEW s \in Streams, Evaluate(s)
    PROVE  MatchInv'
  <1> DEFINE r == stream[s]
             n == r.next
             rules == config.rules
             rule == rules[n]
             holds == n \in Holding(rules, r.props)
             acts == holds /\ rule.action # ""
  <1>1. Working /\ Unaffected /\ r.at = "match" /\ n <= Len(rules)
    BY DEF Evaluate
  <1>2. rules \in Seq(Rule) /\ Len(rules) \in Nat /\ DOMAIN rules = 1..Len(rules)
    BY RulesType
  <1>3. MatchOf(rules, r) /\ r \in StreamOf(SafeCalls) /\ stream \in [Streams -> StreamOf(SafeCalls)]
    BY DEF AllowInv, MatchInv, Matched
  <1>4. n \in 1..Len(rules) + 1 /\ (r.verdict # "maybe" => n = Len(rules) + 1)
        /\ (r.verdict = "maybe" => Passed(rules, r))
    BY <1>1, <1>3 DEF MatchOf
  <1>5. r.verdict = "maybe" /\ Passed(rules, r) /\ n \in DOMAIN rules /\ r.told \in Seq(STRING)
    <2>1. n \in DOMAIN rules /\ n # Len(rules) + 1
      BY <1>1, <1>2, <1>4
    <2> QED
      BY <1>3, <1>4, <2>1 DEF StreamOf
  <1>6. (Outcome(rule, r.props) = "true") <=> holds
    BY <1>5 DEF Holding
  <1> DEFINE next == IF acts THEN Len(rules) + 1 ELSE n + 1
             verdict == IF acts THEN rule.action ELSE "maybe"
             told == IF holds /\ rule.log THEN Append(r.told, rule.name) ELSE r.told
  <1>7. \E work : stream' = [stream EXCEPT ![s] =
                   [r EXCEPT !.work = work, !.told = told, !.next = next, !.verdict = verdict]]
    <2>1. CASE holds /\ rule.log
      <3>1. Log(s, rule)
        BY <1>6, <2>1 DEF Evaluate
      <3>2. \E work : stream' = [stream EXCEPT ![s].work = work, ![s].told = Append(@, rule.name),
                        ![s].next = IF rule.action = "" THEN @ + 1 ELSE Len(rules) + 1,
                        ![s].verdict = IF rule.action = "" THEN @ ELSE rule.action]
        BY <3>1 DEF Log
      <3>3. PICK work : stream' = [stream EXCEPT ![s].work = work, ![s].told = Append(@, rule.name),
                        ![s].next = IF rule.action = "" THEN @ + 1 ELSE Len(rules) + 1,
                        ![s].verdict = IF rule.action = "" THEN @ ELSE rule.action]
        BY <3>2
      <3>4. stream' = [stream EXCEPT ![s] =
                   [r EXCEPT !.work = work, !.told = told, !.next = next, !.verdict = verdict]]
        BY <1>3, <1>5, <2>1, <3>3
      <3> QED
        BY <3>4
    <2>2. CASE ~ (holds /\ rule.log)
      <3>1. stream' = [stream EXCEPT
                      ![s].next = IF holds /\ rule.action # "" THEN Len(rules) + 1 ELSE @ + 1,
                      ![s].verdict = IF holds /\ rule.action # "" THEN rule.action ELSE @]
        BY <1>6, <2>2 DEF Evaluate
      <3>2. stream' = [stream EXCEPT ![s] =
                   [r EXCEPT !.work = r.work, !.told = told, !.next = next, !.verdict = verdict]]
        BY <1>3, <1>5, <2>2, <3>1 DEF StreamOf
      <3> QED
        BY <3>2
    <2> QED
      BY <2>1, <2>2
  <1>8. PICK work : stream' = [stream EXCEPT ![s] =
                   [r EXCEPT !.work = work, !.told = told, !.next = next, !.verdict = verdict]]
    BY <1>7
  <1> DEFINE q == [r EXCEPT !.work = work, !.told = told, !.next = next, !.verdict = verdict]
  <1> HIDE DEF rules
  <1>9. q.at = "match" /\ q.props = r.props /\ q.told = told /\ q.next = next /\ q.verdict = verdict
    <2> HIDE DEF told, next, verdict
    <2> QED
      BY <1>1, <1>3 DEF StreamOf
  <1>10. MatchOf(rules, q)
    <2>1. /\ rules \in Seq(Rule) /\ Passed(rules, r) /\ r.next \in DOMAIN rules /\ r.told \in Seq(STRING)
          /\ q.at = "match" /\ q.props = r.props /\ rule = rules[r.next]
          /\ q.told = IF r.next \in Holding(rules, r.props) /\ rule.log THEN Append(r.told, rule.name) ELSE r.told
          /\ q.next = IF r.next \in Holding(rules, r.props) /\ rule.action # "" THEN Len(rules) + 1 ELSE r.next + 1
          /\ q.verdict = IF r.next \in Holding(rules, r.props) /\ rule.action # "" THEN rule.action ELSE "maybe"
      BY <1>2, <1>5, <1>9
    <2> HIDE DEF q, r, rule
    <2> QED
      BY <2>1, MatchRound
  <1>11. stream' = [stream EXCEPT ![s] = q]
    BY <1>8
  <1> HIDE DEF q
  <1> QED
    BY <1>1, <1>10, <1>11, OneMatch DEF rules

LEMMA MatchNewStream ==
    ASSUME IdentityInv, AllowInv, MatchInv, NEW s \in Streams, NewStream(s)
    PROVE  MatchInv'
  <1>1. Working /\ Unaffected /\ stream[s].at = "unseen"
    BY DEF NewStream
  <1>2. PICK packet : stream' = [stream EXCEPT ![s].at = "match", ![s].packet = packet,
                                               ![s].who = Enrich(entries, packet)]
    BY DEF NewStream
  <1> DEFINE who == Enrich(entries, packet)
             q == [stream[s] EXCEPT !.at = "match", !.packet = packet, !.who = who]
  <1> HIDE DEF who
  <1>3. stream \in [Streams -> StreamOf(SafeCalls)] /\ MatchOf(config.rules, stream[s])
    BY DEF AllowInv, MatchInv, Matched
  <1>4. stream' = [stream EXCEPT ![s] = q]
    BY <1>2, <1>3 DEF who
  <1>5. stream[s].next = 1 /\ stream[s].told = <<>> /\ stream[s].verdict = "maybe"
    BY <1>1, <1>3 DEF MatchOf
  <1>6. q.at = "match" /\ q.next = 1 /\ q.told = <<>> /\ q.verdict = "maybe"
    BY <1>3, <1>5 DEF StreamOf
  <1> HIDE DEF q
  <1>7. MatchOf(config.rules, q)
    BY <1>6, RulesType, MatchStarts
  <1> QED
    BY <1>1, <1>4, <1>7, OneMatch

LEMMA MatchLearn ==
    ASSUME IdentityInv, AllowInv, MatchInv, NEW s \in Streams, Learn(s)
    PROVE  MatchInv'
  <1>1. Working /\ Unaffected /\ stream[s].at = "idle"
    BY DEF Learn
  <1>2. PICK an, value : stream' = [stream EXCEPT ![s].at = "match", ![s].props[an] = value,
                                                  ![s].next = 1, ![s].told = <<>>]
    BY DEF Learn
  <1> DEFINE props == [stream[s].props EXCEPT ![an] = value]
             q == [stream[s] EXCEPT !.at = "match", !.props = props, !.next = 1, !.told = <<>>]
  <1>3. stream \in [Streams -> StreamOf(SafeCalls)] /\ MatchOf(config.rules, stream[s])
    BY DEF AllowInv, MatchInv, Matched
  <1>4. stream' = [stream EXCEPT ![s] = q]
    BY <1>2, <1>3
  <1>5. stream[s].verdict = "maybe"
    BY <1>1, <1>3 DEF MatchOf
  <1> HIDE DEF props
  <1>6. q.at = "match" /\ q.next = 1 /\ q.told = <<>> /\ q.verdict = "maybe"
    BY <1>3, <1>5 DEF StreamOf
  <1> HIDE DEF q
  <1>7. MatchOf(config.rules, q)
    BY <1>6, RulesType, MatchStarts
  <1> QED
    BY <1>1, <1>4, <1>7, OneMatch

LEMMA MatchReturn ==
    ASSUME IdentityInv, AllowInv, MatchInv, NEW s \in Streams, Return(s)
    PROVE  MatchInv'
  <1> DEFINE r == stream[s]
             rules == config.rules
             q == [r EXCEPT !.at = IF r.verdict = "maybe" THEN "idle" ELSE "settled"]
  <1>1. Working /\ Unaffected /\ r.at = "match" /\ r.next > Len(rules)
        /\ stream' = [stream EXCEPT ![s] = q]
    BY DEF Return, AllowInv
  <1>2. stream \in [Streams -> StreamOf(SafeCalls)] /\ MatchOf(rules, r)
    BY DEF AllowInv, MatchInv, Matched
  <1>3. r.next = Len(rules) + 1
    BY <1>1, <1>2, RulesType DEF MatchOf
  <1>4. Done(rules, r)
    <2>1. CASE r.verdict = "maybe"
      <3>1. Passed(rules, r)
        BY <1>1, <1>2, <2>1 DEF MatchOf
      <3>2. /\ \A j \in Acting(rules, r.props) : Len(rules) + 1 <= j
            /\ NamesOf(rules, r.told, HeardBefore(rules, r.props, Len(rules) + 1))
        BY <1>3, <3>1 DEF Passed
      <3>3. rules \in Seq(Rule)
        BY RulesType
      <3>4. /\ Decides(rules, r.props, "maybe")
            /\ Heard(rules, r.props) = HeardBefore(rules, r.props, Len(rules) + 1)
        BY <3>2, <3>3, NoneDecides
      <3> QED
        BY <2>1, <3>2, <3>4 DEF Done
    <2>2. CASE r.verdict # "maybe"
      BY <1>1, <1>2, <2>2 DEF MatchOf
    <2> QED
      BY <2>1, <2>2
  <1>5. /\ q.at = (IF r.verdict = "maybe" THEN "idle" ELSE "settled") /\ q.props = r.props
        /\ q.next = r.next /\ q.told = r.told /\ q.verdict = r.verdict
    BY <1>2 DEF StreamOf
  <1> HIDE DEF q
  <1>6. MatchOf(rules, q)
    <2>1. Done(rules, q)
      BY <1>4, <1>5 DEF Done
    <2>2. q.next \in 1..Len(rules) + 1
      BY <1>2, <1>5 DEF MatchOf
    <2> QED
      BY <1>5, <2>1, <2>2 DEF MatchOf
  <1> QED
    BY <1>1, <1>6, OneMatch

\* A step that only changes what is left to call.
LEMMA MatchCall ==
    ASSUME AllowInv, MatchInv, NEW s \in Streams, Tell(s) \/ AddRisk(s)
    PROVE  MatchInv'
  <1>1. Working /\ Unaffected /\ \E work : stream' = [stream EXCEPT ![s].work = work]
    <2>1. CASE Tell(s)
      BY <2>1 DEF Tell, AllowInv
    <2>2. CASE AddRisk(s)
      <3>1. PICK alert, response : stream' = [stream EXCEPT ![s].work = alert \o response \o Tail(@)]
        BY <2>2 DEF AddRisk
      <3>2. stream' = [stream EXCEPT ![s].work = alert \o response \o Tail(stream[s].work)]
        BY <3>1 DEF AllowInv
      <3> QED
        BY <2>2, <3>2 DEF AddRisk
    <2> QED
      BY <2>1, <2>2
  <1>2. PICK work : stream' = [stream EXCEPT ![s].work = work]
    BY <1>1
  <1> DEFINE q == [stream[s] EXCEPT !.work = work]
  <1>3. stream \in [Streams -> StreamOf(SafeCalls)] /\ MatchOf(config.rules, stream[s])
    BY DEF AllowInv, MatchInv, Matched
  <1>4. stream' = [stream EXCEPT ![s] = q]
    BY <1>2, <1>3
  <1>5. /\ q.at = stream[s].at /\ q.props = stream[s].props /\ q.next = stream[s].next
        /\ q.told = stream[s].told /\ q.verdict = stream[s].verdict
    BY <1>3 DEF StreamOf
  <1> HIDE DEF q
  <1>6. MatchOf(config.rules, q)
    BY <1>3, <1>5, SameMatch
  <1> QED
    BY <1>1, <1>4, <1>6, OneMatch

\* A step of main before the program runs: no stream has been seen.
LEMMA MatchStarting ==
    ASSUME IdentityInv, MatchInv, Compile \/ Run \/ Shutdown
    PROVE  MatchInv'
  <1>1. UNCHANGED <<config, stream>> /\ config.rules \in Seq(Rule) /\ Len(config.rules) \in Nat
    BY RulesType DEF Compile, Run, Shutdown, hitVars
  <1>2. Matched'
    BY <1>1 DEF MatchInv, Matched
  <1>3. CASE Compile
    <2> DEFINE rule == config.rules[compiled + 1]
    <2>1. main = "compile" /\ compiled < Len(config.rules) /\ compiled \in Nat
          /\ \A s \in Streams : stream[s].at = "unseen"
      BY <1>1, <1>3 DEF Compile, MatchInv, Started
    <2>2. CASE Compiles(rule)
      <3>1. compiled' = compiled + 1 /\ main' = main /\ analyzers' = analyzers \cup {rule.analyzer}
        BY <1>3, <2>2 DEF Compile
      <3>2. rule.analyzer \in Analyzers
        BY <2>2 DEF Compiles
      <3>3. \A j \in 1..compiled + 1 : j \in 1..compiled \/ j = compiled + 1
        BY <2>1
      <3>4. \A j \in 1..compiled' : Compiles(config.rules[j]) /\ config.rules[j].analyzer \in analyzers'
        BY <2>2, <3>1, <3>3 DEF MatchInv, Started
      <3>5. compiled' \in 0..Len(config.rules)
        BY <1>1, <2>1, <3>1
      <3>6. analyzers' \subseteq Analyzers
        BY <3>1, <3>2 DEF MatchInv, Started
      <3>7. Started'
        BY <1>1, <2>1, <3>1, <3>4, <3>5, <3>6 DEF Started, Compiles
      <3> QED
        BY <1>2, <3>7 DEF MatchInv
    <2>3. CASE ~ Compiles(rule)
      <3>1. main' = "fatal" /\ UNCHANGED <<compiled, analyzers>>
        BY <1>3, <2>3 DEF Compile
      <3>2. Started'
        BY <1>1, <2>1, <3>1 DEF MatchInv, Started, Compiles, Ended
      <3> QED
        BY <1>2, <3>2 DEF MatchInv
    <2> QED
      BY <2>2, <2>3
  <1>4. CASE Run
    <2>1. main' = "run" /\ compiled = Len(config.rules) /\ UNCHANGED <<compiled, analyzers>>
      BY <1>4 DEF Run
    <2>2. Started'
      BY <1>1, <2>1 DEF MatchInv, Started, Compiles
    <2> QED
      BY <1>2, <2>2 DEF MatchInv
  <1>5. CASE Shutdown
    <2>1. /\ main \in {"run", "closeResponse", "closeAlert", "closeIdentity"}
          /\ main' \in {"closeResponse", "closeAlert", "closeIdentity", "exited"}
          /\ UNCHANGED <<compiled, analyzers>>
      BY <1>5 DEF Shutdown, Returned, Following
    <2>2. Started'
      BY <1>1, <2>1 DEF MatchInv, Started, Compiles, Ended
    <2> QED
      BY <1>2, <2>2 DEF MatchInv
  <1> QED
    BY <1>3, <1>4, <1>5

LEMMA MatchStep ==
    ASSUME IdentityInv, AllowInv, MatchInv, [Next]_vars
    PROVE  MatchInv'
  <1>1. CASE UNCHANGED <<config, main, compiled, analyzers, stream>>
    BY <1>1 DEF MatchInv, Started, Matched, Compiles
  <1>2. ASSUME NEW s \in Streams, Worker(s)
        PROVE  MatchInv'
    BY <1>2, MatchNewStream, MatchLearn, MatchEvaluate, MatchReturn, MatchCall DEF Worker
  <1>3. CASE Compile \/ Run \/ Shutdown
    BY <1>3, MatchStarting
  <1>4. ASSUME NEW k \in Sinks, Goroutine(k)
        PROVE  MatchInv'
    BY <1>1, <1>4 DEF Goroutine, Take, Finish, Stop, Unaffected
  <1>5. CASE Inventory
    BY <1>1, <1>5 DEF Inventory, hitVars, Change, RefreshStep, Tick, ListDomains, DumpDomain,
                      Store, RefreshStops
  <1>6. CASE UNCHANGED vars
    BY <1>1, <1>6 DEF vars, hitVars
  <1> QED
    BY <1>2, <1>3, <1>4, <1>5, <1>6 DEF Next

LEMMA RulesFollow ==
    ASSUME IdentityInv, MatchInv
    PROVE  RulesHold
  <1>1. ASSUME NEW s \in Streams, stream[s].at # "unseen", NEW j \in DOMAIN config.rules
        PROVE  Compiles(config.rules[j]) /\ config.rules[j].analyzer \in analyzers
    <2>1. compiled = Len(config.rules) /\ j \in 1..compiled
      BY <1>1, RulesType DEF MatchInv, Started
    <2> QED
      BY <2>1 DEF MatchInv, Started
  <1>2. FirstActionWins
    BY DEF FirstActionWins, MatchInv, Matched, MatchOf, Done
  <1> QED
    BY <1>1, <1>2 DEF RulesHold, RulesCanSee

\* Whatever the rules and whatever the analyzers report: a stream runs with
\* valid rules that see every analyzer they ask for, a finished match has the
\* verdict of the first true rule with an action, and has told exactly the true
\* rules with log up to that one, each once and in the order of the file
\* (CompileExprRules, exprRuleset.Match).
THEOREM RulesAlwaysHold == Spec => []RulesHold
  <1>1. Init => IdentityInv /\ AllowInv /\ MatchInv
    BY IdentityInitInv, AllowInitInv, MatchInitInv
  <1>2. IdentityInv /\ AllowInv /\ MatchInv /\ [Next]_vars => (IdentityInv /\ AllowInv /\ MatchInv)'
    BY IdentityStep, AllowStep, MatchStep
  <1>3. Spec => [](IdentityInv /\ AllowInv /\ MatchInv)
    BY <1>1, <1>2, PTL DEF Spec
  <1> QED
    BY <1>3, RulesFollow, PTL

-----------------------------------------------------------------------------
(***************************************************************************)
(* Who is told.  Every alert is one of those still to be queued, or was    *)
(* sent: queued, in hand, posted or counted as lost.  The calls left of a  *)
(* hit begin with its alert, and no risk is reported of a hit whose risk   *)
(* still has to be added.                                                  *)
(***************************************************************************)
Call == [to : Sinks \cup {"risk"}, event : Events]

AlertsIn(work) == {c.event : c \in {c \in ToSet(work) : c.to = "alert"}}
Pending == UNION {AlertsIn(stream[s].work) : s \in Streams}
Queued == Taken("alert")
Sent == ToSet(Queued) \cup lost["alert"].dropped \cup lost["alert"].discarded
Alerts == Sent \cup Pending

\* An event may come before another one of its stream.
Before(e, f) == e.hit < f.hit \/ (e.hit = f.hit /\ e.kind = "hit")

InOrder(queued) ==
    \A i, j \in DOMAIN queued :
        i < j /\ queued[i].stream = queued[j].stream => Before(queued[i], queued[j])

\* The calls left of a hit of stream s: all of one hit, of those up to "hits".
WorkOf(s, work, queued, alerts, hits) ==
    /\ \A i \in DOMAIN work : work[i].event.stream = s /\ work[i].event.hit <= hits
    /\ \A i, j \in DOMAIN work : work[i].event.hit = work[j].event.hit
    /\ \A i \in DOMAIN work : work[i].to = "alert" => i = 1
    /\ \A i \in DOMAIN work : work[i].to = "risk" =>
          /\ work[i].event.kind = "hit"
          /\ i = 1 \/ (i = 2 /\ work[1].to = "alert" /\ work[1].event.kind = "hit")
          /\ \A e \in alerts : ~ (e.stream = s /\ e.hit = work[i].event.hit /\ e.kind = "risk")
    /\ \A i \in DOMAIN work : work[i].to # "response" =>
          \A j \in DOMAIN queued : queued[j].stream = s => Before(queued[j], work[i].event)

Hidden(alerts) == {e \in alerts : e.kind = "suppressed"}

Accounts ==
    config.alert > 0 =>
        /\ ruleHits + crossings.alerts = quiet + Cardinality(Alerts)
        /\ suppressed = quiet + Cardinality(Hidden(Alerts))

AlertInv ==
    /\ \A s \in Streams : WorkOf(s, stream[s].work, Queued, Alerts, ruleHits)
    /\ IsFiniteSet(Alerts) /\ Alerts \subseteq Events /\ \A e \in Alerts : e.hit <= ruleHits
    /\ Pending \cap Sent = {}
    /\ Len(Queued) = Cardinality(ToSet(Queued)) /\ InOrder(Queued)
    /\ Accounts
    /\ quiet \in Nat /\ suppressed \in Nat /\ crossings.alerts \in Nat

LEMMA CallTypes ==
    ASSUME NEW work \in Seq(Call)
    PROVE  /\ Len(work) \in Nat /\ DOMAIN work = 1..Len(work)
           /\ \A i \in DOMAIN work : /\ i \in Nat /\ i >= 1 /\ work[i] \in Call
                                     /\ work[i].event \in Events /\ work[i].event.hit \in Nat
                                     /\ work[i].to \in {"alert", "risk", "response"}
  <1>1. Len(work) \in Nat /\ DOMAIN work = 1..Len(work)
    OBVIOUS
  <1>2. ASSUME NEW i \in DOMAIN work
        PROVE  i \in Nat /\ i >= 1 /\ work[i] \in Call
    BY <1>1
  <1>3. ASSUME NEW c \in Call
        PROVE  c.event \in Events /\ c.event.hit \in Nat /\ c.to \in {"alert", "risk", "response"}
    BY DEF Call, Events, Sinks
  <1> QED
    BY <1>1, <1>2, <1>3

LEMMA InAlerts ==
    ASSUME NEW work, NEW e
    PROVE  e \in AlertsIn(work) <=> \E i \in DOMAIN work : work[i].to = "alert" /\ work[i].event = e
  BY DEF AlertsIn, ToSet

\* Calls left stay in order when what others send or have to send is added.
LEMMA WorkStays ==
    ASSUME NEW s, NEW work \in Seq(Call), NEW queued, NEW alerts, NEW hits \in Nat,
           WorkOf(s, work, queued, alerts, hits),
           NEW queued2, NEW alerts2, NEW hits2 \in Nat, hits <= hits2,
           \A e \in alerts2 : e \in alerts \/ e.stream # s,
           \A j \in DOMAIN queued2 : queued2[j].stream = s => \E i \in DOMAIN queued : queued[i] = queued2[j]
    PROVE  WorkOf(s, work, queued2, alerts2, hits2)
  <1>1. \A i \in DOMAIN work : work[i].event.hit \in Nat
    BY CallTypes
  <1>2. \A i \in DOMAIN work : work[i].event.stream = s /\ work[i].event.hit <= hits2
    BY <1>1 DEF WorkOf
  <1>3. ASSUME NEW i \in DOMAIN work, work[i].to = "risk"
        PROVE  \A e \in alerts2 : ~ (e.stream = s /\ e.hit = work[i].event.hit /\ e.kind = "risk")
    BY <1>3 DEF WorkOf
  <1>4. ASSUME NEW i \in DOMAIN work, work[i].to # "response", NEW j \in DOMAIN queued2, queued2[j].stream = s
        PROVE  Before(queued2[j], work[i].event)
    <2>1. PICK k \in DOMAIN queued : queued[k] = queued2[j]
      BY <1>4
    <2> QED
      BY <1>4, <2>1 DEF WorkOf
  <1> QED
    BY <1>2, <1>3, <1>4 DEF WorkOf

\* An event that may come after all of its stream keeps the order.
LEMMA OrderStays ==
    ASSUME NEW queued \in Seq(Events), InOrder(queued), NEW e \in Events,
           \A j \in DOMAIN queued : queued[j].stream = e.stream => Before(queued[j], e)
    PROVE  InOrder(Append(queued, e))
  <1> DEFINE more == Append(queued, e)
  <1>1. /\ Len(queued) \in Nat /\ DOMAIN queued = 1..Len(queued) /\ DOMAIN more = 1..Len(queued) + 1
        /\ more[Len(queued) + 1] = e /\ \A i \in 1..Len(queued) : more[i] = queued[i]
    BY AppendProperties
  <1> HIDE DEF more
  <1>2. ASSUME NEW i \in DOMAIN more, NEW j \in DOMAIN more, i < j, more[i].stream = more[j].stream
        PROVE  Before(more[i], more[j])
    <2>1. i \in DOMAIN queued /\ more[i] = queued[i]
      BY <1>1, <1>2
    <2>2. CASE j = Len(queued) + 1
      BY <1>1, <1>2, <2>1, <2>2
    <2>3. CASE j # Len(queued) + 1
      <3>1. j \in DOMAIN queued /\ more[j] = queued[j]
        BY <1>1, <2>3
      <3> QED
        BY <1>2, <2>1, <3>1 DEF InOrder
    <2> QED
      BY <2>2, <2>3
  <1>3. InOrder(more)
    BY <1>2 DEF InOrder
  <1> QED
    BY <1>3 DEF more

LEMMA SetOfAppend ==
    ASSUME NEW queued \in Seq(Events), NEW e \in Events
    PROVE  /\ ToSet(Append(queued, e)) = ToSet(queued) \cup {e}
           /\ \A j \in DOMAIN Append(queued, e) :
                 Append(queued, e)[j] = e \/ \E i \in DOMAIN queued : queued[i] = Append(queued, e)[j]
           /\ Len(Append(queued, e)) = Len(queued) + 1
  <1> DEFINE more == Append(queued, e)
  <1>1. /\ Len(queued) \in Nat /\ DOMAIN queued = 1..Len(queued) /\ DOMAIN more = 1..Len(queued) + 1
        /\ more[Len(queued) + 1] = e /\ \A i \in 1..Len(queued) : more[i] = queued[i]
        /\ Len(more) = Len(queued) + 1
    BY AppendProperties
  <1> HIDE DEF more
  <1>2. \A j \in DOMAIN more : more[j] = e \/ \E i \in DOMAIN queued : queued[i] = more[j]
    <2>1. \A j \in 1..Len(queued) + 1 : j = Len(queued) + 1 \/ j \in 1..Len(queued)
      BY <1>1
    <2> QED
      BY <1>1, <2>1
  <1>3. \A x : x \in ToSet(more) <=> x \in ToSet(queued) \/ x = e
    <2>1. Len(queued) + 1 \in DOMAIN more /\ 1..Len(queued) \subseteq DOMAIN more
      BY <1>1
    <2> QED
      BY <1>1, <1>2, <2>1 DEF ToSet
  <1> QED
    BY <1>1, <1>2, <1>3 DEF more

\* One more alert.
LEMMA OneMoreAlert ==
    ASSUME NEW alerts, IsFiniteSet(alerts), NEW e, e \notin alerts
    PROVE  /\ IsFiniteSet(alerts \cup {e}) /\ Cardinality(alerts) \in Nat
           /\ Cardinality(alerts \cup {e}) = Cardinality(alerts) + 1
           /\ Cardinality(Hidden(alerts)) \in Nat
           /\ Cardinality(Hidden(alerts \cup {e})) =
                 IF e.kind = "suppressed" THEN Cardinality(Hidden(alerts)) + 1 ELSE Cardinality(Hidden(alerts))
  <1>1. /\ IsFiniteSet(alerts \cup {e}) /\ Cardinality(alerts) \in Nat
        /\ Cardinality(alerts \cup {e}) = Cardinality(alerts) + 1
    BY FS_AddElement, FS_CardinalityType
  <1>2. IsFiniteSet(Hidden(alerts)) /\ e \notin Hidden(alerts)
    BY FS_Subset DEF Hidden
  <1>3. Cardinality(Hidden(alerts)) \in Nat /\ Cardinality(Hidden(alerts) \cup {e}) = Cardinality(Hidden(alerts)) + 1
    BY <1>2, FS_AddElement, FS_CardinalityType
  <1>4. e.kind = "suppressed" => Hidden(alerts \cup {e}) = Hidden(alerts) \cup {e}
    BY DEF Hidden
  <1>5. e.kind # "suppressed" => Hidden(alerts \cup {e}) = Hidden(alerts)
    BY DEF Hidden
  <1> QED
    BY <1>1, <1>3, <1>4, <1>5

\* One sequence behind another.
LEMMA Joined ==
    ASSUME NEW S, NEW a \in Seq(S), NEW b \in Seq(S)
    PROVE  /\ a \o b \in Seq(S) /\ Len(a \o b) = Len(a) + Len(b) /\ DOMAIN (a \o b) = 1..Len(a) + Len(b)
           /\ \A i \in 1..Len(a) : (a \o b)[i] = a[i]
           /\ \A i \in 1..Len(b) : (a \o b)[Len(a) + i] = b[i]
  <1>1. Len(a) \in Nat /\ Len(b) \in Nat
    OBVIOUS
  <1> QED
    BY <1>1, ConcatProperties

\* Where an element of three sequences in a row is from.
LEMMA ThreeInARow ==
    ASSUME NEW S, NEW a \in Seq(S), NEW b \in Seq(S), NEW c \in Seq(S), NEW abc, abc = a \o b \o c
    PROVE  /\ abc \in Seq(S)
           /\ \A i \in DOMAIN a : i \in DOMAIN abc /\ abc[i] = a[i]
           /\ \A i \in DOMAIN b : Len(a) + i \in DOMAIN abc /\ abc[Len(a) + i] = b[i]
           /\ \A i \in DOMAIN abc :
                 \/ i \in DOMAIN a /\ abc[i] = a[i]
                 \/ \E j \in DOMAIN b : i = Len(a) + j /\ abc[i] = b[j]
                 \/ \E j \in DOMAIN c : i = Len(a) + Len(b) + j /\ abc[i] = c[j]
  <1> DEFINE ab == a \o b
  <1>1. /\ Len(a) \in Nat /\ Len(b) \in Nat /\ Len(c) \in Nat
        /\ DOMAIN a = 1..Len(a) /\ DOMAIN b = 1..Len(b) /\ DOMAIN c = 1..Len(c)
    OBVIOUS
  <1>2. /\ ab \in Seq(S) /\ Len(ab) = Len(a) + Len(b) /\ DOMAIN ab = 1..Len(a) + Len(b)
        /\ \A i \in 1..Len(a) : ab[i] = a[i]
        /\ \A i \in 1..Len(b) : ab[Len(a) + i] = b[i]
    BY Joined
  <1> HIDE DEF ab
  <1>3. /\ ab \o c \in Seq(S) /\ DOMAIN (ab \o c) = 1..Len(a) + Len(b) + Len(c)
        /\ \A i \in 1..Len(a) + Len(b) : (ab \o c)[i] = ab[i]
        /\ \A i \in 1..Len(c) : (ab \o c)[Len(a) + Len(b) + i] = c[i]
    <2>1. ab \in Seq(S)
      BY <1>2
    <2>2. /\ ab \o c \in Seq(S) /\ DOMAIN (ab \o c) = 1..Len(ab) + Len(c)
          /\ \A i \in 1..Len(ab) : (ab \o c)[i] = ab[i]
          /\ \A i \in 1..Len(c) : (ab \o c)[Len(ab) + i] = c[i]
      BY <2>1, Joined
    <2>3. Len(ab) = Len(a) + Len(b)
      BY <1>2
    <2> QED
      BY <2>2, <2>3, Zenon
  <1>4. abc = ab \o c
    BY DEF ab
  <1>5. /\ abc \in Seq(S) /\ DOMAIN abc = 1..Len(a) + Len(b) + Len(c)
        /\ \A i \in 1..Len(a) + Len(b) : abc[i] = ab[i]
        /\ \A i \in 1..Len(c) : abc[Len(a) + Len(b) + i] = c[i]
    BY <1>3, <1>4
  <1>6. ASSUME NEW i \in DOMAIN abc
        PROVE  \/ i \in DOMAIN a /\ abc[i] = a[i]
               \/ \E j \in DOMAIN b : i = Len(a) + j /\ abc[i] = b[j]
               \/ \E j \in DOMAIN c : i = Len(a) + Len(b) + j /\ abc[i] = c[j]
    <2>1. CASE i <= Len(a)
      BY <1>1, <1>2, <1>5, <2>1
    <2>2. CASE i > Len(a) /\ i <= Len(a) + Len(b)
      <3>1. i - Len(a) \in 1..Len(b) /\ i = Len(a) + (i - Len(a)) /\ i \in 1..Len(a) + Len(b)
        BY <1>1, <1>5, <2>2
      <3> QED
        BY <1>1, <1>2, <1>5, <3>1
    <2>3. CASE i > Len(a) + Len(b)
      <3>1. i - (Len(a) + Len(b)) \in 1..Len(c) /\ i = Len(a) + Len(b) + (i - (Len(a) + Len(b)))
        BY <1>1, <1>5, <2>3
      <3> QED
        BY <1>1, <1>5, <3>1
    <2> QED
      BY <1>1, <1>5, <2>1, <2>2, <2>3
  <1>7. \A i \in DOMAIN a : i \in DOMAIN abc /\ abc[i] = a[i]
    BY <1>1, <1>2, <1>5
  <1>8. \A i \in DOMAIN b : Len(a) + i \in DOMAIN abc /\ abc[Len(a) + i] = b[i]
    BY <1>1, <1>2, <1>5
  <1> QED
    BY <1>5, <1>6, <1>7, <1>8

LEMMA AlertTypes ==
    ASSUME AllowInv
    PROVE  /\ \A s \in Streams : stream[s].work \in Seq(Call)
           /\ Queued \in Seq(Events) /\ ToSet(Queued) \subseteq Events /\ ruleHits \in Nat
  <1>1. SafeCalls \subseteq Call
    BY DEF SafeCalls, Call
  <1>2. Seq(SafeCalls) \subseteq Seq(Call)
    BY <1>1, SeqMonotone
  <1>3. \A s \in Streams : stream[s].work \in Seq(Call)
    BY <1>2 DEF AllowInv, StreamOf
  <1> DEFINE r == sink["alert"]
  <1>4. r.served \in Seq(Events) /\ r.busy \in Seq(Events) /\ r.queue \in Seq(Events)
    <2>1. "alert" \in Sinks /\ sink \in [Sinks -> SinkOf(Events)]
      BY DEF AllowInv, Sinks
    <2> QED
      BY <2>1 DEF SinkOf
  <1> HIDE DEF r
  <1>5. r.served \o r.busy \o r.queue \in Seq(Events)
    BY <1>4, ConcatProperties
  <1>6. Queued \in Seq(Events)
    BY <1>5 DEF Queued, Taken, r
  <1> HIDE DEF Queued
  <1>7. ToSet(Queued) \subseteq Events
    BY <1>6 DEF ToSet
  <1> QED
    BY <1>3, <1>6, <1>7 DEF AllowInv

Others(s) == UNION {AlertsIn(stream[u].work) : u \in Streams \ {s}}

\* What is pending is what a stream has pending and what the others have.
LEMMA PendingSplit ==
    ASSUME AllowInv, AlertInv, NEW s \in Streams
    PROVE  /\ Pending = Others(s) \cup AlertsIn(stream[s].work)
           /\ \A e \in Others(s) : e.stream # s
           /\ \A e \in AlertsIn(stream[s].work) : e.stream = s
  <1>1. ASSUME NEW u \in Streams, NEW e \in AlertsIn(stream[u].work)
        PROVE  e.stream = u
    <2>1. PICK i \in DOMAIN stream[u].work : stream[u].work[i].event = e
      BY InAlerts
    <2>2. WorkOf(u, stream[u].work, Queued, Alerts, ruleHits)
      BY DEF AlertInv
    <2> QED
      BY <2>1, <2>2 DEF WorkOf
  <1>2. Pending = Others(s) \cup AlertsIn(stream[s].work)
    BY DEF Pending, Others
  <1>3. ASSUME NEW e \in Others(s)
        PROVE  e.stream # s
    <2>1. PICK u \in Streams \ {s} : e \in AlertsIn(stream[u].work)
      BY DEF Others
    <2> QED
      BY <1>1, <2>1
  <1> QED
    BY <1>1, <1>2, <1>3

LEMMA PendingThen ==
    ASSUME AllowInv, NEW s \in Streams, NEW r, stream' = [stream EXCEPT ![s] = r]
    PROVE  Pending' = Others(s) \cup AlertsIn(r.work)
  <1>1. stream'[s] = r /\ \A u \in Streams \ {s} : stream'[u] = stream[u]
    BY DEF AllowInv
  <1>2. Pending' = UNION {AlertsIn(stream'[u].work) : u \in Streams}
    BY DEF Pending
  <1>3. ASSUME NEW e
        PROVE  e \in UNION {AlertsIn(stream'[u].work) : u \in Streams} <=> e \in Others(s) \cup AlertsIn(r.work)
    <2>1. e \in UNION {AlertsIn(stream'[u].work) : u \in Streams} <=> \E u \in Streams : e \in AlertsIn(stream'[u].work)
      OBVIOUS
    <2>2. e \in Others(s) <=> \E u \in Streams \ {s} : e \in AlertsIn(stream[u].work)
      BY DEF Others
    <2>3. (\E u \in Streams : e \in AlertsIn(stream'[u].work)) <=>
             (\E u \in Streams \ {s} : e \in AlertsIn(stream[u].work)) \/ e \in AlertsIn(r.work)
      BY <1>1
    <2> QED
      BY <2>1, <2>2, <2>3
  <1> QED
    BY <1>2, <1>3

\* A step of one stream leaves the calls of the others in order.
LEMMA WorksThen ==
    ASSUME AllowInv, AlertInv, NEW s \in Streams, NEW r, stream' = [stream EXCEPT ![s] = r],
           ruleHits' \in Nat, ruleHits <= ruleHits',
           \A e \in Alerts' : e \in Alerts \/ e.stream = s,
           \A j \in DOMAIN Queued' : Queued'[j].stream = s \/ \E i \in DOMAIN Queued : Queued[i] = Queued'[j],
           WorkOf(s, r.work, Queued', Alerts', ruleHits')
    PROVE  \A u \in Streams : WorkOf(u, stream'[u].work, Queued', Alerts', ruleHits')
  <1>1. stream'[s] = r /\ \A u \in Streams \ {s} : stream'[u] = stream[u]
    BY DEF AllowInv
  <1>2. ASSUME NEW u \in Streams \ {s}
        PROVE  WorkOf(u, stream[u].work, Queued', Alerts', ruleHits')
    <2>1. WorkOf(u, stream[u].work, Queued, Alerts, ruleHits) /\ stream[u].work \in Seq(Call) /\ ruleHits \in Nat
      BY AlertTypes DEF AlertInv
    <2>2. \A e \in Alerts' : e \in Alerts \/ e.stream # u
      OBVIOUS
    <2>3. \A j \in DOMAIN Queued' : Queued'[j].stream = u => \E i \in DOMAIN Queued : Queued[i] = Queued'[j]
      OBVIOUS
    <2> QED
      BY <2>1, <2>2, <2>3, WorkStays
  <1> QED
    BY <1>1, <1>2

\* A step that neither sends nor leaves anything to be sent.
LEMMA AlertSame ==
    ASSUME AlertInv, UNCHANGED <<config, lost, ruleHits, suppressed, quiet, crossings>>, Queued' = Queued,
           \A u \in Streams : stream'[u].work = stream[u].work
    PROVE  AlertInv'
  <1>1. Pending' = Pending
    <2>1. Pending' = UNION {AlertsIn(stream'[u].work) : u \in Streams}
      BY DEF Pending
    <2> QED
      BY <2>1 DEF Pending
  <1>2. Sent' = Sent
    BY DEF Sent
  <1>3. Alerts' = Alerts
    BY <1>1, <1>2 DEF Alerts
  <1> QED
    BY <1>1, <1>2, <1>3 DEF AlertInv, Accounts

LEMMA AlertInitInv ==
    ASSUME Init
    PROVE  AlertInv
  <1>1. /\ config \in Configs /\ stream = [s \in Streams |-> Unseen] /\ sink = [k \in Sinks |-> IdleSink(config[k])]
        /\ lost = [k \in Sinks |-> [dropped |-> {}, discarded |-> {}]]
        /\ ruleHits = 0 /\ suppressed = 0 /\ quiet = 0 /\ crossings = [all |-> 0, alerts |-> 0]
    BY DEF Init
  <1>2. \A s \in Streams : stream[s].work = <<>>
    BY <1>1 DEF Unseen
  <1>3. Pending = {}
    BY <1>2 DEF Pending, AlertsIn, ToSet
  <1>4. Queued = <<>>
    <2>1. sink["alert"].served = <<>> /\ sink["alert"].busy = <<>> /\ sink["alert"].queue = <<>>
      BY <1>1 DEF IdleSink, Sinks
    <2>2. <<>> \o <<>> = <<>>
      OBVIOUS
    <2> QED
      BY <2>1, <2>2 DEF Queued, Taken
  <1>5. ToSet(Queued) = {} /\ Len(Queued) = 0
    BY <1>4 DEF ToSet
  <1>6. Sent = {}
    BY <1>1, <1>5 DEF Sent, Sinks
  <1>7. Alerts = {} /\ IsFiniteSet(Alerts) /\ Cardinality({}) = 0
    BY <1>3, <1>6, FS_EmptySet DEF Alerts
  <1>8. Hidden(Alerts) = {}
    BY <1>7 DEF Hidden
  <1>9. Accounts
    <2>1. Cardinality(Alerts) = 0 /\ Cardinality(Hidden(Alerts)) = 0 /\ crossings.alerts = 0
      BY <1>1, <1>7, <1>8
    <2>2. ruleHits + crossings.alerts = quiet + Cardinality(Alerts)
      BY <1>1, <2>1
    <2>3. suppressed = quiet + Cardinality(Hidden(Alerts))
      BY <1>1, <2>1
    <2> QED
      BY <2>2, <2>3 DEF Accounts
  <1>10. InOrder(Queued)
    BY <1>4 DEF InOrder
  <1>11. \A s \in Streams : WorkOf(s, stream[s].work, Queued, Alerts, ruleHits)
    BY <1>2 DEF WorkOf
  <1> QED
    BY <1>1, <1>3, <1>5, <1>7, <1>9, <1>10, <1>11 DEF AlertInv

\* The calls a hit leads to: the alert, the risk, the response, all with the
\* same event; for a suppressed hit at most the alert.
LEMMA CallsAre ==
    ASSUME AllowInv, IdentityInv, NEW s \in Streams, NEW rule \in Rule, NEW e, NEW work,
           \/ e = Event(s, rule, "hit", ruleHits + 1) /\ work = Calls(s, rule)
           \/ e = Event(s, rule, "suppressed", ruleHits + 1) /\ work = SuppressedCalls(s, rule)
    PROVE  /\ e \in Events /\ work \in Seq(Call)
           /\ \A i \in DOMAIN work :
                 /\ work[i].event = e
                 /\ work[i].to = "alert" => i = 1
                 /\ work[i].to = "risk" => e.kind = "hit" /\ (i = 1 \/ (i = 2 /\ work[1].to = "alert"))
           /\ config.alert \in Nat
           /\ AlertsIn(work) = IF config.alert > 0 /\ (e.kind = "suppressed" => config.allow.webhook)
                               THEN {e} ELSE {}
           /\ e.kind = "suppressed" /\ ~ config.allow.webhook => work = <<>>
  <1>1. e \in Events
    BY EventType
  <1>2. <<>> \in Seq(Call) /\ config.alert \in Nat /\ config.response \in Nat
    <2>1. config \in Configs
      BY DEF IdentityInv
    <2>2. config.alert \in Nat /\ config.response \in Nat
      BY <2>1, ConfigAssumption
    <2>3. <<>> \in Seq(Call)
      OBVIOUS
    <2> QED
      BY <2>2, <2>3
  <1>3. ASSUME NEW to \in {"alert", "risk", "response"}
        PROVE  [to |-> to, event |-> e] \in Call
    BY <1>1 DEF Call, Sinks
  <1> DEFINE alert == IF config.alert > 0 THEN <<[to |-> "alert", event |-> e]>> ELSE <<>>
             risk == IF config.risk THEN <<[to |-> "risk", event |-> e]>> ELSE <<>>
             response == IF config.response > 0 /\ rule.severe THEN <<[to |-> "response", event |-> e]>> ELSE <<>>
  <1>4. /\ alert \in Seq(Call) /\ risk \in Seq(Call) /\ response \in Seq(Call)
        /\ \A i \in DOMAIN alert : i = 1 /\ alert[i].to = "alert" /\ alert[i].event = e
        /\ \A i \in DOMAIN risk : i = 1 /\ risk[i].to = "risk" /\ risk[i].event = e
        /\ \A i \in DOMAIN response : i = 1 /\ response[i].to = "response" /\ response[i].event = e
        /\ Len(alert) = (IF config.alert > 0 THEN 1 ELSE 0)
        /\ config.alert > 0 => 1 \in DOMAIN alert
    BY <1>2, <1>3
  <1>5. CASE e = Event(s, rule, "hit", ruleHits + 1) /\ work = Calls(s, rule)
    <2>1. work = alert \o risk \o response /\ e.kind = "hit"
      BY <1>5 DEF Calls, Event
    <2> HIDE DEF alert, risk, response
    <2>2. /\ work \in Seq(Call)
          /\ \A i \in DOMAIN alert : i \in DOMAIN work /\ work[i] = alert[i]
          /\ \A i \in DOMAIN work :
                 \/ i \in DOMAIN alert /\ work[i] = alert[i]
                 \/ \E j \in DOMAIN risk : i = Len(alert) + j /\ work[i] = risk[j]
                 \/ \E j \in DOMAIN response : i = Len(alert) + Len(risk) + j /\ work[i] = response[j]
      <3>1. alert \in Seq(Call) /\ risk \in Seq(Call) /\ response \in Seq(Call)
        BY <1>4
      <3>2. work = alert \o risk \o response
        BY <2>1
      <3>3. work \in Seq(Call) /\ \A i \in DOMAIN alert : i \in DOMAIN work /\ work[i] = alert[i]
        BY <3>1, <3>2, ThreeInARow
      <3>4. \A i \in DOMAIN work :
                 \/ i \in DOMAIN alert /\ work[i] = alert[i]
                 \/ \E j \in DOMAIN risk : i = Len(alert) + j /\ work[i] = risk[j]
                 \/ \E j \in DOMAIN response : i = Len(alert) + Len(risk) + j /\ work[i] = response[j]
        BY <3>1, <3>2, ThreeInARow
      <3> QED
        BY <3>3, <3>4
    <2>3. ASSUME NEW i \in DOMAIN work
          PROVE  /\ work[i].event = e
                 /\ work[i].to = "alert" => i = 1 /\ config.alert > 0
                 /\ work[i].to = "risk" => i = 1 \/ (i = 2 /\ work[1].to = "alert")
      <3>1. CASE i \in DOMAIN alert /\ work[i] = alert[i]
        BY <1>4, <3>1 DEF alert
      <3>2. CASE \E j \in DOMAIN risk : i = Len(alert) + j /\ work[i] = risk[j]
        <4>1. PICK j \in DOMAIN risk : i = Len(alert) + j /\ work[i] = risk[j]
          BY <3>2
        <4>2. j = 1 /\ work[i].to = "risk" /\ work[i].event = e
          BY <1>4, <4>1
        <4>3. CASE config.alert > 0
          <5>1. i = 2 /\ work[1].to = "alert"
            BY <1>4, <2>2, <4>1, <4>2, <4>3
          <5> QED
            BY <4>2, <5>1
        <4>4. CASE ~ (config.alert > 0)
          <5>1. i = 1
            BY <1>4, <4>1, <4>2, <4>4
          <5> QED
            BY <4>2, <5>1
        <4> QED
          BY <4>3, <4>4
      <3>3. CASE \E j \in DOMAIN response : i = Len(alert) + Len(risk) + j /\ work[i] = response[j]
        BY <1>4, <3>3
      <3> QED
        BY <2>2, <3>1, <3>2, <3>3
    <2>4. AlertsIn(work) = IF config.alert > 0 THEN {e} ELSE {}
      <3>1. CASE config.alert > 0
        <4>1. 1 \in DOMAIN work /\ work[1].to = "alert" /\ work[1].event = e
          BY <1>4, <2>2, <3>1
        <4>2. \A x : x \in AlertsIn(work) <=> x = e
          BY <2>3, <4>1, InAlerts
        <4> QED
          BY <3>1, <4>2
      <3>2. CASE ~ (config.alert > 0)
        <4>1. \A x : x \notin AlertsIn(work)
          BY <2>3, <3>2, InAlerts
        <4> QED
          BY <3>2, <4>1
      <3> QED
        BY <3>1, <3>2
    <2> QED
      BY <1>1, <1>2, <2>1, <2>2, <2>3, <2>4
  <1>6. CASE e = Event(s, rule, "suppressed", ruleHits + 1) /\ work = SuppressedCalls(s, rule)
    <2> DEFINE c == [to |-> "alert", event |-> e]
    <2>1. e.kind = "suppressed" /\ c.to = "alert" /\ c.event = e /\ c \in Call
      BY <1>3, <1>6 DEF Event
    <2>2. CASE config.alert > 0 /\ config.allow.webhook
      <3>1. work = <<c>>
        BY <1>6, <2>2 DEF SuppressedCalls
      <3> HIDE DEF c
      <3>2. DOMAIN work = {1} /\ work[1] = c /\ work \in Seq(Call)
        BY <2>1, <3>1
      <3>3. \A x : x \in AlertsIn(work) <=> x = e
        BY <2>1, <3>2, InAlerts
      <3>4. AlertsIn(work) = {e}
        BY <3>3
      <3> QED
        BY <1>1, <1>2, <2>1, <2>2, <3>2, <3>4
    <2>3. CASE ~ (config.alert > 0 /\ config.allow.webhook)
      <3>1. work = <<>>
        BY <1>6, <2>3 DEF SuppressedCalls
      <3>2. DOMAIN work = {}
        BY <3>1
      <3>3. \A x : x \notin AlertsIn(work)
        BY <3>2, InAlerts
      <3>4. AlertsIn(work) = {}
        BY <3>3
      <3> QED
        BY <1>1, <1>2, <2>1, <2>3, <3>1, <3>2, <3>4
    <2> QED
      BY <2>2, <2>3
  <1> QED
    BY <1>5, <1>6

\* A hit: what follows it is new, and comes after all that was told before.
LEMMA HitStep ==
    ASSUME AllowInv, AlertInv, NEW s \in Streams, stream[s].work = <<>>,
           NEW r, stream' = [stream EXCEPT ![s] = r], UNCHANGED <<config, sink, lost, crossings>>,
           ruleHits' = ruleHits + 1, NEW e \in Events, e.stream = s, e.hit = ruleHits + 1,
           r.work \in Seq(Call), AlertsIn(r.work) \in {{e}, {}},
           \A i \in DOMAIN r.work :
                 /\ r.work[i].event = e
                 /\ r.work[i].to = "alert" => i = 1
                 /\ r.work[i].to = "risk" => e.kind = "hit" /\ (i = 1 \/ (i = 2 /\ r.work[1].to = "alert")),
           e.kind \in {"hit", "suppressed"}, quiet' \in Nat, suppressed' \in Nat,
           config.alert > 0 =>
              /\ quiet' = (IF AlertsIn(r.work) = {} THEN quiet + 1 ELSE quiet)
              /\ suppressed' = (IF e.kind = "suppressed" THEN suppressed + 1 ELSE suppressed)
              /\ AlertsIn(r.work) = {} => e.kind = "suppressed"
    PROVE  AlertInv'
  <1> DEFINE new == AlertsIn(r.work)
             hits == ruleHits
  <1>1. hits \in Nat /\ Queued \in Seq(Events) /\ ToSet(Queued) \subseteq Events
    BY AlertTypes
  <1>2. Queued' = Queued /\ Sent' = Sent
    BY DEF Queued, Taken, Sent
  <1>3. AlertsIn(stream[s].work) = {}
    <2>1. DOMAIN stream[s].work = {}
      OBVIOUS
    <2>2. \A x : x \notin AlertsIn(stream[s].work)
      BY <2>1, InAlerts
    <2> QED
      BY <2>2
  <1>4. Pending = Others(s)
    <2>1. Pending = Others(s) \cup AlertsIn(stream[s].work)
      BY PendingSplit
    <2> QED
      BY <1>3, <2>1
  <1>5. Pending' = Others(s) \cup new
    BY PendingThen
  <1>6. Pending' = Pending \cup new /\ Alerts' = Alerts \cup new
    BY <1>2, <1>4, <1>5 DEF Alerts
  <1>7. /\ IsFiniteSet(Alerts) /\ Alerts \subseteq Events /\ \A a \in Alerts : a.hit <= hits
        /\ Pending \cap Sent = {}
    BY DEF AlertInv
  <1>8. \A a \in Alerts : a.hit \in Nat /\ a.hit <= hits + 1 /\ a.hit # e.hit
    <2>1. \A a \in Events : a.hit \in Nat
      BY DEF Events
    <2> QED
      BY <1>1, <1>7, <2>1
  <1>9. e \notin Alerts /\ e \notin Sent
    BY <1>8 DEF Alerts
  <1> HIDE DEF hits, new
  <1>10. WorkOf(s, r.work, Queued', Alerts', hits + 1)
    <2>1. \A i \in DOMAIN r.work : r.work[i].event.stream = s /\ r.work[i].event.hit <= hits + 1
      BY <1>1 DEF hits
    <2>2. ASSUME NEW i \in DOMAIN r.work, r.work[i].to = "risk"
          PROVE  /\ r.work[i].event.kind = "hit"
                 /\ i = 1 \/ (i = 2 /\ r.work[1].to = "alert" /\ r.work[1].event.kind = "hit")
                 /\ \A a \in Alerts' : ~ (a.stream = s /\ a.hit = r.work[i].event.hit /\ a.kind = "risk")
      <3>1. r.work[i].event = e /\ e.kind = "hit"
        BY <2>2
      <3>2. \A a \in Alerts' : a \in Alerts \/ a = e
        BY <1>6 DEF new
      <3>3. i = 2 => 1 \in DOMAIN r.work
        <4>1. DOMAIN r.work = 1..Len(r.work) /\ Len(r.work) \in Nat
          OBVIOUS
        <4> QED
          BY <4>1
      <3>4. i = 2 => r.work[1].event = e
        BY <3>3
      <3> QED
        BY <1>8, <2>2, <3>1, <3>2, <3>4
    <2>3. ASSUME NEW i \in DOMAIN r.work, NEW j \in DOMAIN Queued'
          PROVE  Before(Queued'[j], r.work[i].event)
      <3>1. Queued'[j] \in Alerts
        BY <1>2 DEF Alerts, Sent, ToSet
      <3>2. Queued'[j].hit <= hits /\ Queued'[j].hit \in Nat /\ r.work[i].event.hit = hits + 1
        BY <1>7, <1>8, <3>1 DEF hits
      <3> QED
        BY <1>1, <3>2 DEF Before
    <2> QED
      BY <2>1, <2>2, <2>3 DEF WorkOf
  <1>11. \A u \in Streams : WorkOf(u, stream'[u].work, Queued', Alerts', ruleHits')
    <2>1. ruleHits' \in Nat /\ ruleHits <= ruleHits' /\ ruleHits' = hits + 1
      BY <1>1 DEF hits
    <2>2. \A a \in Alerts' : a \in Alerts \/ a.stream = s
      BY <1>6 DEF new
    <2> QED
      BY <1>2, <1>10, <2>1, <2>2, WorksThen
  <1>12. IsFiniteSet(Alerts') /\ Accounts'
    <2>1. CASE new = {e}
      <3>1. /\ IsFiniteSet(Alerts') /\ Cardinality(Alerts) \in Nat /\ Cardinality(Hidden(Alerts)) \in Nat
            /\ Cardinality(Alerts') = Cardinality(Alerts) + 1
            /\ Cardinality(Hidden(Alerts')) =
                 IF e.kind = "suppressed" THEN Cardinality(Hidden(Alerts)) + 1 ELSE Cardinality(Hidden(Alerts))
        BY <1>6, <1>7, <1>9, <2>1, OneMoreAlert
      <3>2. ASSUME config.alert > 0
            PROVE  /\ ruleHits' + crossings'.alerts = quiet' + Cardinality(Alerts')
                   /\ suppressed' = quiet' + Cardinality(Hidden(Alerts'))
        <4>1. /\ ruleHits + crossings.alerts = quiet + Cardinality(Alerts)
              /\ suppressed = quiet + Cardinality(Hidden(Alerts))
              /\ quiet \in Nat /\ suppressed \in Nat /\ crossings.alerts \in Nat /\ ruleHits \in Nat
          BY <1>1, <3>2 DEF AlertInv, Accounts, hits
        <4>2. quiet' = quiet /\ suppressed' = IF e.kind = "suppressed" THEN suppressed + 1 ELSE suppressed
          BY <2>1, <3>2 DEF new
        <4>3. ruleHits' = ruleHits + 1 /\ crossings'.alerts = crossings.alerts
          OBVIOUS
        <4> DEFINE all == Cardinality(Alerts)
                   hid == Cardinality(Hidden(Alerts))
        <4>4. all \in Nat /\ hid \in Nat /\ Cardinality(Alerts') = all + 1
              /\ Cardinality(Hidden(Alerts')) = IF e.kind = "suppressed" THEN hid + 1 ELSE hid
          BY <3>1
        <4>5. ruleHits + crossings.alerts = quiet + all /\ suppressed = quiet + hid
          BY <4>1
        <4> HIDE DEF all, hid
        <4>6. ruleHits' + crossings'.alerts = quiet' + Cardinality(Alerts')
          <5>1. all \in Nat /\ ruleHits + crossings.alerts = quiet + all
            BY <4>4, <4>5
          <5>2. (ruleHits + 1) + crossings.alerts = quiet + (all + 1)
            <6> DEFINE h == ruleHits
                       c == crossings.alerts
                       q == quiet
            <6>1. h \in Nat /\ c \in Nat /\ q \in Nat /\ all \in Nat /\ h + c = q + all
              BY <4>1, <5>1
            <6> HIDE DEF h, c, q
            <6>2. (h + 1) + c = q + (all + 1)
              BY <6>1
            <6> QED
              BY <6>2 DEF h, c, q
          <5> QED
            BY <4>2, <4>3, <4>4, <5>2, Zenon
        <4>7. suppressed' = quiet' + Cardinality(Hidden(Alerts'))
          <5> DEFINE p == suppressed
                     q == quiet
          <5>1. q \in Nat /\ p \in Nat /\ hid \in Nat /\ p = q + hid
            BY <4>1, <4>4, <4>5
          <5> HIDE DEF p, q
          <5>2. p + 1 = q + (hid + 1)
            BY <5>1
          <5>3. quiet' = q
            BY <4>2 DEF q
          <5>4. CASE e.kind = "suppressed"
            <6>1. suppressed' = p + 1 /\ Cardinality(Hidden(Alerts')) = hid + 1
              BY <4>2, <4>4, <5>4 DEF p
            <6> QED
              BY <5>2, <5>3, <6>1, Zenon
          <5>5. CASE e.kind # "suppressed"
            <6>1. suppressed' = p /\ Cardinality(Hidden(Alerts')) = hid
              BY <4>2, <4>4, <5>5 DEF p
            <6> QED
              BY <5>1, <5>3, <6>1, Zenon
          <5> QED
            BY <5>4, <5>5
        <4> QED
          BY <4>6, <4>7
      <3> QED
        BY <3>1, <3>2 DEF Accounts
    <2>2. CASE new = {}
      <3>1. Alerts' = Alerts /\ Cardinality(Alerts) \in Nat /\ Cardinality(Hidden(Alerts)) \in Nat
        BY <1>6, <1>7, <1>9, <2>2, OneMoreAlert
      <3>2. ASSUME config.alert > 0
            PROVE  /\ ruleHits' + crossings'.alerts = quiet' + Cardinality(Alerts')
                   /\ suppressed' = quiet' + Cardinality(Hidden(Alerts'))
        <4>1. /\ ruleHits + crossings.alerts = quiet + Cardinality(Alerts)
              /\ suppressed = quiet + Cardinality(Hidden(Alerts))
              /\ quiet \in Nat /\ suppressed \in Nat /\ crossings.alerts \in Nat /\ ruleHits \in Nat
          BY <1>1, <3>2 DEF AlertInv, Accounts, hits
        <4>2. quiet' = quiet + 1 /\ suppressed' = suppressed + 1
          BY <2>2, <3>2 DEF new
        <4>3. ruleHits' = ruleHits + 1 /\ crossings'.alerts = crossings.alerts
          OBVIOUS
        <4> DEFINE all == Cardinality(Alerts)
                   hid == Cardinality(Hidden(Alerts))
        <4>4. all \in Nat /\ hid \in Nat /\ Cardinality(Alerts') = all
              /\ Cardinality(Hidden(Alerts')) = hid
          BY <3>1
        <4>5. ruleHits + crossings.alerts = quiet + all /\ suppressed = quiet + hid
          BY <4>1
        <4> HIDE DEF all, hid
        <4>6. (ruleHits + 1) + crossings.alerts = (quiet + 1) + all
          <5> DEFINE h == ruleHits
                     c == crossings.alerts
                     q == quiet
          <5>1. h \in Nat /\ c \in Nat /\ q \in Nat /\ all \in Nat /\ h + c = q + all
            BY <4>1, <4>4, <4>5
          <5> HIDE DEF h, c, q
          <5>2. (h + 1) + c = (q + 1) + all
            BY <5>1
          <5> QED
            BY <5>2 DEF h, c, q
        <4>7. ruleHits' + crossings'.alerts = quiet' + Cardinality(Alerts')
          BY <4>2, <4>3, <4>4, <4>6, Zenon
        <4>8. suppressed' = quiet' + Cardinality(Hidden(Alerts'))
          <5> DEFINE p == suppressed
                     q == quiet
          <5>1. q \in Nat /\ p \in Nat /\ hid \in Nat /\ p = q + hid
            BY <4>1, <4>4, <4>5
          <5> HIDE DEF p, q
          <5>2. p + 1 = (q + 1) + hid
            BY <5>1
          <5>3. suppressed' = p + 1 /\ quiet' = q + 1 /\ Cardinality(Hidden(Alerts')) = hid
            BY <4>2, <4>4 DEF p, q
          <5> QED
            BY <5>2, <5>3, Zenon
        <4> QED
          BY <4>7, <4>8
      <3> QED
        BY <1>7, <3>1, <3>2 DEF Accounts
    <2> QED
      BY <2>1, <2>2 DEF new
  <1>13. Pending' \cap Sent' = {}
    BY <1>2, <1>6, <1>7, <1>9 DEF new
  <1>14. Alerts' \subseteq Events /\ \A a \in Alerts' : a.hit <= ruleHits'
    <2>1. \A a \in Alerts' : a \in Alerts \/ a = e
      BY <1>6 DEF new
    <2> QED
      BY <1>1, <1>7, <1>8, <2>1 DEF hits
  <1> QED
    BY <1>2, <1>11, <1>12, <1>13, <1>14 DEF AlertInv

LEMMA AlertEvaluate ==
    ASSUME IdentityInv, AllowInv, AlertInv, NEW s \in Streams, Evaluate(s)
    PROVE  AlertInv'
  <1> DEFINE rule == config.rules[stream[s].next]
             hidden == Allowlisted(s, rule)
             calls == IF hidden THEN SuppressedCalls(s, rule) ELSE Calls(s, rule)
             e == Event(s, rule, IF hidden THEN "suppressed" ELSE "hit", ruleHits + 1)
  <1>1. /\ UNCHANGED <<config, sink, lost, crossings>> /\ stream[s].work = <<>> /\ stream[s].at = "match"
        /\ stream[s].next <= Len(config.rules)
    BY DEF Evaluate, Unaffected, Log
  <1>2. stream \in [Streams -> StreamOf(SafeCalls)] /\ quiet \in Nat /\ suppressed \in Nat
    BY DEF AllowInv, AlertInv
  <1>3. rule \in Rule
    <2>1. stream[s].next \in Nat \ {0}
      BY <1>2 DEF StreamOf
    <2>2. config.rules \in Seq(Rule) /\ Len(config.rules) \in Nat /\ DOMAIN config.rules = 1..Len(config.rules)
      BY RulesType
    <2>3. stream[s].next \in DOMAIN config.rules
      BY <1>1, <2>1, <2>2
    <2> QED
      BY <2>2, <2>3
  <1>4. \/ Log(s, rule)
        \/ /\ \A u \in Streams : stream'[u].work = stream[u].work
           /\ UNCHANGED <<ruleHits, suppressed, quiet>>
    <2>1. CASE Log(s, rule)
      BY <2>1
    <2>2. CASE ~ Log(s, rule)
      <3>1. PICK n, v : stream' = [stream EXCEPT ![s].next = n, ![s].verdict = v]
        BY <2>2 DEF Evaluate
      <3>2. UNCHANGED <<ruleHits, suppressed, quiet>>
        BY <2>2 DEF Evaluate
      <3>3. \A u \in Streams : stream'[u].work = stream[u].work
        <4>1. stream'[s].work = stream[s].work
          BY <1>2, <3>1 DEF StreamOf
        <4> QED
          BY <1>2, <3>1, <4>1
      <3> QED
        BY <3>2, <3>3
    <2> QED
      BY <2>1, <2>2
  <1>5. CASE Log(s, rule)
    <2>1. /\ e \in Events /\ calls \in Seq(Call)
          /\ \A i \in DOMAIN calls :
                 /\ calls[i].event = e
                 /\ calls[i].to = "alert" => i = 1
                 /\ calls[i].to = "risk" => e.kind = "hit" /\ (i = 1 \/ (i = 2 /\ calls[1].to = "alert"))
          /\ AlertsIn(calls) = IF config.alert > 0 /\ (e.kind = "suppressed" => config.allow.webhook)
                               THEN {e} ELSE {}
          /\ e.kind = "suppressed" /\ ~ config.allow.webhook => calls = <<>>
      <3>1. \/ e = Event(s, rule, "hit", ruleHits + 1) /\ calls = Calls(s, rule)
            \/ e = Event(s, rule, "suppressed", ruleHits + 1) /\ calls = SuppressedCalls(s, rule)
        OBVIOUS
      <3> HIDE DEF e, calls, rule
      <3> QED
        BY <1>3, <3>1, CallsAre
    <2>2. e.kind = (IF hidden THEN "suppressed" ELSE "hit") /\ e.stream = s /\ e.hit = ruleHits + 1
      BY DEF Event
    <2> DEFINE n == IF rule.action = "" THEN stream[s].next + 1 ELSE Len(config.rules) + 1
               v == IF rule.action = "" THEN stream[s].verdict ELSE rule.action
               r == [stream[s] EXCEPT !.work = calls, !.told = Append(@, rule.name),
                                      !.next = n, !.verdict = v]
    <2>3. /\ stream' = [stream EXCEPT ![s] = r] /\ ruleHits' = ruleHits + 1
          /\ suppressed' = IF hidden THEN suppressed + 1 ELSE suppressed
          /\ quiet' = IF hidden /\ calls = <<>> THEN quiet + 1 ELSE quiet
      BY <1>2, <1>5 DEF Log
    <2> HIDE DEF rule, e, calls, hidden, n, v
    <2>4. r.work = calls
      BY <1>2 DEF StreamOf
    <2> HIDE DEF r
    <2>5. AlertsIn(<<>>) = {}
      <3>1. \A x : x \notin AlertsIn(<<>>)
        BY InAlerts
      <3> QED
        BY <3>1
    <2>6. quiet' \in Nat /\ suppressed' \in Nat
      BY <1>2, <2>3
    <2>7. ASSUME config.alert > 0
          PROVE  /\ quiet' = (IF AlertsIn(r.work) = {} THEN quiet + 1 ELSE quiet)
                 /\ suppressed' = (IF e.kind = "suppressed" THEN suppressed + 1 ELSE suppressed)
                 /\ AlertsIn(r.work) = {} => e.kind = "suppressed"
      <3>1. CASE hidden /\ ~ config.allow.webhook
        <4>1. calls = <<>> /\ AlertsIn(r.work) = {} /\ e.kind = "suppressed"
          BY <2>1, <2>2, <2>4, <2>5, <3>1
        <4> QED
          BY <2>3, <3>1, <4>1
      <3>2. CASE hidden /\ config.allow.webhook
        <4>1. AlertsIn(r.work) = {e} /\ e.kind = "suppressed"
          BY <2>1, <2>2, <2>4, <2>7, <3>2
        <4>2. AlertsIn(r.work) # {} /\ calls # <<>>
          BY <2>4, <2>5, <4>1
        <4> QED
          BY <2>3, <3>2, <4>1, <4>2
      <3>3. CASE ~ hidden
        <4>1. AlertsIn(r.work) = {e} /\ e.kind = "hit"
          BY <2>1, <2>2, <2>4, <2>7, <3>3
        <4>2. AlertsIn(r.work) # {}
          BY <4>1
        <4> QED
          BY <2>3, <3>3, <4>1, <4>2
      <3> QED
        BY <3>1, <3>2, <3>3
    <2>8. r.work \in Seq(Call) /\ AlertsIn(r.work) \in {{e}, {}}
      BY <2>1, <2>4
    <2>9. \A i \in DOMAIN r.work :
                 /\ r.work[i].event = e
                 /\ r.work[i].to = "alert" => i = 1
                 /\ r.work[i].to = "risk" => e.kind = "hit" /\ (i = 1 \/ (i = 2 /\ r.work[1].to = "alert"))
      BY <2>1, <2>4
    <2>10. e \in Events /\ e.stream = s /\ e.hit = ruleHits + 1 /\ e.kind \in {"hit", "suppressed"}
      BY <2>1, <2>2
    <2> QED
      BY <1>1, <2>3, <2>6, <2>7, <2>8, <2>9, <2>10, HitStep
  <1>6. CASE /\ \A u \in Streams : stream'[u].work = stream[u].work
             /\ UNCHANGED <<ruleHits, suppressed, quiet>>
    <2>1. Queued' = Queued
      BY <1>1 DEF Queued, Taken
    <2> QED
      BY <1>1, <1>6, <2>1, AlertSame
  <1> QED
    BY <1>4, <1>5, <1>6

\* The first of the calls left, and the others.
LEMMA WorkParts ==
    ASSUME NEW s, NEW work \in Seq(Call), NEW queued, NEW alerts, NEW hits, WorkOf(s, work, queued, alerts, hits),
           work # <<>>
    PROVE  /\ Head(work) = work[1] /\ 1 \in DOMAIN work /\ Tail(work) \in Seq(Call) /\ work[1] \in Call
           /\ AlertsIn(work) = IF work[1].to = "alert" THEN {work[1].event} ELSE {}
           /\ AlertsIn(Tail(work)) = {}
           /\ \A i \in DOMAIN Tail(work) :
                 /\ i + 1 \in DOMAIN work /\ Tail(work)[i] = work[i + 1] /\ Tail(work)[i].to # "alert"
                 /\ Tail(work)[i].to = "risk" => i = 1 /\ work[1].to = "alert" /\ work[1].event.kind = "hit"
  <1>1. /\ Len(work) \in Nat \ {0} /\ DOMAIN work = 1..Len(work) /\ Head(work) = work[1]
        /\ Tail(work) \in Seq(Call) /\ DOMAIN Tail(work) = 1..Len(work) - 1
        /\ \A i \in 1..Len(work) - 1 : Tail(work)[i] = work[i + 1]
    OBVIOUS
  <1>2. 1 \in DOMAIN work /\ work[1] \in Call
    BY <1>1
  <1>3. ASSUME NEW i \in DOMAIN Tail(work)
        PROVE  i + 1 \in DOMAIN work /\ Tail(work)[i] = work[i + 1] /\ i + 1 # 1 /\ (i + 1 = 2 => i = 1)
    BY <1>1
  <1>4. ASSUME NEW i \in DOMAIN Tail(work)
        PROVE  /\ Tail(work)[i].to # "alert"
               /\ Tail(work)[i].to = "risk" => i = 1 /\ work[1].to = "alert" /\ work[1].event.kind = "hit"
    BY <1>3 DEF WorkOf
  <1> DEFINE rest == Tail(work)
  <1>5. \A i \in DOMAIN rest : rest[i].to # "alert"
    BY <1>4
  <1> HIDE DEF rest
  <1>6. \A x : ~ (x \in AlertsIn(rest))
    BY <1>5, InAlerts
  <1>7. AlertsIn(rest) = {}
    BY <1>6
  <1>8. \A x : x \in AlertsIn(work) <=> work[1].to = "alert" /\ x = work[1].event
    BY <1>2, InAlerts DEF WorkOf
  <1>9. AlertsIn(work) = IF work[1].to = "alert" THEN {work[1].event} ELSE {}
    BY <1>8
  <1> QED
    BY <1>1, <1>2, <1>3, <1>4, <1>7, <1>9 DEF rest

\* The calls after the first one stay in order, also behind its alert.
LEMMA RestOfWork ==
    ASSUME NEW s, NEW work \in Seq(Call), NEW queued, NEW alerts, NEW hits, WorkOf(s, work, queued, alerts, hits),
           work # <<>>, NEW queued2,
           \A j \in DOMAIN queued2 : \/ \E i \in DOMAIN queued : queued[i] = queued2[j]
                                     \/ work[1].to = "alert" /\ queued2[j] = work[1].event
    PROVE  WorkOf(s, Tail(work), queued2, alerts, hits)
  <1> DEFINE rest == Tail(work)
  <1>1. \A i \in DOMAIN rest :
           /\ i + 1 \in DOMAIN work /\ rest[i] = work[i + 1] /\ rest[i].to # "alert"
           /\ rest[i].to = "risk" => i = 1 /\ work[1].to = "alert" /\ work[1].event.kind = "hit"
    BY WorkParts
  <1>2. 1 \in DOMAIN work
    BY WorkParts
  <1> HIDE DEF rest
  <1>3. /\ \A i \in DOMAIN work : work[i].event.stream = s /\ work[i].event.hit <= hits
        /\ \A i, j \in DOMAIN work : work[i].event.hit = work[j].event.hit
    BY DEF WorkOf
  <1>4. /\ \A i \in DOMAIN rest : rest[i].event.stream = s /\ rest[i].event.hit <= hits
        /\ \A i, j \in DOMAIN rest : rest[i].event.hit = rest[j].event.hit
    BY <1>1, <1>3
  <1>5. ASSUME NEW i \in DOMAIN rest, rest[i].to = "risk"
        PROVE  /\ rest[i].event.kind = "hit" /\ i = 1
               /\ \A e \in alerts : ~ (e.stream = s /\ e.hit = rest[i].event.hit /\ e.kind = "risk")
    <2>1. i + 1 \in DOMAIN work /\ rest[i] = work[i + 1] /\ work[i + 1].to = "risk" /\ i = 1
      BY <1>1, <1>5
    <2> QED
      BY <2>1 DEF WorkOf
  <1>6. ASSUME NEW i \in DOMAIN rest, rest[i].to # "response", NEW j \in DOMAIN queued2, queued2[j].stream = s
        PROVE  Before(queued2[j], rest[i].event)
    <2>1. i + 1 \in DOMAIN work /\ rest[i] = work[i + 1] /\ rest[i].to # "alert"
      BY <1>1
    <2>2. CASE \E k \in DOMAIN queued : queued[k] = queued2[j]
      BY <1>6, <2>1, <2>2 DEF WorkOf
    <2>3. CASE work[1].to = "alert" /\ queued2[j] = work[1].event
      <3>1. work[1].event.hit = rest[i].event.hit
        BY <1>2, <1>3, <2>1
      <3>2. work[i + 1].to \in {"alert", "risk", "response"}
        BY <2>1, CallTypes
      <3>3. rest[i].to = "risk"
        BY <1>6, <2>1, <3>2
      <3>4. work[1].event.kind = "hit"
        BY <1>1, <3>3
      <3> QED
        BY <2>3, <3>1, <3>4 DEF Before
    <2> QED
      BY <2>2, <2>3
  <1>7. WorkOf(s, rest, queued2, alerts, hits)
    BY <1>1, <1>4, <1>5, <1>6 DEF WorkOf
  <1> QED
    BY <1>7 DEF rest

\* What is in a queue, in hand and served, is a sequence; one more comes last.
LEMMA LastBehind ==
    ASSUME NEW S, NEW a \in Seq(S), NEW b \in Seq(S), NEW e \in S
    PROVE  a \o Append(b, e) = Append(a \o b, e)
  OBVIOUS

LEMMA LastInARow ==
    ASSUME NEW S, NEW a \in Seq(S), NEW b \in Seq(S), NEW c \in Seq(S), NEW e \in S
    PROVE  a \o b \o Append(c, e) = Append(a \o b \o c, e)
  <1> DEFINE ab == a \o b
  <1>1. ab \in Seq(S)
    BY ConcatProperties
  <1> HIDE DEF ab
  <1>2. ab \o Append(c, e) = Append(ab \o c, e)
    BY <1>1, LastBehind
  <1> QED
    BY <1>2 DEF ab

LEMMA QueuedOneMore ==
    ASSUME AllowInv, NEW e \in Events, sink' = [sink EXCEPT !["alert"].queue = Append(@, e)]
    PROVE  Queued' = Append(Queued, e)
  <1> DEFINE a == sink["alert"]
  <1>1. "alert" \in Sinks /\ sink \in [Sinks -> SinkOf(Events)]
    BY DEF AllowInv, Sinks
  <1>2. a.served \in Seq(Events) /\ a.busy \in Seq(Events) /\ a.queue \in Seq(Events)
    BY <1>1 DEF SinkOf
  <1>3. /\ sink'["alert"].served = a.served /\ sink'["alert"].busy = a.busy
        /\ sink'["alert"].queue = Append(a.queue, e)
    BY <1>1 DEF SinkOf
  <1>4. Queued' = a.served \o a.busy \o Append(a.queue, e)
    BY <1>3 DEF Queued, Taken
  <1>5. Queued = a.served \o a.busy \o a.queue
    BY DEF Queued, Taken
  <1> HIDE DEF a
  <1> DEFINE x == a.served
             y == a.busy
             z == a.queue
  <1>6. x \in Seq(Events) /\ y \in Seq(Events) /\ z \in Seq(Events)
    BY <1>2
  <1> HIDE DEF x, y, z
  <1>7. x \o y \o Append(z, e) = Append(x \o y \o z, e)
    BY <1>6, LastInARow
  <1> QED
    BY <1>4, <1>5, <1>7 DEF x, y, z

\* The queues, the goroutines' hands, and what was lost.
SinkInv ==
    /\ lost \in [Sinks -> [dropped : SUBSET Events, discarded : SUBSET Events]]
    /\ \A k \in Sinks : Len(sink[k].queue) <= sink[k].size /\ Len(sink[k].busy) <= 1

\* An alert that moves from those pending to those sent.
LEMMA AlertMoves ==
    ASSUME AllowInv, AlertInv, NEW s \in Streams, NEW r, stream' = [stream EXCEPT ![s] = r],
           UNCHANGED <<config, ruleHits, suppressed, quiet, crossings>>,
           Alerts' = Alerts, Pending' \cap Sent' = {},
           WorkOf(s, r.work, Queued', Alerts, ruleHits),
           \/ Queued' = Queued
           \/ \E e \in Events : /\ Queued' = Append(Queued, e) /\ e.stream = s /\ e \notin Sent
                                /\ \A j \in DOMAIN Queued : Queued[j].stream = s => Before(Queued[j], e)
    PROVE  AlertInv'
  <1> DEFINE old == Queued
             new == Queued'
  <1>1. old \in Seq(Events) /\ ruleHits \in Nat
    BY AlertTypes
  <1>2. ToSet(old) \subseteq Sent /\ Len(old) = Cardinality(ToSet(old)) /\ InOrder(old) /\ IsFiniteSet(Alerts)
    BY DEF AlertInv, Sent
  <1>3. /\ \A j \in DOMAIN new : new[j].stream = s \/ \E i \in DOMAIN old : old[i] = new[j]
        /\ Len(new) = Cardinality(ToSet(new)) /\ InOrder(new)
    <2>1. CASE new = old
      BY <1>2, <2>1
    <2>2. ASSUME NEW e \in Events, new = Append(old, e), e.stream = s, e \notin Sent,
                 \A j \in DOMAIN old : old[j].stream = s => Before(old[j], e)
          PROVE  /\ \A j \in DOMAIN new : new[j].stream = s \/ \E i \in DOMAIN old : old[i] = new[j]
                 /\ Len(new) = Cardinality(ToSet(new)) /\ InOrder(new)
      <3> HIDE DEF old, new
      <3>1. InOrder(new)
        BY <1>1, <1>2, <2>2, OrderStays
      <3>2. /\ ToSet(new) = ToSet(old) \cup {e} /\ Len(new) = Len(old) + 1
            /\ \A j \in DOMAIN new : new[j] = e \/ \E i \in DOMAIN old : old[i] = new[j]
        BY <1>1, <2>2, SetOfAppend
      <3>3. IsFiniteSet(ToSet(old)) /\ e \notin ToSet(old)
        <4>1. ToSet(old) \subseteq Alerts
          BY <1>2 DEF Alerts
        <4> QED
          BY <1>2, <2>2, <4>1, FS_Subset
      <3>4. Cardinality(ToSet(new)) = Cardinality(ToSet(old)) + 1
        BY <3>2, <3>3, FS_AddElement
      <3> QED
        BY <1>2, <2>2, <3>1, <3>2, <3>4
    <2> QED
      BY <2>1, <2>2
  <1> HIDE DEF old, new
  <1>4. \A u \in Streams : WorkOf(u, stream'[u].work, Queued', Alerts', ruleHits')
    <2>1. ruleHits' \in Nat /\ ruleHits <= ruleHits' /\ WorkOf(s, r.work, Queued', Alerts', ruleHits')
      BY <1>1
    <2>2. \A a \in Alerts' : a \in Alerts \/ a.stream = s
      OBVIOUS
    <2>3. \A j \in DOMAIN Queued' : Queued'[j].stream = s \/ \E i \in DOMAIN Queued : Queued[i] = Queued'[j]
      BY <1>3 DEF old, new
    <2> QED
      BY <2>1, <2>2, <2>3, WorksThen
  <1>5. Accounts'
    BY DEF AlertInv, Accounts
  <1>6. Len(Queued') = Cardinality(ToSet(Queued')) /\ InOrder(Queued')
    BY <1>3 DEF new
  <1> QED
    BY <1>4, <1>5, <1>6 DEF AlertInv

LEMMA AlertTell ==
    ASSUME AllowInv, AlertInv, SinkInv, NEW s \in Streams, Tell(s)
    PROVE  AlertInv'
  <1> DEFINE work == stream[s].work
             call == work[1]
             rest == Tail(work)
             e == call.event
             r == [stream[s] EXCEPT !.work = rest]
  <1>1. /\ UNCHANGED <<config, ruleHits, suppressed, quiet, crossings>> /\ work # <<>>
        /\ Head(work).to \in Sinks /\ stream' = [stream EXCEPT ![s].work = Tail(@)]
        /\ Emit(Head(work).to, Head(work).event)
    BY DEF Tell, Unaffected
  <1>2. stream \in [Streams -> StreamOf(SafeCalls)] /\ work \in Seq(Call) /\ ruleHits \in Nat
        /\ Queued \in Seq(Events) /\ sink \in [Sinks -> SinkOf(Events)]
    BY AlertTypes DEF AllowInv
  <1>3. WorkOf(s, work, Queued, Alerts, ruleHits)
    BY DEF AlertInv
  <1>4. /\ Head(work) = call /\ rest \in Seq(Call) /\ call \in Call /\ 1 \in DOMAIN work
        /\ AlertsIn(work) = (IF call.to = "alert" THEN {e} ELSE {})
        /\ AlertsIn(rest) = {}
    BY <1>1, <1>2, <1>3, WorkParts
  <1>5. stream' = [stream EXCEPT ![s] = r] /\ r.work = rest
    BY <1>1, <1>2 DEF StreamOf
  <1>6. /\ e \in Events /\ e.stream = s
        /\ call.to = "alert" => \A j \in DOMAIN Queued : Queued[j].stream = s => Before(Queued[j], e)
    BY <1>2, <1>3, <1>4, CallTypes DEF WorkOf
  <1>7. Pending = Others(s) \cup AlertsIn(work) /\ \A x \in Others(s) : x.stream # s
    BY PendingSplit
  <1>8. Pending' = Others(s)
    <2>1. Pending' = Others(s) \cup AlertsIn(r.work)
      BY <1>5, PendingThen
    <2> QED
      BY <1>4, <1>5, <2>1
  <1>9. Pending \cap Sent = {}
    BY DEF AlertInv
  <1>10. "alert" \in Sinks /\ lost["alert"] \in [dropped : SUBSET Events, discarded : SUBSET Events]
         /\ lost \in [Sinks -> [dropped : SUBSET Events, discarded : SUBSET Events]]
    BY DEF SinkInv, Sinks
  <1>11. call.to \in {"alert", "response"} /\ Emit(call.to, e)
    BY <1>1, <1>4 DEF Sinks
  <1> HIDE DEF work, call, rest, r, e
  <1>12. CASE call.to = "alert"
    <2>1. Pending = Pending' \cup {e} /\ e \notin Pending' /\ e \notin Sent
      BY <1>4, <1>6, <1>7, <1>8, <1>9, <1>12
    <2>2. /\ Queued' = Queued \/ Queued' = Append(Queued, e)
          /\ Sent' = Sent \cup {e}
      <3>1. CASE sink' = [sink EXCEPT !["alert"].queue = Append(@, e)] /\ UNCHANGED lost
        <4>1. Queued' = Append(Queued, e)
          BY <1>6, <3>1, QueuedOneMore
        <4>2. ToSet(Append(Queued, e)) = ToSet(Queued) \cup {e}
          BY <1>2, <1>6, SetOfAppend
        <4>3. ToSet(Queued') = ToSet(Queued) \cup {e}
          BY <4>1, <4>2
        <4>4. Sent' = Sent \cup {e}
          BY <3>1, <4>3 DEF Sent
        <4> QED
          BY <4>1, <4>4
      <3>2. CASE /\ \/ lost' = [lost EXCEPT !["alert"].discarded = @ \cup {e}]
                    \/ lost' = [lost EXCEPT !["alert"].dropped = @ \cup {e}]
                 /\ UNCHANGED sink
        <4>1. Queued' = Queued
          BY <3>2 DEF Queued, Taken
        <4>2. lost'["alert"].dropped \cup lost'["alert"].discarded
                 = lost["alert"].dropped \cup lost["alert"].discarded \cup {e}
          BY <1>10, <3>2
        <4>3. Sent' = Sent \cup {e}
          BY <4>1, <4>2 DEF Sent
        <4> QED
          BY <4>1, <4>3
      <3> QED
        BY <1>11, <1>12, <3>1, <3>2 DEF Emit
    <2>3. Alerts' = Alerts /\ Pending' \cap Sent' = {}
      BY <1>9, <2>1, <2>2 DEF Alerts
    <2>4. WorkOf(s, r.work, Queued', Alerts, ruleHits)
      <3> DEFINE new == Queued'
      <3>1. \A j \in DOMAIN new : \/ \E i \in DOMAIN Queued : Queued[i] = new[j]
                                  \/ call.to = "alert" /\ new[j] = e
        BY <1>2, <1>6, <1>12, <2>2, SetOfAppend
      <3> HIDE DEF new
      <3>2. WorkOf(s, Tail(work), new, Alerts, ruleHits)
        BY <1>1, <1>2, <1>3, <3>1, RestOfWork DEF call, e
      <3> QED
        BY <1>5, <3>2 DEF new, rest
    <2>5. \/ Queued' = Queued
          \/ \E x \in Events : /\ Queued' = Append(Queued, x) /\ x.stream = s /\ x \notin Sent
                               /\ \A j \in DOMAIN Queued : Queued[j].stream = s => Before(Queued[j], x)
      BY <1>6, <1>12, <2>1, <2>2
    <2> QED
      BY <1>1, <1>5, <2>3, <2>4, <2>5, AlertMoves
  <1>13. CASE call.to = "response"
    <2>1. Pending' = Pending
      BY <1>4, <1>7, <1>8, <1>13
    <2>2. sink'["alert"] = sink["alert"] /\ lost'["alert"] = lost["alert"]
      BY <1>2, <1>10, <1>11, <1>13 DEF Emit
    <2>3. Queued' = Queued
      BY <2>2 DEF Queued, Taken
    <2>4. Sent' = Sent
      BY <2>2, <2>3 DEF Sent
    <2>5. Alerts' = Alerts /\ Pending' \cap Sent' = {}
      BY <1>9, <2>1, <2>4 DEF Alerts
    <2>6. WorkOf(s, r.work, Queued, Alerts, ruleHits)
      <3>1. \A j \in DOMAIN Queued : \E i \in DOMAIN Queued : Queued[i] = Queued[j]
        OBVIOUS
      <3> DEFINE old == Queued
      <3> HIDE DEF old
      <3>2. WorkOf(s, Tail(work), old, Alerts, ruleHits)
        BY <1>1, <1>2, <1>3, <3>1, RestOfWork DEF old
      <3> QED
        BY <1>5, <3>2 DEF rest, old
    <2>7. WorkOf(s, r.work, Queued', Alerts, ruleHits)
      BY <2>3, <2>6
    <2> QED
      BY <1>1, <1>5, <2>3, <2>5, <2>7, AlertMoves
  <1> QED
    BY <1>11, <1>12, <1>13

\* At most one call.
OneCall(calls, to, e) ==
    /\ \A i \in DOMAIN calls : i = 1 /\ calls[i].to = to /\ calls[i].event = e
    /\ calls # <<>> => 1 \in DOMAIN calls /\ Len(calls) = 1
    /\ calls = <<>> => Len(calls) = 0

LEMMA ToldIsOne ==
    ASSUME NEW to \in Sinks, NEW e \in Events, NEW told \in BOOLEAN
    PROVE  LET calls == IF told THEN <<[to |-> to, event |-> e]>> ELSE <<>>
           IN calls \in Seq(Call) /\ OneCall(calls, to, e)
  <1> DEFINE c == [to |-> to, event |-> e]
  <1>1. c \in Call /\ c.to = to /\ c.event = e
    BY DEF Call
  <1> HIDE DEF c
  <1>2. <<c>> \in Seq(Call) /\ DOMAIN <<c>> = {1} /\ <<c>>[1] = c /\ Len(<<c>>) = 1
    BY <1>1
  <1>3. OneCall(<<c>>, to, e)
    BY <1>1, <1>2 DEF OneCall
  <1>4. <<>> \in Seq(Call) /\ OneCall(<<>>, to, e)
    BY DEF OneCall
  <1>5. CASE told
    BY <1>2, <1>3, <1>5 DEF c
  <1>6. CASE ~ told
    BY <1>4, <1>6
  <1> QED
    BY <1>5, <1>6

\* Before the rest come, of one event, the alert told, if any, and a response.
Ahead(more, rest, e, told) ==
    /\ told # <<>> => 1 \in DOMAIN more /\ more[1].to = "alert" /\ more[1].event = e
    /\ \A i \in DOMAIN more : \/ told # <<>> /\ i = 1
                              \/ more[i].to = "response" /\ more[i].event = e
                              \/ \E j \in DOMAIN rest : more[i] = rest[j]

LEMMA TwoAhead ==
    ASSUME NEW A \in Seq(Call), NEW B \in Seq(Call), NEW rest \in Seq(Call), NEW e,
           OneCall(A, "alert", e), OneCall(B, "response", e), NEW more, more = A \o B \o rest
    PROVE  Ahead(more, rest, e, A)
  <1>1. /\ \A i \in DOMAIN A : i = 1 /\ A[i].to = "alert" /\ A[i].event = e
        /\ \A i \in DOMAIN B : i = 1 /\ B[i].to = "response" /\ B[i].event = e
        /\ A # <<>> => 1 \in DOMAIN A
    BY DEF OneCall
  <1>2. \A i \in DOMAIN A : i \in DOMAIN more /\ more[i] = A[i]
    BY ThreeInARow
  <1>3. \A i \in DOMAIN more :
            \/ i \in DOMAIN A /\ more[i] = A[i]
            \/ \E j \in DOMAIN B : i = Len(A) + j /\ more[i] = B[j]
            \/ \E j \in DOMAIN rest : i = Len(A) + Len(B) + j /\ more[i] = rest[j]
    BY ThreeInARow
  <1>4. A # <<>> => 1 \in DOMAIN more /\ more[1].to = "alert" /\ more[1].event = e
    BY <1>1, <1>2, Zenon
  <1>5. ASSUME NEW i \in DOMAIN more
        PROVE  \/ A # <<>> /\ i = 1
               \/ more[i].to = "response" /\ more[i].event = e
               \/ \E j \in DOMAIN rest : more[i] = rest[j]
    <2>1. CASE i \in DOMAIN A /\ more[i] = A[i]
      <3>1. A # <<>>
        <4>1. DOMAIN <<>> = {}
          OBVIOUS
        <4> QED
          BY <2>1, <4>1, Zenon
      <3> QED
        BY <1>1, <2>1, <3>1, Zenon
    <2>2. CASE \E j \in DOMAIN B : i = Len(A) + j /\ more[i] = B[j]
      BY <1>1, <2>2, Zenon
    <2>3. CASE \E j \in DOMAIN rest : i = Len(A) + Len(B) + j /\ more[i] = rest[j]
      BY <2>3, Zenon
    <2> QED
      BY <1>3, <2>1, <2>2, <2>3, Zenon
  <1> QED
    BY <1>4, <1>5, Zenon DEF Ahead

LEMMA AlertsAhead ==
    ASSUME NEW more, NEW rest, NEW e, NEW told, Ahead(more, rest, e, told),
           \A i \in DOMAIN rest : rest[i].to # "alert"
    PROVE  \A x : x \in AlertsIn(more) <=> told # <<>> /\ x = e
  <1>1. told # <<>> => 1 \in DOMAIN more /\ more[1].to = "alert" /\ more[1].event = e
    BY DEF Ahead
  <1>2. \A i \in DOMAIN more : more[i].to = "alert" => told # <<>> /\ i = 1
    BY DEF Ahead
  <1> QED
    BY <1>1, <1>2, InAlerts

\* The calls left once the risk is added: the thresholds told, then the response.
LEMMA RiskCalls ==
    ASSUME NEW s, NEW work \in Seq(Call), NEW queued, NEW alerts, NEW hits, WorkOf(s, work, queued, alerts, hits),
           work # <<>>, work[1].to = "risk",
           NEW e \in Events, e.stream = work[1].event.stream, e.hit = work[1].event.hit, e.kind = "risk",
           NEW more, NEW told, Ahead(more, Tail(work), e, told)
    PROVE  /\ e \notin alerts
           /\ \A alerts2 : WorkOf(s, more, queued, alerts2, hits)
  <1> DEFINE rest == Tail(work)
             first == work[1].event
  <1>1. /\ 1 \in DOMAIN work
        /\ \A i \in DOMAIN rest :
              /\ i + 1 \in DOMAIN work /\ rest[i] = work[i + 1] /\ rest[i].to # "alert" /\ rest[i].to # "risk"
    BY WorkParts
  <1>2. e.stream = first.stream /\ e.hit = first.hit
    OBVIOUS
  <1>3. Ahead(more, rest, e, told)
    OBVIOUS
  <1>5. /\ first.stream = s /\ first.hit <= hits
        /\ \A i \in DOMAIN work : work[i].event.stream = s /\ work[i].event.hit = first.hit
        /\ \A a \in alerts : ~ (a.stream = s /\ a.hit = first.hit /\ a.kind = "risk")
        /\ \A j \in DOMAIN queued : queued[j].stream = s => Before(queued[j], first)
    BY <1>1 DEF WorkOf
  <1> HIDE DEF first, rest
  <1>6. e \notin alerts
    BY <1>2, <1>5
  <1>7. ASSUME NEW i \in DOMAIN more
        PROVE  /\ more[i].event.stream = s /\ more[i].event.hit = first.hit
               /\ more[i].to # "risk"
               /\ more[i].to = "alert" => told # <<>> /\ i = 1 /\ more[i].event = e
               /\ more[i].to \in {"alert", "response"}
    <2>1. CASE told # <<>> /\ i = 1
      BY <1>2, <1>3, <1>5, <2>1 DEF Ahead
    <2>2. CASE more[i].to = "response" /\ more[i].event = e
      BY <1>2, <1>5, <2>2
    <2>3. CASE \E j \in DOMAIN rest : more[i] = rest[j]
      <3>1. PICK j \in DOMAIN rest : more[i] = rest[j]
        BY <2>3
      <3>2. more[i] = work[j + 1] /\ j + 1 \in DOMAIN work
        BY <1>1, <3>1
      <3>3. more[i].to \in {"alert", "risk", "response"}
        BY <3>2, CallTypes
      <3> QED
        BY <1>1, <1>5, <3>1, <3>2, <3>3
    <2> QED
      BY <1>3, <2>1, <2>2, <2>3 DEF Ahead
  <1>10. ASSUME NEW alerts2
         PROVE  WorkOf(s, more, queued, alerts2, hits)
    <2>1. ASSUME NEW i \in DOMAIN more, more[i].to # "response", NEW j \in DOMAIN queued, queued[j].stream = s
          PROVE  Before(queued[j], more[i].event)
      <3>1. Before(queued[j], first) /\ more[i].event.hit = first.hit
        BY <1>5, <1>7, <2>1
      <3> QED
        BY <3>1 DEF Before
    <2> QED
      BY <1>5, <1>7, <2>1 DEF WorkOf
  <1> QED
    BY <1>6, <1>10

LEMMA AlertAddRisk ==
    ASSUME AllowInv, AlertInv, NEW s \in Streams, AddRisk(s)
    PROVE  AlertInv'
  <1> DEFINE work == stream[s].work
             rest == Tail(work)
             e == [Head(work).event EXCEPT !.kind = "risk"]
  <1>1. PICK crossed \in SUBSET Sinks :
           LET Told(k) == IF k \in crossed /\ config[k] > 0 THEN <<[to |-> k, event |-> e]>> ELSE <<>>
           IN /\ crossings' = [all |-> crossings.all + Cardinality(crossed),
                               alerts |-> crossings.alerts + Len(Told("alert"))]
              /\ stream' = [stream EXCEPT ![s].work = Told("alert") \o Told("response") \o Tail(@)]
    BY DEF AddRisk
  <1>2. /\ UNCHANGED <<config, sink, lost, ruleHits, suppressed, quiet>> /\ work # <<>> /\ Head(work).to = "risk"
    BY DEF AddRisk, Unaffected
  <1> DEFINE told == "alert" \in crossed /\ config["alert"] > 0
             answered == "response" \in crossed /\ config["response"] > 0
             A == IF told THEN <<[to |-> "alert", event |-> e]>> ELSE <<>>
             B == IF answered THEN <<[to |-> "response", event |-> e]>> ELSE <<>>
             r == [stream[s] EXCEPT !.work = A \o B \o rest]
  <1>3. stream \in [Streams -> StreamOf(SafeCalls)] /\ work \in Seq(Call) /\ ruleHits \in Nat
    BY AlertTypes DEF AllowInv
  <1>4. WorkOf(s, work, Queued, Alerts, ruleHits)
    BY DEF AlertInv
  <1>5. stream' = [stream EXCEPT ![s] = r] /\ r.work = A \o B \o rest /\ crossings'.alerts = crossings.alerts + Len(A)
    BY <1>1, <1>3 DEF StreamOf
  <1>6. Head(work) = work[1] /\ work[1] \in Call /\ 1 \in DOMAIN work /\ AlertsIn(work) = {}
    <2> DEFINE w == work
               old == Queued
               all == Alerts
    <2>1. w \in Seq(Call) /\ w # <<>> /\ WorkOf(s, w, old, all, ruleHits)
      BY <1>2, <1>3, <1>4
    <2> HIDE DEF w, old, all, work
    <2>2. /\ Head(w) = w[1] /\ w[1] \in Call /\ 1 \in DOMAIN w
          /\ AlertsIn(w) = IF w[1].to = "alert" THEN {w[1].event} ELSE {}
      BY <2>1, WorkParts
    <2>3. w = work
      BY DEF w
    <2> QED
      BY <1>2, <2>2, <2>3
  <1>7. e \in Events /\ e.stream = work[1].event.stream /\ e.hit = work[1].event.hit /\ e.kind = "risk"
        /\ work[1].to = "risk" /\ e.stream = s /\ e.hit <= ruleHits
    <2>1. work[1].event \in Events /\ work[1].event.stream = s /\ work[1].event.hit <= ruleHits
      BY <1>4, <1>6 DEF WorkOf, Call
    <2> QED
      BY <1>2, <1>6, <2>1 DEF Events
  <1> HIDE DEF e
  <1>8. A \in Seq(Call) /\ OneCall(A, "alert", e) /\ B \in Seq(Call) /\ OneCall(B, "response", e)
    <2>1. told \in BOOLEAN /\ answered \in BOOLEAN /\ "alert" \in Sinks /\ "response" \in Sinks
      BY DEF Sinks
    <2> HIDE DEF told, answered
    <2> QED
      BY <1>7, <2>1, ToldIsOne
  <1> HIDE DEF work, rest, A, B, r
  <1> DEFINE more == Alerts'
             new == IF A = <<>> THEN {} ELSE {e}
  <1>9. /\ e \notin Alerts /\ AlertsIn(r.work) = new
        /\ WorkOf(s, r.work, Queued, more, ruleHits)
    <2> DEFINE old == Queued
               all == Alerts
               hits == ruleHits
    <2>1. /\ work \in Seq(Call) /\ work # <<>> /\ WorkOf(s, work, old, all, hits)
          /\ work[1].to = "risk" /\ e \in Events /\ e.stream = work[1].event.stream
          /\ e.hit = work[1].event.hit /\ e.kind = "risk"
      BY <1>2, <1>3, <1>4, <1>7
    <2> HIDE DEF more, old, all, hits
    <2> DEFINE left == r.work
    <2>2. Ahead(left, Tail(work), e, A)
      <3>1. left = A \o B \o rest /\ rest \in Seq(Call)
        BY <1>5, <2>1 DEF rest
      <3> HIDE DEF left
      <3>2. Ahead(left, rest, e, A)
        BY <1>8, <3>1, TwoAhead
      <3> QED
        BY <3>2 DEF rest
    <2> HIDE DEF left
    <2>3. e \notin all
      BY <2>1, <2>2, RiskCalls
    <2>5. AlertsIn(left) = new
      <3> DEFINE others == Tail(work)
      <3>1. \A i \in DOMAIN others : others[i].to # "alert"
        BY <2>1, WorkParts
      <3>2. Ahead(left, others, e, A)
        BY <2>2
      <3> HIDE DEF others
      <3>3. \A x : x \in AlertsIn(left) <=> A # <<>> /\ x = e
        BY <3>1, <3>2, AlertsAhead
      <3> QED
        BY <3>3
    <2>4. WorkOf(s, left, old, more, hits)
      BY <2>1, <2>2, RiskCalls
    <2> QED
      BY <2>3, <2>4, <2>5 DEF all, old, hits, left
  <1>10. Queued' = Queued /\ Sent' = Sent
    BY <1>2 DEF Queued, Taken, Sent
  <1>11. Pending = Others(s) /\ Pending' = Others(s) \cup new
    <2>1. Pending = Others(s) \cup AlertsIn(stream[s].work)
      BY PendingSplit
    <2>2. Pending' = Others(s) \cup AlertsIn(r.work)
      BY <1>5, PendingThen
    <2> QED
      BY <1>6, <1>9, <2>1, <2>2 DEF work
  <1>12. Alerts' = Alerts \cup new /\ Pending' = Pending \cup new
    BY <1>10, <1>11 DEF Alerts
  <1>13. /\ IsFiniteSet(Alerts) /\ Alerts \subseteq Events /\ \A a \in Alerts : a.hit <= ruleHits
         /\ Pending \cap Sent = {} /\ Len(Queued) = Cardinality(ToSet(Queued)) /\ InOrder(Queued)
         /\ Accounts /\ quiet \in Nat /\ suppressed \in Nat /\ crossings.alerts \in Nat
    BY DEF AlertInv
  <1>14. Pending' \cap Sent' = {}
    BY <1>9, <1>10, <1>12, <1>13 DEF Alerts
  <1>15. new \subseteq Events /\ \A a \in new : a.stream = s /\ a.hit <= ruleHits
    BY <1>7
  <1>16. IsFiniteSet(Alerts') /\ crossings'.alerts \in Nat /\ Accounts'
    <2>1. CASE A = <<>>
      <3>1. Alerts' = Alerts /\ Len(A) = 0
        BY <1>8, <1>12, <2>1 DEF OneCall
      <3>2. crossings'.alerts = crossings.alerts
        BY <1>5, <1>13, <3>1
      <3> QED
        BY <1>2, <1>13, <3>1, <3>2 DEF Accounts
    <2>2. CASE A # <<>>
      <3>1. Alerts' = Alerts \cup {e} /\ Len(A) = 1
        BY <1>8, <1>12, <2>2 DEF OneCall
      <3>2. /\ IsFiniteSet(Alerts') /\ Cardinality(Alerts) \in Nat /\ Cardinality(Alerts') = Cardinality(Alerts) + 1
            /\ Cardinality(Hidden(Alerts')) = Cardinality(Hidden(Alerts))
        BY <1>7, <1>9, <1>13, <3>1, OneMoreAlert
      <3>3. crossings'.alerts = crossings.alerts + 1
        BY <1>5, <3>1
      <3>4. ASSUME config.alert > 0
            PROVE  ruleHits + crossings'.alerts = quiet + Cardinality(Alerts')
        <4> DEFINE all == Cardinality(Alerts)
                   h == ruleHits
                   c == crossings.alerts
                   q == quiet
        <4>1. h + c = q + all /\ h \in Nat /\ c \in Nat /\ q \in Nat /\ all \in Nat
          BY <1>3, <1>13, <3>2, <3>4 DEF Accounts
        <4>2. Cardinality(Alerts') = all + 1 /\ crossings'.alerts = c + 1
          BY <3>2, <3>3
        <4> HIDE DEF all, h, c, q
        <4>3. h + (c + 1) = q + (all + 1)
          BY <4>1
        <4> QED
          BY <4>2, <4>3 DEF h, q
      <3>5. config.alert > 0 => suppressed = quiet + Cardinality(Hidden(Alerts'))
        BY <1>13, <3>2 DEF Accounts
      <3> QED
        BY <1>2, <1>13, <3>2, <3>3, <3>4, <3>5 DEF Accounts
    <2> QED
      BY <2>1, <2>2
  <1>17. \A u \in Streams : WorkOf(u, stream'[u].work, Queued', Alerts', ruleHits')
    <2>1. ruleHits' \in Nat /\ ruleHits <= ruleHits' /\ WorkOf(s, r.work, Queued', Alerts', ruleHits')
      BY <1>2, <1>3, <1>9, <1>10
    <2>2. \A a \in Alerts' : a \in Alerts \/ a.stream = s
      BY <1>12, <1>15
    <2>3. \A j \in DOMAIN Queued' : Queued'[j].stream = s \/ \E i \in DOMAIN Queued : Queued[i] = Queued'[j]
      BY <1>10
    <2> QED
      BY <1>5, <2>1, <2>2, <2>3, WorksThen
  <1>18. Alerts' \subseteq Events /\ \A a \in Alerts' : a.hit <= ruleHits'
    BY <1>2, <1>12, <1>13, <1>15
  <1>19. Len(Queued') = Cardinality(ToSet(Queued')) /\ InOrder(Queued') /\ quiet' \in Nat /\ suppressed' \in Nat
    BY <1>2, <1>10, <1>13
  <1> QED
    BY <1>14, <1>16, <1>17, <1>18, <1>19 DEF AlertInv

\* An event taken up stays in its place, and so does one that was served.
LEMMA HandedOver ==
    ASSUME NEW S, NEW a \in Seq(S), NEW b \in Seq(S), NEW c \in Seq(S)
    PROVE  /\ c # <<>> => a \o <<Head(c)>> \o Tail(c) = a \o <<>> \o c
           /\ (a \o b) \o <<>> \o c = a \o b \o c
  <1>1. a \o <<>> = a
    OBVIOUS
  <1>2. ASSUME c # <<>>
        PROVE  a \o <<Head(c)>> \o Tail(c) = a \o c
    BY <1>2
  <1>3. (a \o b) \o <<>> = a \o b
    <2> DEFINE ab == a \o b
    <2>1. ab \in Seq(S)
      BY ConcatProperties
    <2> HIDE DEF ab
    <2>2. ab \o <<>> = ab
      BY <2>1
    <2> QED
      BY <2>2 DEF ab
  <1> QED
    BY <1>1, <1>2, <1>3, Zenon

\* The goroutines and the end of the program leave every event in its place.
LEMMA QueuedStays ==
    ASSUME AllowInv, (\E k \in Sinks : Goroutine(k)) \/ Shutdown
    PROVE  Queued' = Queued
  <1> DEFINE a == sink["alert"]
             n == sink'["alert"]
  <1>1. "alert" \in Sinks /\ sink \in [Sinks -> SinkOf(Events)]
    BY DEF AllowInv, Sinks
  <1>2. a.served \in Seq(Events) /\ a.busy \in Seq(Events) /\ a.queue \in Seq(Events)
    BY <1>1 DEF SinkOf
  <1>3. \/ n.served = a.served /\ n.busy = a.busy /\ n.queue = a.queue
        \/ /\ a.busy = <<>> /\ a.queue # <<>>
           /\ n.served = a.served /\ n.busy = <<Head(a.queue)>> /\ n.queue = Tail(a.queue)
        \/ n.served = a.served \o a.busy /\ n.busy = <<>> /\ n.queue = a.queue
    <2>1. ASSUME NEW k \in Sinks, k # "alert", Goroutine(k)
          PROVE  n = a
      BY <1>1, <2>1 DEF Goroutine, Take, Finish, Stop
    <2>2. CASE Take("alert")
      BY <1>1, <2>2 DEF Take, SinkOf
    <2>3. CASE Finish("alert")
      BY <1>1, <2>3 DEF Finish, SinkOf
    <2>4. CASE Stop("alert")
      BY <1>1, <2>4 DEF Stop, SinkOf
    <2>5. CASE Shutdown
      <3>1. n = [a EXCEPT !.stopped = @ \/ "alert" \in Closing(main')]
        BY <1>1, <2>5 DEF Shutdown
      <3> QED
        BY <1>1, <3>1 DEF SinkOf
    <2> QED
      BY <2>1, <2>2, <2>3, <2>4, <2>5 DEF Goroutine
  <1> DEFINE x == a.served
             y == a.busy
             z == a.queue
  <1>4. Queued = x \o y \o z /\ Queued' = n.served \o n.busy \o n.queue
    BY DEF Queued, Taken
  <1>5. /\ x \in Seq(Events) /\ y \in Seq(Events) /\ z \in Seq(Events)
        /\ \/ n.served = x /\ n.busy = y /\ n.queue = z
           \/ y = <<>> /\ z # <<>> /\ n.served = x /\ n.busy = <<Head(z)>> /\ n.queue = Tail(z)
           \/ n.served = x \o y /\ n.busy = <<>> /\ n.queue = z
    BY <1>2, <1>3
  <1> HIDE DEF x, y, z, a, n
  <1>6. CASE n.served = x /\ n.busy = y /\ n.queue = z
    BY <1>4, <1>6, Zenon
  <1>7. CASE y = <<>> /\ z # <<>> /\ n.served = x /\ n.busy = <<Head(z)>> /\ n.queue = Tail(z)
    <2>1. x \o <<Head(z)>> \o Tail(z) = x \o <<>> \o z
      BY <1>5, <1>7, HandedOver
    <2> QED
      BY <1>4, <1>7, <2>1, Zenon
  <1>8. CASE n.served = x \o y /\ n.busy = <<>> /\ n.queue = z
    <2>1. (x \o y) \o <<>> \o z = x \o y \o z
      BY <1>5, HandedOver
    <2> QED
      BY <1>4, <1>8, <2>1, Zenon
  <1> QED
    BY <1>5, <1>6, <1>7, <1>8

LEMMA AlertStep ==
    ASSUME IdentityInv, AllowInv, AlertInv, SinkInv, [Next]_vars
    PROVE  AlertInv'
  <1>1. stream \in [Streams -> StreamOf(SafeCalls)]
    BY DEF AllowInv
  <1>2. CASE UNCHANGED <<config, hitVars>>
    <2>1. Queued' = Queued
      BY <1>2 DEF Queued, Taken, hitVars
    <2> QED
      BY <1>2, <2>1, AlertSame DEF hitVars
  <1>3. ASSUME NEW s \in Streams, NewStream(s) \/ Learn(s) \/ Return(s)
        PROVE  AlertInv'
    <2>1. UNCHANGED <<config, sink, lost, ruleHits, suppressed, quiet, crossings>>
      BY <1>3 DEF NewStream, Learn, Return, Unaffected
    <2>2. Queued' = Queued
      BY <2>1 DEF Queued, Taken
    <2>3. \A u \in Streams : stream'[u].work = stream[u].work
      <3>1. CASE NewStream(s)
        <4>1. PICK packet \in config.packets :
                 stream' = [stream EXCEPT ![s].at = "match", ![s].packet = packet,
                                          ![s].who = Enrich(entries, packet)]
          BY <3>1 DEF NewStream
        <4> DEFINE q == [stream[s] EXCEPT !.at = "match", !.packet = packet, !.who = Enrich(entries, packet)]
        <4>2. stream' = [stream EXCEPT ![s] = q] /\ q.work = stream[s].work
          BY <1>1, <4>1 DEF StreamOf
        <4> HIDE DEF q
        <4> QED
          BY <1>1, <4>2
      <3>2. CASE Learn(s)
        <4>1. PICK an \in analyzers : \E value \in config.reports[an] :
                 stream' = [stream EXCEPT ![s].at = "match", ![s].props[an] = value,
                                          ![s].next = 1, ![s].told = <<>>]
          BY <3>2 DEF Learn
        <4>2. PICK value \in config.reports[an] :
                 stream' = [stream EXCEPT ![s].at = "match", ![s].props[an] = value,
                                          ![s].next = 1, ![s].told = <<>>]
          BY <4>1
        <4> DEFINE q == [stream[s] EXCEPT !.at = "match", !.props[an] = value, !.next = 1, !.told = <<>>]
        <4>3. stream' = [stream EXCEPT ![s] = q] /\ q.work = stream[s].work
          BY <1>1, <4>2 DEF StreamOf
        <4> HIDE DEF q
        <4> QED
          BY <1>1, <4>3
      <3>3. CASE Return(s)
        BY <1>1, <3>3 DEF Return, StreamOf
      <3> QED
        BY <1>3, <3>1, <3>2, <3>3
    <2> QED
      BY <2>1, <2>2, <2>3, AlertSame
  <1>4. ASSUME NEW s \in Streams, Worker(s)
        PROVE  AlertInv'
    BY <1>3, <1>4, AlertEvaluate, AlertTell, AlertAddRisk DEF Worker
  <1>5. CASE (\E k \in Sinks : Goroutine(k)) \/ Shutdown
    <2>1. UNCHANGED <<config, stream, lost, ruleHits, suppressed, quiet, crossings>>
      BY <1>5 DEF Goroutine, Take, Finish, Stop, Unaffected, Shutdown
    <2> QED
      BY <1>5, <2>1, QueuedStays, AlertSame
  <1>6. CASE Compile \/ Run \/ Inventory
    BY <1>2, <1>6 DEF Compile, Run, Inventory, Change, RefreshStep, Tick, ListDomains, DumpDomain,
                      Store, RefreshStops
  <1>7. CASE UNCHANGED vars
    BY <1>2, <1>7 DEF vars
  <1> QED
    BY <1>4, <1>5, <1>6, <1>7 DEF Next

LEMMA SinkInitInv ==
    ASSUME Init
    PROVE  SinkInv
  <1>1. /\ config \in Configs /\ sink = [k \in Sinks |-> IdleSink(config[k])]
        /\ lost = [k \in Sinks |-> [dropped |-> {}, discarded |-> {}]]
    BY DEF Init
  <1>2. ASSUME NEW k \in Sinks
        PROVE  Len(sink[k].queue) <= sink[k].size /\ Len(sink[k].busy) <= 1
    <2>1. config[k] \in Nat
      <3>1. config.alert \in Nat /\ config.response \in Nat
        BY <1>1, ConfigAssumption
      <3> QED
        BY <3>1 DEF Sinks
    <2>2. sink[k].queue = <<>> /\ sink[k].busy = <<>> /\ sink[k].size = config[k]
      BY <1>1 DEF IdleSink
    <2>3. Len(<<>>) = 0
      OBVIOUS
    <2> QED
      BY <2>1, <2>2, <2>3
  <1> QED
    BY <1>1, <1>2 DEF SinkInv

\* An event is queued where there is room for it, or counted.
LEMMA SinkTell ==
    ASSUME AllowInv, SinkInv, NEW s \in Streams, Tell(s)
    PROVE  SinkInv'
  <1> DEFINE call == Head(stream[s].work)
             k == call.to
             e == call.event
  <1>1. k \in Sinks /\ Emit(k, e) /\ stream[s].work # <<>>
    BY DEF Tell
  <1>2. e \in Events
    BY <1>1, HeadCall DEF SafeCalls
  <1> HIDE DEF call, k, e
  <1>3. /\ sink \in [Sinks -> SinkOf(Events)]
        /\ lost \in [Sinks -> [dropped : SUBSET Events, discarded : SUBSET Events]]
        /\ \A j \in Sinks : Len(sink[j].queue) <= sink[j].size /\ Len(sink[j].busy) <= 1
    BY DEF AllowInv, SinkInv
  <1>4. CASE sink' = [sink EXCEPT ![k].queue = Append(@, e)] /\ UNCHANGED lost /\ ~ Full(k)
    <2>1. sink[k].queue \in Seq(Events) /\ sink[k].size \in Nat
      BY <1>1, <1>3 DEF SinkOf
    <2>2. Len(sink[k].queue) # sink[k].size /\ Len(sink[k].queue) <= sink[k].size
      BY <1>1, <1>3, <1>4 DEF Full
    <2>3. /\ sink'[k].queue = Append(sink[k].queue, e) /\ sink'[k].size = sink[k].size
          /\ sink'[k].busy = sink[k].busy
      BY <1>1, <1>3, <1>4 DEF SinkOf
    <2>4. Len(Append(sink[k].queue, e)) = Len(sink[k].queue) + 1
      BY <1>2, <2>1
    <2>5. Len(sink'[k].queue) <= sink'[k].size
      <3> DEFINE n == Len(sink[k].queue)
                 size == sink[k].size
      <3>1. n \in Nat /\ size \in Nat /\ n # size /\ n <= size
        BY <2>1, <2>2
      <3>2. Len(sink'[k].queue) = n + 1 /\ sink'[k].size = size
        BY <2>3, <2>4
      <3> HIDE DEF n, size
      <3> QED
        BY <3>1, <3>2
    <2>6. \A j \in Sinks \ {k} : sink'[j] = sink[j]
      BY <1>3, <1>4
    <2>7. \A j \in Sinks : Len(sink'[j].queue) <= sink'[j].size /\ Len(sink'[j].busy) <= 1
      BY <1>1, <1>3, <2>3, <2>5, <2>6
    <2> QED
      BY <1>3, <1>4, <2>7 DEF SinkInv
  <1>5. CASE /\ \/ lost' = [lost EXCEPT ![k].discarded = @ \cup {e}]
                \/ lost' = [lost EXCEPT ![k].dropped = @ \cup {e}]
             /\ UNCHANGED sink
    <2>1. lost' \in [Sinks -> [dropped : SUBSET Events, discarded : SUBSET Events]]
      BY <1>1, <1>2, <1>3, <1>5
    <2> QED
      BY <1>3, <1>5, <2>1 DEF SinkInv
  <1> QED
    BY <1>1, <1>4, <1>5 DEF Emit

\* A goroutine takes an event up with empty hands only.
LEMMA SinkWorks ==
    ASSUME AllowInv, SinkInv, (\E k \in Sinks : Goroutine(k)) \/ Shutdown
    PROVE  SinkInv'
  <1>1. /\ sink \in [Sinks -> SinkOf(Events)] /\ UNCHANGED <<config, lost>>
        /\ lost \in [Sinks -> [dropped : SUBSET Events, discarded : SUBSET Events]]
        /\ \A j \in Sinks : Len(sink[j].queue) <= sink[j].size /\ Len(sink[j].busy) <= 1
    BY DEF AllowInv, SinkInv, Goroutine, Take, Finish, Stop, Unaffected, Shutdown
  <1>2. ASSUME NEW j \in Sinks
        PROVE  Len(sink'[j].queue) <= sink'[j].size /\ Len(sink'[j].busy) <= 1
    <2> DEFINE r == sink[j]
               n == sink'[j]
    <2>1. r \in SinkOf(Events) /\ r.queue \in Seq(Events) /\ r.size \in Nat
      BY <1>1 DEF SinkOf
    <2>2. Len(r.queue) <= r.size /\ Len(r.busy) <= 1
      BY <1>1
    <2>3. \/ n.queue = r.queue /\ n.size = r.size /\ n.busy = r.busy
          \/ n.queue = r.queue /\ n.size = r.size /\ n.busy = <<>>
          \/ n.queue = Tail(r.queue) /\ r.queue # <<>> /\ n.size = r.size /\ n.busy = <<Head(r.queue)>>
      <3>1. ASSUME NEW k \in Sinks, k # j, Goroutine(k)
            PROVE  n = r
        BY <1>1, <3>1 DEF Goroutine, Take, Finish, Stop
      <3>2. CASE Take(j)
        BY <1>1, <2>1, <3>2 DEF Take, SinkOf
      <3>3. CASE Finish(j)
        BY <1>1, <2>1, <3>3 DEF Finish, SinkOf
      <3>4. CASE Stop(j)
        BY <1>1, <2>1, <3>4 DEF Stop, SinkOf
      <3>5. CASE Shutdown
        <4>1. n = [r EXCEPT !.stopped = @ \/ j \in Closing(main')]
          BY <1>1, <3>5 DEF Shutdown
        <4> QED
          BY <2>1, <4>1 DEF SinkOf
      <3> QED
        BY <3>1, <3>2, <3>3, <3>4, <3>5 DEF Goroutine
    <2>4. CASE n.queue = Tail(r.queue) /\ r.queue # <<>> /\ n.size = r.size /\ n.busy = <<Head(r.queue)>>
      <3>1. Len(n.busy) = 1
        BY <2>4
      <3>2. Len(n.queue) <= n.size
        <4> DEFINE q == r.queue
                   size == r.size
        <4>1. q \in Seq(Events) /\ q # <<>> /\ Len(q) <= size /\ size \in Nat /\ n.queue = Tail(q) /\ n.size = size
          BY <2>1, <2>2, <2>4
        <4> HIDE DEF q, size, n
        <4>2. Len(Tail(q)) = Len(q) - 1 /\ Len(q) \in Nat
          BY <4>1
        <4> QED
          BY <4>1, <4>2
      <3> QED
        BY <3>1, <3>2
    <2>5. Len(<<>>) = 0
      OBVIOUS
    <2> HIDE DEF r, n
    <2>6. Len(n.queue) <= n.size /\ Len(n.busy) <= 1
      <3>1. CASE n.queue = r.queue /\ n.size = r.size /\ n.busy = r.busy
        BY <2>2, <3>1
      <3>2. CASE n.queue = r.queue /\ n.size = r.size /\ n.busy = <<>>
        <4>1. Len(n.busy) = 0
          BY <2>5, <3>2
        <4>2. Len(n.queue) <= n.size
          BY <2>2, <3>2
        <4> QED
          BY <4>1, <4>2
      <3> QED
        BY <2>3, <2>4, <3>1, <3>2 DEF r, n
    <2> QED
      BY <2>6 DEF n
  <1> QED
    BY <1>1, <1>2 DEF SinkInv

LEMMA SinkStep ==
    ASSUME AllowInv, SinkInv, [Next]_vars
    PROVE  SinkInv'
  <1>1. CASE UNCHANGED <<sink, lost>>
    BY <1>1 DEF SinkInv, Events
  <1>2. ASSUME NEW s \in Streams, Worker(s)
        PROVE  SinkInv'
    <2>1. CASE Tell(s)
      BY <2>1, SinkTell
    <2>2. CASE ~ Tell(s)
      <3>1. UNCHANGED <<sink, lost>>
        BY <1>2, <2>2 DEF Worker, NewStream, Learn, Evaluate, Return, AddRisk, Log
      <3> QED
        BY <1>1, <3>1
    <2> QED
      BY <2>1, <2>2
  <1>3. CASE (\E k \in Sinks : Goroutine(k)) \/ Shutdown
    BY <1>3, SinkWorks
  <1>4. CASE Compile \/ Run \/ Inventory \/ UNCHANGED vars
    BY <1>1, <1>4 DEF Compile, Run, Inventory, vars, hitVars
  <1> QED
    BY <1>2, <1>3, <1>4 DEF Next

\* The counters of the inventory.
CountInv == changes <= MaxChanges /\ failures \in Nat /\ trueSince >= -1

LEMMA CountStep ==
    ASSUME IdentityInv, CountInv, [Next]_vars
    PROVE  CountInv'
  <1>1. /\ changes \in Nat /\ MaxChanges \in Nat /\ failures \in Nat /\ trueSince \in Int
        /\ trueSince >= -1 /\ changes <= MaxChanges /\ refresh.began \in Nat
    BY IdentityAssumption DEF IdentityInv, RefreshType, CountInv
  <1>2. \/ UNCHANGED <<changes, trueSince>>
        \/ changes' = changes + 1 /\ changes < MaxChanges /\ UNCHANGED trueSince
        \/ UNCHANGED changes /\ trueSince' = refresh.began
    <2>1. CASE Compile \/ Run \/ Shutdown \/ UNCHANGED vars
      BY <2>1 DEF Compile, Run, Shutdown, vars, identityVars
    <2>2. CASE \E s \in Streams : Worker(s)
      BY <2>2 DEF Worker, NewStream, Learn, Evaluate, Return, Tell, AddRisk, Unaffected, identityVars
    <2>3. CASE \E k \in Sinks : Goroutine(k)
      BY <2>3 DEF Goroutine, Take, Finish, Stop, Unaffected, identityVars
    <2>4. CASE Inventory
      BY <2>4 DEF Inventory, Change, RefreshStep, Tick, ListDomains, DumpDomain, Store, RefreshStops
    <2> QED
      BY <2>1, <2>2, <2>3, <2>4 DEF Next
  <1>3. failures' \in Nat
    <2>1. CASE Compile \/ Run \/ Shutdown \/ UNCHANGED vars
      BY <1>1, <2>1 DEF Compile, Run, Shutdown, vars, identityVars
    <2>2. CASE \E s \in Streams : Worker(s)
      BY <1>1, <2>2 DEF Worker, NewStream, Learn, Evaluate, Return, Tell, AddRisk, Unaffected, identityVars
    <2>3. CASE \E k \in Sinks : Goroutine(k)
      BY <1>1, <2>3 DEF Goroutine, Take, Finish, Stop, Unaffected, identityVars
    <2>4. CASE Inventory
      <3>1. failures' = failures \/ failures' = failures + 1
        BY <2>4 DEF Inventory, Change, RefreshStep, Tick, ListDomains, DumpDomain, Store, RefreshStops,
                    CommandFails
      <3> QED
        BY <1>1, <3>1
    <2> QED
      BY <2>1, <2>2, <2>3, <2>4 DEF Next
  <1>4. changes' <= MaxChanges /\ trueSince' >= -1
    BY <1>1, <1>2
  <1> QED
    BY <1>3, <1>4 DEF CountInv

LEMMA TypesFollow ==
    ASSUME IdentityInv, AllowInv, MatchInv, AlertInv, SinkInv, CountInv
    PROVE  InspectionTypeOK
  <1>1. IdentityTypeOK
    <2>1. entries \in Seq(Entry)
      <3>1. PICK rest \in Seq(Entry) : entries = StaticEntries \o rest
        BY DEF IdentityInv, InUse
      <3>2. StaticEntries \in Seq(Entry)
        BY IdentityAssumption
      <3> QED
        BY <3>1, <3>2, ConcatProperties
    <2>2. trueSince \in -1..MaxChanges
      <3>1. /\ trueSince \in Int /\ changes \in Nat /\ MaxChanges \in Nat /\ trueSince <= changes
            /\ trueSince >= -1 /\ changes <= MaxChanges
        BY IdentityAssumption DEF IdentityInv, CountInv
      <3> QED
        BY <3>1
    <2> QED
      BY <2>1, <2>2 DEF IdentityTypeOK, IdentityInv, RefreshType, DomainsType, CountInv
  <1>2. /\ main \in {"compile", "run", "closeResponse", "closeAlert", "closeIdentity"} \cup Ended
        /\ analyzers \subseteq Analyzers /\ compiled \in 0..Len(config.rules)
    BY DEF MatchInv, Started
  <1>3. ASSUME NEW s \in Streams
        PROVE  /\ stream[s].at \in {"unseen", "match", "idle", "settled"}
               /\ stream[s].props \in [Analyzers -> Values \cup {None}]
               /\ stream[s].next \in 1..(Len(config.rules) + 1)
               /\ stream[s].work \in Seq([to : Sinks \cup {"risk"}, event : Events])
    <2>1. stream[s] \in StreamOf(SafeCalls)
      BY DEF AllowInv
    <2>2. stream[s].next \in 1..(Len(config.rules) + 1)
      BY DEF MatchInv, Matched, MatchOf
    <2>3. stream[s].work \in Seq(Call)
      BY AlertTypes
    <2> QED
      BY <2>1, <2>2, <2>3 DEF StreamOf, Call
  <1>4. ASSUME NEW k \in Sinks
        PROVE  /\ sink[k].queue \in Seq(Events) /\ Len(sink[k].queue) <= sink[k].size
               /\ sink[k].busy \in Seq(Events) /\ Len(sink[k].busy) <= 1
               /\ lost[k].dropped \cup lost[k].discarded \subseteq Events
    <2>1. sink[k] \in SinkOf(Events) /\ lost[k] \in [dropped : SUBSET Events, discarded : SUBSET Events]
      BY DEF AllowInv, SinkInv
    <2> QED
      BY <2>1 DEF SinkOf, SinkInv
  <1>5. {ruleHits, suppressed, quiet} \subseteq Nat
    BY DEF AllowInv, AlertInv
  <1> QED
    BY <1>1, <1>2, <1>3, <1>4, <1>5 DEF InspectionTypeOK

LEMMA AlertsFollow ==
    ASSUME IdentityInv, AllowInv, MatchInv, AlertInv, SinkInv, CountInv
    PROVE  AlertsExact
  <1>1. InspectionTypeOK
    BY TypesFollow
  <1>2. HitsAccounted
    <2> DEFINE pending == UNION {{c.event : c \in {c \in ToSet(stream[s].work) : c.to = "alert"}} : s \in Streams}
               known == ToSet(Taken("alert")) \cup lost["alert"].dropped \cup lost["alert"].discarded
    <2>1. pending = Pending /\ known = Sent
      BY DEF Pending, AlertsIn, Sent, Queued
    <2>2. known \cup pending = Alerts
      BY <2>1 DEF Alerts
    <2>3. {e \in known \cup pending : e.kind = "suppressed"} = Hidden(Alerts)
      BY <2>2 DEF Hidden
    <2>4. Len(Taken("alert")) = Cardinality(ToSet(Taken("alert")))
      BY DEF AlertInv, Queued
    <2>5. pending \cap known = {}
      BY <2>1 DEF AlertInv
    <2>6. config.alert > 0 => /\ ruleHits + crossings.alerts = quiet + Cardinality(known \cup pending)
                              /\ suppressed = quiet + Cardinality({e \in known \cup pending : e.kind = "suppressed"})
      <3> DEFINE heard == known \cup pending
                 unheard == {e \in known \cup pending : e.kind = "suppressed"}
      <3>1. heard = Alerts /\ unheard = Hidden(Alerts)
        BY <2>2, <2>3
      <3> HIDE DEF heard, unheard
      <3>2. config.alert > 0 => ruleHits + crossings.alerts = quiet + Cardinality(heard)
                                /\ suppressed = quiet + Cardinality(unheard)
        BY <3>1 DEF AlertInv, Accounts
      <3> QED
        BY <3>2 DEF heard, unheard
    <2> HIDE DEF pending, known
    <2>7. config.alert > 0 =>
             /\ pending \cap known = {}
             /\ Len(Taken("alert")) = Cardinality(ToSet(Taken("alert")))
             /\ ruleHits + crossings.alerts = quiet + Cardinality(known \cup pending)
             /\ suppressed = quiet + Cardinality({e \in known \cup pending : e.kind = "suppressed"})
      BY <2>4, <2>5, <2>6
    <2> QED
      BY <2>7 DEF HitsAccounted, pending, known
  <1>3. EventsInOrder
    BY DEF AlertInv, InOrder, Before, Queued, EventsInOrder
  <1> QED
    BY <1>1, <1>2, <1>3 DEF AlertsExact

\* With any rules, allowlist, queue sizes, workers and order of the calls: every
\* counted hit and every alert about a risk is exactly once to be queued, queued,
\* posted, counted as dropped, given up after the end began or silenced by
\* configuration, and the events of a stream reach the webhook in the order of
\* its hits, a risk behind its hit (rulesetLogger.Log, riskAggregator.Add,
\* webhookAlertSink.Emit and run).
THEOREM AlertsAreExact == Spec => []AlertsExact
  <1> DEFINE Inv == IdentityInv /\ AllowInv /\ MatchInv /\ AlertInv /\ SinkInv /\ CountInv
  <1>1. Init => Inv
    <2>1. Init => CountInv
      <3>1. Init => changes = 0 /\ failures = 0 /\ trueSince = -1
        BY DEF Init, IdentityInit
      <3> QED
        BY <3>1, IdentityAssumption DEF CountInv
    <2> QED
      BY <2>1, IdentityInitInv, AllowInitInv, MatchInitInv, AlertInitInv, SinkInitInv
  <1>2. Inv /\ [Next]_vars => Inv'
    BY IdentityStep, AllowStep, MatchStep, AlertStep, SinkStep, CountStep
  <1>3. Spec => []Inv
    BY <1>1, <1>2, PTL DEF Spec
  <1>4. Inv => AlertsExact
    BY AlertsFollow
  <1> QED
    BY <1>3, <1>4, PTL

=============================================================================
