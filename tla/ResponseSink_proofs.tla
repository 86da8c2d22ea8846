------------------------ MODULE ResponseSink_proofs ------------------------
(***************************************************************************)
(* Type correctness of the response sink, and what an applied response and *)
(* a swallowed event say of the flows in the switch, for any machines,     *)
(* queue, cooldown, timeouts, and number of restarts.                      *)
(***************************************************************************)
EXTENDS ResponseSink, TLAPS

\* Nothing was attempted in the future.
Past == \A mac \in Macs : last[mac] <= clock

\* Both flows of an applied response last from the moment of its event.
AppliedFlows ==
    \A mac \in Macs :
        outcome[mac] = "installed" =>
            \A field \in Fields : expiry[mac][field] >= last[mac] + FlowTimeout

\* The first flow is there when the second one is asked for, if nobody released
\* the machine in between.
HalfWay ==
    (runner = "dl_dst" /\ outcome[target] = "started") =>
        expiry[target]["dl_src"] >= last[target] + FlowTimeout

IInv == TypeOK /\ Past /\ AppliedFlows /\ HalfWay

-----------------------------------------------------------------------------

LEMMA FlowTimeoutType == FlowTimeout \in Nat
<1> DEFINE seconds == HardTimeout \div Second
           whole == IF seconds = 0 THEN 1 ELSE seconds
<1>1. seconds \in Nat
  BY ResponseAssumption
<1> HIDE DEF seconds
<1>2. whole \in Nat
  BY <1>1
<1> HIDE DEF whole
<1>3. Second * whole \in Nat
  BY <1>2, ResponseAssumption
<1> QED
  BY <1>3 DEF FlowTimeout, whole, seconds

LEMMA InitInvariant == Init => IInv
<1> SUFFICES ASSUME Init PROVE IInv
  OBVIOUS
<1>1. TypeOK
  <2>1. queue \in Seq(Macs \cup {NoMac}) /\ Len(queue) <= QueueSize
    BY ResponseAssumption DEF Init
  <2>2. /\ clock \in 0..MaxTime /\ since \in 0..MaxTime
        /\ restarts \in 0..MaxRestarts
    BY ResponseAssumption DEF Init
  <2>3. /\ runner \in {"select", "done", "dl_src", "dl_dst"}
        /\ target \in Macs \cup {NoMac} /\ (runner \in Fields => target \in Macs)
    BY DEF Init, Fields
  <2>4. last \in [Macs -> (0..MaxTime) \cup {None}]
    BY DEF Init
  <2>5. /\ expiry \in [Macs -> [Fields -> Nat]]
        /\ outcome \in [Macs -> {"none", "started", "installed", "failed", "released"}]
    BY DEF Init
  <2>6. releasing \in Macs \cup {NoMac} /\ closing \in BOOLEAN
    BY DEF Init
  <2> QED
    BY <2>1, <2>2, <2>3, <2>4, <2>5, <2>6 DEF TypeOK
<1>2. Past
  <2> SUFFICES ASSUME NEW mac \in Macs PROVE last[mac] <= clock
    BY DEF Past
  <2>1. clock = 0 /\ last[mac] = -1
    BY DEF Init, None
  <2>2. -1 <= 0
    OBVIOUS
  <2> QED
    BY <2>1, <2>2
<1>3. AppliedFlows /\ HalfWay
  BY DEF Init, AppliedFlows, HalfWay
<1> QED
  BY <1>1, <1>2, <1>3 DEF IInv

\* A flow that is installed lasts until FlowTimeout from now.
LEMMA InstallProperty ==
  ASSUME TypeOK, NEW field \in Fields, runner = field
  PROVE  /\ Install(field) \in [Macs -> [Fields -> Nat]]
         /\ target \in Macs
         /\ Install(field)[target][field] = clock + FlowTimeout
         /\ \A mac \in Macs, f \in Fields :
               (mac # target \/ f # field) => Install(field)[mac][f] = expiry[mac][f]
  BY ResponseAssumption, FlowTimeoutType DEF TypeOK, Install, Fields

\* A command of the sink keeps the type of its variables.
LEMMA TypeInvariant == TypeOK /\ [Next]_vars => TypeOK'
<1> SUFFICES ASSUME TypeOK, [Next]_vars PROVE TypeOK'
  OBVIOUS
<1> USE ResponseAssumption DEF TypeOK, Fields, None
<1>1. CASE Tick
  BY <1>1 DEF Tick, process
<1>2. ASSUME NEW event \in Macs \cup {NoMac}, Enqueue(event) PROVE TypeOK'
  BY <1>2 DEF Enqueue
<1>3. CASE Skip
  BY <1>3 DEF Skip, Receive
<1>4. CASE Handle
  BY <1>4 DEF Handle, Receive, Due
<1>5. ASSUME NEW field \in Fields, AddFlow(field) PROVE TypeOK'
  <2>1. Install(field) \in [Macs -> [Fields -> Nat]] /\ target \in Macs
    BY <1>5, InstallProperty DEF AddFlow
  <2> QED
    BY <1>5, <2>1 DEF AddFlow
<1>6. ASSUME NEW field \in Fields, FailFlow(field) PROVE TypeOK'
  <2>1. Install(field) \in [Macs -> [Fields -> Nat]] /\ target \in Macs
    BY <1>6, InstallProperty DEF FailFlow
  <2> QED
    BY <1>6, <2>1 DEF FailFlow
<1>7. CASE Close
  BY <1>7 DEF Close
<1>8. CASE Stop
  BY <1>8 DEF Stop
<1>9. CASE Restart
  <2>1. expiry' \in [Macs -> [Fields -> Nat]]
    BY <1>9 DEF Restart, Without
  <2>2. queue' \in Seq(Macs \cup {NoMac}) /\ Len(queue') <= QueueSize
    BY <1>9 DEF Restart
  <2>3. restarts' \in 0..MaxRestarts
    BY <1>9 DEF Restart
  <2>4. last' \in [Macs -> (0..MaxTime) \cup {None}]
    BY <1>9 DEF Restart
  <2>5. /\ runner' = "select" /\ target' = NoMac /\ closing' = FALSE
        /\ since' \in 0..MaxTime
        /\ clock' \in 0..MaxTime /\ releasing' \in Macs \cup {NoMac}
        /\ outcome' \in [Macs -> {"none", "started", "installed", "failed", "released"}]
    BY <1>9 DEF Restart
  <2> QED
    BY <2>1, <2>2, <2>3, <2>4, <2>5
<1>10. ASSUME NEW mac \in Macs, ReleaseSrc(mac) PROVE TypeOK'
  BY <1>10 DEF ReleaseSrc, Without, Released, process
<1>11. CASE ReleaseDst
  BY <1>11 DEF ReleaseDst, Without, Released, process
<1>12. CASE Clear
  BY <1>12 DEF Clear, Without, Released, process
<1>13. CASE UNCHANGED vars
  BY <1>13 DEF vars
<1> QED
  BY <1>1, <1>2, <1>3, <1>4, <1>5, <1>6, <1>7, <1>8, <1>9, <1>10, <1>11,
     <1>12, <1>13 DEF Next

\* Time goes on, and an attempt is stamped with the present.
LEMMA PastInvariant == TypeOK /\ Past /\ [Next]_vars => Past'
<1> SUFFICES ASSUME TypeOK, Past, [Next]_vars PROVE Past'
  OBVIOUS
<1> \A mac \in Macs : last[mac] \in Int
  BY ResponseAssumption DEF TypeOK, None
<1>1. CASE UNCHANGED <<clock, last>> \/ (clock' = clock + 1 /\ last' = last)
  BY <1>1 DEF TypeOK, Past
<1>2. CASE Handle
  BY <1>2 DEF Handle, Receive, TypeOK, Past, None
<1>3. CASE Restart
  BY <1>3 DEF Restart, TypeOK, Past, None
<1> QED
  BY <1>1, <1>2, <1>3
  DEF Next, vars, process, Tick, Enqueue, Skip, Receive, AddFlow, FailFlow,
      Close, Stop, ReleaseSrc, ReleaseDst, Clear

\* Whatever takes a flow away says so in the history.
LEMMA ReleaseKeeps ==
  ASSUME TypeOK, AppliedFlows, HalfWay,
         NEW macs \in SUBSET Macs, NEW fields,
         outcome' = Released(macs),
         expiry' \in {expiry, Without(macs, fields)},
         UNCHANGED process
  PROVE  AppliedFlows' /\ HalfWay'
<1> USE DEF TypeOK, process, Fields
<1>1. \A mac \in Macs : mac \notin macs =>
         /\ outcome'[mac] = outcome[mac]
         /\ \A field \in Fields : expiry'[mac][field] = expiry[mac][field]
  BY DEF Released, Without
<1>2. \A mac \in macs : outcome'[mac] = "released"
  BY DEF Released
<1>3. AppliedFlows'
  BY <1>1, <1>2 DEF AppliedFlows
<1>4. HalfWay'
  BY <1>1, <1>2 DEF HalfWay
<1> QED
  BY <1>3, <1>4

LEMMA FlowsInvariant == IInv /\ [Next]_vars => AppliedFlows' /\ HalfWay'
<1> SUFFICES ASSUME TypeOK, Past, AppliedFlows, HalfWay, [Next]_vars
             PROVE  AppliedFlows' /\ HalfWay'
  BY DEF IInv
<1>1. CASE UNCHANGED <<runner, target, last, expiry, outcome>>
  BY <1>1 DEF AppliedFlows, HalfWay
<1>2. CASE Handle
  <2>1. runner' = "dl_src" /\ expiry' = expiry /\ Head(queue) \in Macs
    BY <1>2 DEF Handle, Receive, Due
  <2>2. \A mac \in Macs : mac # Head(queue) =>
            last'[mac] = last[mac] /\ outcome'[mac] = outcome[mac]
    BY <1>2 DEF Handle, TypeOK
  <2>3. outcome'[Head(queue)] = "started"
    BY <1>2, <2>1 DEF Handle, TypeOK
  <2> QED
    BY <2>1, <2>2, <2>3 DEF AppliedFlows, HalfWay
<1>3. ASSUME NEW field \in Fields, AddFlow(field) PROVE AppliedFlows' /\ HalfWay'
  <2>1. /\ target \in Macs
        /\ expiry'[target][field] = clock + FlowTimeout
        /\ \A mac \in Macs, f \in Fields :
              (mac # target \/ f # field) => expiry'[mac][f] = expiry[mac][f]
    BY <1>3, InstallProperty DEF AddFlow
  <2>2. expiry'[target][field] >= last[target] + FlowTimeout
    <3>1. clock \in Int /\ last[target] \in Int /\ last[target] <= clock
      BY <2>1, ResponseAssumption DEF Past, TypeOK, None
    <3> QED
      BY <2>1, <3>1, FlowTimeoutType
  <2>3. last' = last
    BY <1>3 DEF AddFlow
  <2>4. \A mac \in Macs : mac # target => outcome'[mac] = outcome[mac]
    BY <1>3, <2>1 DEF AddFlow, TypeOK
  <2>5. CASE field = "dl_src"
    <3>1. outcome' = outcome /\ target' = target
      BY <1>3, <2>5 DEF AddFlow
    <3> QED
      BY <2>1, <2>2, <2>3, <2>5, <3>1 DEF AppliedFlows, HalfWay, Fields
  <2>6. CASE field = "dl_dst"
    <3>1. runner' = "select" /\ runner = "dl_dst"
      BY <1>3, <2>6 DEF AddFlow
    <3>2. outcome'[target] = "installed" =>
              outcome[target] \in {"started", "installed"}
      BY <1>3, <2>1, <2>6 DEF AddFlow, TypeOK
    <3>3. outcome'[target] = "installed" =>
              expiry'[target]["dl_src"] >= last[target] + FlowTimeout
      BY <2>1, <2>6, <3>1, <3>2 DEF AppliedFlows, HalfWay, Fields
    <3> QED
      BY <2>1, <2>2, <2>3, <2>4, <2>6, <3>1, <3>3 DEF AppliedFlows, HalfWay, Fields
  <2> QED
    BY <2>5, <2>6 DEF Fields
<1>4. ASSUME NEW field \in Fields, FailFlow(field) PROVE AppliedFlows' /\ HalfWay'
  <2>1. /\ target \in Macs
        /\ \A mac \in Macs, f \in Fields :
              mac # target => expiry'[mac][f] = expiry[mac][f]
    BY <1>4, InstallProperty DEF FailFlow
  <2>2. /\ runner' = "select" /\ last' = last
        /\ outcome'[target] = "failed"
        /\ \A mac \in Macs : mac # target => outcome'[mac] = outcome[mac]
    BY <1>4, <2>1 DEF FailFlow, TypeOK
  <2> QED
    BY <2>1, <2>2 DEF AppliedFlows, HalfWay
<1>5. CASE Stop
  BY <1>5 DEF Stop, AppliedFlows, HalfWay
<1>6. CASE Restart
  BY <1>6 DEF Restart, AppliedFlows, HalfWay
<1>7. ASSUME NEW mac \in Macs, ReleaseSrc(mac) PROVE AppliedFlows' /\ HalfWay'
  BY <1>7, ReleaseKeeps DEF ReleaseSrc
<1>8. CASE ReleaseDst
  <2>1. {releasing} \in SUBSET Macs
    BY <1>8 DEF ReleaseDst, TypeOK
  <2> QED
    BY <1>8, <2>1, ReleaseKeeps DEF ReleaseDst
<1>9. CASE Clear
  BY <1>9, ReleaseKeeps DEF Clear
<1> QED
  BY <1>1, <1>2, <1>3, <1>4, <1>5, <1>6, <1>7, <1>8, <1>9
  DEF Next, vars, process, Tick, Enqueue, Skip, Receive, Close

\* The inductive invariant holds in every reachable state.
THEOREM Invariance == Spec => []IInv
<1>1. Init => IInv
  BY InitInvariant
<1>2. IInv /\ [Next]_vars => IInv'
  BY TypeInvariant, PastInvariant, FlowsInvariant DEF IInv
<1> QED
  BY <1>1, <1>2, PTL DEF Spec

\* The variables of the sink and of the switch keep their types, and the queue
\* its size.
THEOREM TypeCorrect == Spec => []TypeOK
<1>1. IInv => TypeOK
  BY DEF IInv
<1> QED
  BY <1>1, Invariance, PTL

\* A response counted as applied isolates its machine in both directions for
\* the whole seconds of the hard timeout, unless an operator releases it.
THEOREM AppliedCorrect == Spec => []AppliedHolds
<1>1. IInv => AppliedHolds
  <2> SUFFICES ASSUME IInv, NEW mac \in Macs, NEW field \in Fields,
                      outcome[mac] = "installed", clock < last[mac] + FlowTimeout
               PROVE  clock < expiry[mac][field]
    BY DEF AppliedHolds, Blocked, Active
  <2>1. last[mac] \in Int /\ expiry[mac][field] \in Nat /\ clock \in Int
    BY ResponseAssumption DEF IInv, TypeOK, None
  <2>2. expiry[mac][field] >= last[mac] + FlowTimeout
    BY DEF IInv, AppliedFlows
  <2> QED
    BY <2>1, <2>2, ResponseAssumption, FlowTimeoutType
<1> QED
  BY <1>1, Invariance, PTL

\* The cooldown of handle swallows no event about a machine that is not blocked.
THEOREM SwallowedCorrect == Spec => SwallowedIsBlocked
<1> DEFINE Swallows(mac) == /\ Skip /\ Head(queue) = mac
                            /\ outcome[mac] = "installed"
                            /\ Cooldown <= FlowTimeout
<1>1. IInv => (\A mac \in Macs : Swallows(mac) => Blocked(mac))
  <2> SUFFICES ASSUME IInv, NEW mac \in Macs, Swallows(mac) PROVE Blocked(mac)
    OBVIOUS
  <2>1. clock - last[mac] < Cooldown
    BY DEF Skip, Due, Cooling
  <2>2. \A field \in Fields : expiry[mac][field] >= last[mac] + FlowTimeout
    BY DEF IInv, AppliedFlows
  <2> QED
    BY <2>1, <2>2, ResponseAssumption, FlowTimeoutType DEF IInv, TypeOK, Blocked, Active, Fields, None
<1>2. IInv => [\A mac \in Macs : Swallows(mac) => Blocked(mac)]_vars
  BY <1>1
<1> QED
  BY <1>2, Invariance, PTL DEF SwallowedIsBlocked

=============================================================================
