--------------------------- MODULE RiskAggregator ---------------------------
(***************************************************************************)
(* The risk aggregator (cmd/risk.go) for one aggregation key: the workers  *)
(* that add rule hits, each in several steps around one lock, and the      *)
(* metrics endpoint that counts the buckets and prunes them on the way.    *)
(* Keys share nothing but the lock.                                        *)
(***************************************************************************)
EXTENDS Integers, Sequences

CONSTANTS
    Workers,             \* threads that call Add
    Weights,             \* weights of the configured rules
    Window,              \* config.Window
    AlertThreshold,      \* config.Thresholds.Alert, 0 (or less) for none
    ResponseThreshold,   \* config.Thresholds.Response, 0 (or less) for none
    MaxTime,             \* bound: last instant of the clock
    MaxHits              \* bound: hits a bucket holds

ASSUME RiskAssumption ==
    /\ Weights \subseteq Int
    /\ Window \in Nat \ {0}
    /\ AlertThreshold \in Int /\ ResponseThreshold \in Int
    /\ AlertThreshold > 0 \/ ResponseThreshold > 0
    /\ MaxTime \in Nat /\ MaxHits \in Nat

VARIABLES
    clock,      \* r.now()
    bucket,     \* the bucket of the key; one that was deleted is like new
    adding,     \* where each worker is in Add
    counting,   \* the time BucketCount read before it took the lock, or -1
    sent        \* the risk event handed to a sink last

vars == <<clock, bucket, adding, counting, sent>>

Kinds == {"alert", "response"}

Times == 0..MaxTime

Hit == [time : Times, weight : Weights]

Threshold(kind) == IF kind = "alert" THEN AlertThreshold ELSE ResponseThreshold

Enabled(kind) == Threshold(kind) > 0

NewBucket == [hits |-> <<>>, score |-> 0, done |-> [kind \in Kinds |-> FALSE]]

Idle == [pc |-> "idle", now |-> 0, weight |-> 0, due |-> {}, score |-> 0, hits |-> <<>>]

NoEvent == [kind |-> "none", score |-> 0, hits |-> <<>>]

-----------------------------------------------------------------------------

SumWeights(hits) ==
    LET score[i \in 0..Len(hits)] == IF i = 0 THEN 0 ELSE score[i - 1] + hits[i].weight
    IN score[Len(hits)]

\* prune: hits older than the window go, the score is computed anew.
InWindow(hits, now) ==
    LET kept[i \in 0..Len(hits)] ==
            IF i = 0 THEN <<>>
            ELSE IF hits[i].time >= now - Window THEN Append(kept[i - 1], hits[i])
            ELSE kept[i - 1]
    IN kept[Len(hits)]

Prune(b, now) ==
    [b EXCEPT !.hits = InWindow(b.hits, now),
              !.score = SumWeights(InWindow(b.hits, now))]

\* Mutant: a kind that was sent is never sent again.
RearmNever(b) == b

\* A kind whose threshold the score is below may be sent again.
Rearm(b) ==
    [b EXCEPT !.done = [kind \in Kinds |->
                           @[kind] /\ ~(Enabled(kind) /\ b.score < Threshold(kind))]]

Record(b, hit) ==
    [b EXCEPT !.hits = Append(@, hit), !.score = @ + hit.weight]

\* Mutant: a score that just reaches the threshold does not count.
CrossedStrictly(b) ==
    {kind \in Kinds : Enabled(kind) /\ b.score > Threshold(kind) /\ ~b.done[kind]}

Crossed(b) ==
    {kind \in Kinds : Enabled(kind) /\ b.score >= Threshold(kind) /\ ~b.done[kind]}

Mark(b, kinds) ==
    [b EXCEPT !.done = [kind \in Kinds |-> @[kind] \/ kind \in kinds]]

Init ==
    /\ clock = 0
    /\ bucket = NewBucket
    /\ adding = [w \in Workers |-> Idle]
    /\ counting = -1
    /\ sent = NoEvent

Tick ==
    /\ clock < MaxTime
    /\ clock' = clock + 1
    /\ UNCHANGED <<bucket, adding, counting, sent>>

\* A hit of a rule with a positive weight; the time is read before the lock is
\* taken.
Stamp(w) ==
    /\ adding[w].pc = "idle"
    /\ \E weight \in Weights :
          /\ weight > 0
          /\ adding' = [adding EXCEPT ![w] = [Idle EXCEPT !.pc = "stamped",
                                                          !.now = clock,
                                                          !.weight = weight]]
    /\ UNCHANGED <<clock, bucket, counting, sent>>

\* The part of Add under the lock.  The event it decides on takes a copy of the
\* hits along.
Locked(w) ==
    LET pruned   == Rearm(Prune(bucket, adding[w].now))
        recorded == Record(pruned, [time |-> adding[w].now, weight |-> adding[w].weight])
        due      == Crossed(recorded)
    IN /\ adding[w].pc = "stamped"
       /\ Len(pruned.hits) < MaxHits
       /\ bucket' = Mark(recorded, due)
       /\ adding' = [adding EXCEPT ![w] =
                        IF due = {} THEN Idle
                        ELSE [@ EXCEPT !.pc = "emitting", !.due = due,
                                       !.score = recorded.score,
                                       !.hits = recorded.hits]]
       /\ UNCHANGED <<clock, counting, sent>>

\* Mutant: the event shares the hits with the bucket instead of copying them.
EmitShared(w, kind) ==
    /\ adding[w].pc = "emitting"
    /\ kind \in adding[w].due
    /\ kind = "response" => "alert" \notin adding[w].due
    /\ sent' = [kind |-> kind, score |-> adding[w].score, hits |-> bucket.hits]
    /\ adding' = [adding EXCEPT ![w] =
                     IF @.due = {kind} THEN Idle
                     ELSE [@ EXCEPT !.due = adding[w].due \ {kind}]]
    /\ UNCHANGED <<clock, bucket, counting>>

\* After the lock: first the alert sink, then the response sink.
Emit(w, kind) ==
    /\ adding[w].pc = "emitting"
    /\ kind \in adding[w].due
    /\ kind = "response" => "alert" \notin adding[w].due
    /\ sent' = [kind |-> kind, score |-> adding[w].score, hits |-> adding[w].hits]
    /\ adding' = [adding EXCEPT ![w] =
                     IF @.due = {kind} THEN Idle
                     ELSE [@ EXCEPT !.due = adding[w].due \ {kind}]]
    /\ UNCHANGED <<clock, bucket, counting>>

\* BucketCount also reads the time first; a bucket without hits is deleted.
StartCount ==
    /\ counting = -1
    /\ counting' = clock
    /\ UNCHANGED <<clock, bucket, adding, sent>>

BucketCount ==
    LET pruned == Prune(bucket, counting)
    IN /\ counting # -1
       /\ bucket' = IF pruned.hits = <<>> THEN NewBucket ELSE pruned
       /\ counting' = -1
       /\ UNCHANGED <<clock, adding, sent>>

Next ==
    \/ Tick
    \/ \E w \in Workers : Stamp(w) \/ Locked(w)
    \/ \E w \in Workers, kind \in Kinds : Emit(w, kind)
    \/ StartCount \/ BucketCount

Spec == Init /\ [][Next]_vars

-----------------------------------------------------------------------------
(* Properties *)

Event == [kind : Kinds, score : Nat, hits : Seq(Hit)]

TypeOK ==
    /\ clock \in Times
    /\ bucket \in [hits : Seq(Hit), score : Nat, done : [Kinds -> BOOLEAN]]
    /\ adding \in [Workers -> [pc : {"idle", "stamped", "emitting"}, now : Times,
                               weight : Weights \cup {0}, due : SUBSET Kinds,
                               score : Nat, hits : Seq(Hit)]]
    /\ counting \in Times \cup {-1}
    /\ sent \in Event \cup {NoEvent}

\* A kind that has not been sent is one the score has not reached: between two
\* calls no bucket sits above a threshold nobody was told of, whichever worker
\* came first, whatever the metrics endpoint pruned and however late a worker
\* got the lock.
NothingMissed ==
    \A kind \in Kinds :
        Enabled(kind) /\ ~bucket.done[kind] => bucket.score < Threshold(kind)

\* docs/ovs-mirror-detection.md: alerts "are emitted once per threshold
\* crossing", and again after the score fell below it.  Said without flags: an
\* Add decides to send exactly when the hits in the window were below the
\* threshold before it and are not after it.
OncePerCrossing ==
    [][\A w \in Workers : \A kind \in Kinds :
          (adding[w].pc = "stamped" /\ adding'[w].pc # "stamped" /\ Enabled(kind)) =>
              LET before == SumWeights(InWindow(bucket.hits, adding[w].now))
              IN kind \in adding'[w].due <=>
                     /\ before < Threshold(kind)
                     /\ before + adding[w].weight >= Threshold(kind)]_vars

\* An event that reaches a sink shows the score that crossed its threshold and
\* the hits that make it up, although the bucket may have been pruned since.
EventTrue ==
    sent # NoEvent =>
        /\ sent.score = SumWeights(sent.hits)
        /\ sent.score >= Threshold(sent.kind)

=============================================================================
