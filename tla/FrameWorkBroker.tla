--------------------------- MODULE FrameWorkBroker ---------------------------
(***************************************************************************)
(* The Frame Work Broker of crates/mondrian-playback/src/work_broker.rs:   *)
(* admission, bounded queue, execution leases, latest-wins invalidation,   *)
(* preemption, deadlines and completion binding of frame-producing work.   *)
(*                                                                         *)
(* Every public method of the broker runs under one mutex, so every method *)
(* is one action here.  Worker threads are the receivers of the lanes in   *)
(* Lanes (production owns one receiver per lane); they wait on the         *)
(* broker's condition variable, which `worker` and `wakeAt` represent.     *)
(*                                                                         *)
(* Abstractions.  Payloads are dropped.  A lease is a slot of Leases that  *)
(* is free again once the lease is gone: the code's u64 ids are never      *)
(* reused, and an id of a lease that is gone is a no-op for every method.  *)
(* Timestamps are small numbers, None is Option::None.  Counters kept only *)
(* for diagnostics and the dispatch-wait evidence are left out.            *)
(***************************************************************************)
EXTENDS Integers, Sequences, FiniteSets

CONSTANTS
    Keys,            \* semantic frame keys
    Demands,         \* Playback demand identities
    Scopes,          \* physical resource-ownership scopes
    Requests,        \* the requests Adapters submit, a set of Request records
    Lanes,           \* worker lanes in service, one worker each
    Leases,          \* execution-lease slots
    Observed,        \* the slots a cancellation observer thread waits on
    MaxPending,      \* capacity of the pending map
    MaxQueued,       \* capacity of the transport queue
    ReceiveTimeout,  \* outer timeout of a worker's receive, None for receive()
    MaxAge,          \* generic stall watchdog of expire_playback_current
    MaxGeneration,   \* bound: generations explored
    MaxRevision,     \* bound: worker-lifecycle interrupts explored
    MaxTime,         \* bound: clock values explored
    None             \* Option::None

Classes    == {"Playback", "Interactive", "Still"}
Priorities == {"Prefetch", "Current"}
Policies   == {"Cancel", "FinishForLocality"}
AllLanes   == {"Any", "Playback", "Interactive", "Still", "NonPlayback"}
Generations == 0 .. MaxGeneration
Option(S)  == S \cup {None}

Request ==
    [key : Keys, generation : Generations, priority : Priorities,
     workClass : Classes, workerAffinity : Option(AllLanes),
     resourceScope : Scopes, demandIdentity : Option(Demands),
     deadline : Option(Nat), inFlightDeadlinePolicy : Policies,
     executionCancellationBudget : Option(Nat)]

Binding ==
    [generation : Generations, priority : Priorities, workClass : Classes,
     resourceScope : Scopes, demandIdentity : Option(Demands),
     deadline : Option(Nat)]

PendingBinding ==
    [binding : Binding, requestedAt : Nat, deadlineAt : Option(Nat),
     inFlightDeadlinePolicy : Policies,
     executionCancellationBudget : Option(Nat)]

QueuedWork == [request : Request, deadlineAt : Option(Nat)]

InFlightWork ==
    [key : Keys, generation : Generations, priority : Priorities,
     workClass : Classes, resourceScope : Scopes,
     workerLane : Option(AllLanes), demandIdentity : Option(Demands),
     startedAt : Nat, deadlineAt : Option(Nat),
     inFlightDeadlinePolicy : Policies,
     executionCancellationDeadlineAt : Option(Nat),
     completedAt : Option(Nat), preemptedAt : Option(Nat),
     invalidatedAt : Option(Nat), presentationBindingExpired : BOOLEAN]

Resolution ==
    [key : Keys, completion : {"Current", "CacheOnly", "Stale"},
     binding : Option(Binding)]

ASSUME BoundsAssumption ==
    /\ MaxPending \in Nat \ {0}
    /\ MaxQueued \in Nat \ {0}
    /\ MaxGeneration \in Nat
    /\ MaxRevision \in Nat
    /\ MaxTime \in Nat
    /\ MaxAge \in Nat
    /\ ReceiveTimeout \in Option(Nat)

ASSUME NoneAssumption ==
    /\ None \notin Nat
    /\ None \notin Keys
    /\ None \notin Demands
    /\ None \notin AllLanes
    /\ None \notin PendingBinding
    /\ None \notin InFlightWork

ASSUME FiniteAssumption ==
    /\ IsFiniteSet(Keys)
    /\ IsFiniteSet(Leases)

ASSUME InputAssumption ==
    /\ Lanes \subseteq AllLanes
    /\ Observed \subseteq Leases
    /\ Requests \subseteq Request

VARIABLES
    latestGeneration,      \* BrokerState.latest_generation
    activePlaybackDemand,  \* BrokerState.active_playback_demand
    pending,               \* BrokerState.pending, None where a key is absent
    queue,                 \* BrokerState.queue
    inFlight,              \* BrokerState.in_flight, None where a slot is free
    clock,                 \* what the clock Adapter would return now
    lastObservedAt,        \* BrokerState.last_observed_at
    closedAt,              \* BrokerState.closed_at
    lifecycleRevision,     \* BrokerState.worker_lifecycle_revision
    observedRevision,      \* the revision each worker passes to its receive
    worker,                \* each worker: Awake, Parked on `changed`, Stopped
    wakeAt,                \* the end of a parked worker's timed wait
    observing,             \* leases whose cancellation observer is parked
    resolution             \* what a completion call just returned, else None

brokerVars == <<latestGeneration, activePlaybackDemand, pending, queue,
                inFlight, lastObservedAt, closedAt, resolution>>
workerVars == <<lifecycleRevision, observedRevision, worker, wakeAt, observing>>
vars == <<brokerVars, clock, workerVars>>

-----------------------------------------------------------------------------
(* Queue positions.                                                        *)

\* The sub-sequence of q at the positions I: VecDeque::retain.
KeepAt(q, I) ==
    [n \in 1 .. Cardinality(I) |->
        q[CHOOSE i \in I : Cardinality({j \in I : j <= i}) = n]]

Positions(q, Test(_)) == {i \in DOMAIN q : Test(q[i])}

\* Seeded fault: the queue is not cleaned up with its key.
WithoutKeyForgotten(q, k) == q

WithoutKey(q, k) == KeepAt(q, Positions(q, LAMBDA w : w.request.key # k))

FirstPosition(I) == CHOOSE i \in I : \A j \in I : i <= j

LeastOf(S) == CHOOSE x \in S : \A y \in S : x <= y

-----------------------------------------------------------------------------
(* Bindings.                                                               *)

\* Seeded fault: the binding is stamped with the generation to come.
BindingForNextGeneration(r) ==
    [generation |-> r.generation + 1, priority |-> r.priority,
     workClass |-> r.workClass, resourceScope |-> r.resourceScope,
     demandIdentity |-> r.demandIdentity, deadline |-> r.deadline]

BindingFor(r) ==
    [generation |-> r.generation, priority |-> r.priority,
     workClass |-> r.workClass, resourceScope |-> r.resourceScope,
     demandIdentity |-> r.demandIdentity, deadline |-> r.deadline]

PlaybackCurrentBindingIsSuperseded(active, b) ==
    /\ b.priority = "Current"
    /\ b.workClass = "Playback"
    /\ b.demandIdentity # None
    /\ active # None
    /\ b.demandIdentity # active

ExecutionMatchesBinding(e, k, b) ==
    /\ e.key = k
    /\ e.workClass = b.workClass
    /\ e.resourceScope = b.resourceScope
    /\ e.generation = b.generation
    /\ e.demandIdentity = b.demandIdentity
    /\ ~e.presentationBindingExpired
    /\ e.preemptedAt = None

QueuedMatchesBinding(w, k, b) ==
    /\ w.request.key = k
    /\ w.request.generation = b.generation
    /\ w.request.workClass = b.workClass
    /\ w.request.resourceScope = b.resourceScope
    /\ w.request.demandIdentity = b.demandIdentity

InFlightIn(fl) == {l \in Leases : fl[l] # None}

PendingKeys(pend) == {k \in Keys : pend[k] # None}

\* pending_binding_has_execution_owner_locked
PendingBindingHasExecutionOwner(q, fl, k, b) ==
    \/ \E i \in DOMAIN q : QueuedMatchesBinding(q[i], k, b)
    \/ \E l \in InFlightIn(fl) : ExecutionMatchesBinding(fl[l], k, b)

\* Seeded fault: orphaned bindings are never swept.
WithoutOrphanSweep(pend, q, fl, k) == pend

\* remove_orphaned_pending_binding_locked
WithoutOrphan(pend, q, fl, k) ==
    IF /\ pend[k] # None
       /\ ~PendingBindingHasExecutionOwner(q, fl, k, pend[k].binding)
    THEN [pend EXCEPT ![k] = None]
    ELSE pend

\* current_pending_binding(..).is_some()
HasCurrentPendingBinding(latest, pend, e) ==
    /\ pend[e.key] # None
    /\ pend[e.key].binding.workClass = e.workClass
    /\ pend[e.key].binding.resourceScope = e.resourceScope
    /\ pend[e.key].binding.generation >= e.generation
    /\ pend[e.key].binding.generation >= latest

\* exact_pending_binding(..).is_some()
HasExactPendingBinding(latest, pend, e) ==
    /\ pend[e.key] # None
    /\ pend[e.key].binding.workClass = e.workClass
    /\ pend[e.key].binding.resourceScope = e.resourceScope
    /\ pend[e.key].binding.generation = e.generation
    /\ pend[e.key].binding.demandIdentity = e.demandIdentity
    /\ pend[e.key].binding.generation >= latest

\* fl is the in-flight map after the resolved lease e was taken out of it.
HasPreemptedFallback(latest, pend, q, fl, e) ==
    /\ pend[e.key] # None
    /\ \/ \E i \in DOMAIN q :
            QueuedMatchesBinding(q[i], e.key, pend[e.key].binding)
       \/ \E l \in InFlightIn(fl) :
            /\ fl[l].key = e.key
            /\ fl[l].preemptedAt = None
            /\ ~fl[l].presentationBindingExpired
            /\ HasExactPendingBinding(latest, pend, fl[l])

\* FinishForLocality Playback work keeps its decoder Session useful.
RetainsPlaybackLocality(e) ==
    /\ e.workClass = "Playback"
    /\ e.inFlightDeadlinePolicy = "FinishForLocality"

\* A running lease no stop request has reached yet.
Undisturbed(e) ==
    /\ e.completedAt = None
    /\ e.preemptedAt = None
    /\ e.invalidatedAt = None

-----------------------------------------------------------------------------
(* Time.                                                                   *)

\* observe_now_locked: a clock that went backwards is clamped.
Now == IF clock < lastObservedAt THEN lastObservedAt ELSE clock

\* lowered_deadline_at, and an execution budget from its start.
LoweredAt(remaining, from) ==
    IF remaining = None THEN None ELSE from + remaining

DeadlineExpired(deadlineAt, now) == deadlineAt # None /\ deadlineAt <= now

\* Seeded fault: a later stop or completion overwrites the first stamp.
Insert(stamp, now) == now

\* Option::get_or_insert
GetOrInsert(stamp, now) == IF stamp = None THEN now ELSE stamp

\* Seeded fault: completing exactly at the end of the budget counts as in time.
BudgetExpiredAfterCompletion(e) ==
    /\ e.executionCancellationDeadlineAt # None
    /\ e.completedAt # None
    /\ e.executionCancellationDeadlineAt < e.completedAt

BudgetExpiredBeforeCompletion(e) ==
    /\ e.executionCancellationDeadlineAt # None
    /\ e.completedAt # None
    /\ e.executionCancellationDeadlineAt <= e.completedAt

-----------------------------------------------------------------------------
(* refresh_in_flight_invalidations_locked                                  *)

\* oldest_other_current_request
OldestOtherCurrentRequest(latest, pend, e, realtimeOnly, preservePlayback) ==
    LET rivals == {k \in PendingKeys(pend) :
            LET b == pend[k].binding IN
            /\ k # e.key \/ b.resourceScope # e.resourceScope
            /\ b.priority = "Current"
            /\ realtimeOnly => b.workClass # "Still"
            /\ preservePlayback => b.workClass # "Playback"
            /\ b.generation >= latest}
    IN  IF rivals = {} THEN None
        ELSE LeastOf({pend[k].requestedAt : k \in rivals})

RefreshedBinding(latest, pend, e, now) ==
    IF e.presentationBindingExpired
    THEN IF /\ e.generation < latest
            /\ ~RetainsPlaybackLocality(e)
         THEN [e EXCEPT !.invalidatedAt = GetOrInsert(@, now)]
         ELSE e
    ELSE IF HasCurrentPendingBinding(latest, pend, e)
    THEN LET p == pend[e.key] IN
         [e EXCEPT
            !.deadlineAt = p.deadlineAt,
            !.inFlightDeadlinePolicy = p.inFlightDeadlinePolicy,
            !.executionCancellationDeadlineAt =
                LoweredAt(p.executionCancellationBudget, e.startedAt),
            !.invalidatedAt = None]
    ELSE IF /\ e.invalidatedAt = None
            /\ e.generation >= latest
            /\ RetainsPlaybackLocality(e)
    THEN [e EXCEPT !.presentationBindingExpired = TRUE]
    ELSE [e EXCEPT !.invalidatedAt = GetOrInsert(@, now)]

RefreshedPreemption(latest, pend, e) ==
    LET rival == IF e.priority = "Prefetch"
                 THEN OldestOtherCurrentRequest(latest, pend, e, FALSE,
                                                e.workClass = "Playback")
                 ELSE IF e.workClass = "Still"
                 THEN OldestOtherCurrentRequest(latest, pend, e, TRUE, FALSE)
                 ELSE None
        stop == IF rival < e.startedAt THEN e.startedAt ELSE rival
    IN  IF rival = None THEN e
        ELSE [e EXCEPT !.preemptedAt = IF @ # None /\ @ <= stop THEN @ ELSE stop]

Refreshed(latest, pend, fl, now) ==
    [l \in Leases |->
        IF fl[l] = None THEN None
        ELSE RefreshedPreemption(latest, pend,
                RefreshedBinding(latest, pend, fl[l], now))]

-----------------------------------------------------------------------------
(* execution_cancellation_evidence_locked                                  *)

PublicationBindingMissing(latest, pend, e) ==
    \/ e.presentationBindingExpired
    \/ ~HasCurrentPendingBinding(latest, pend, e)

\* When each stop request reached the lease: invalidation, preemption, an
\* elapsed deadline under the Cancel policy, an exhausted execution budget.
StopRequestTimes(latest, pend, e, now) ==
    {t \in {e.invalidatedAt} \ {None} :
            PublicationBindingMissing(latest, pend, e)}
    \cup ({e.preemptedAt} \ {None})
    \cup {t \in {e.deadlineAt} \ {None} :
            e.inFlightDeadlinePolicy = "Cancel" /\ t <= now}
    \cup {t \in {e.executionCancellationDeadlineAt} \ {None} : t <= now}

\* execution_cancellation(..).is_some() for a live lease
CancellationRequested(latest, pend, closed, e, now) ==
    \/ closed # None
    \/ /\ ~e.presentationBindingExpired
       /\ e.invalidatedAt = None
       /\ ~HasCurrentPendingBinding(latest, pend, e)
    \/ StopRequestTimes(latest, pend, e, now) # {}

-----------------------------------------------------------------------------
(* Dequeue order.                                                          *)

LaneAccepts(lane, class) ==
    \/ lane = "Any"
    \/ lane = class
    \/ lane = "NonPlayback" /\ class # "Playback"

\* A lease whose worker has not returned yet.
Running(fl, lane) ==
    {l \in InFlightIn(fl) : fl[l].workerLane = lane /\ fl[l].completedAt = None}

PlaybackPrefetchBorrowAllowed(fl, lane) ==
    /\ lane = "NonPlayback"
    /\ \E l \in Running(fl, "Playback") :
        fl[l].priority = "Current" /\ fl[l].workClass = "Playback"

NonPlaybackCurrentFailoverAllowed(latest, pend, closed, fl, lane, now) ==
    /\ lane = "NonPlayback"
    /\ ~\E l \in Running(fl, "NonPlayback") : fl[l].workClass = "Playback"
    /\ \E l \in Running(fl, "Playback") :
        /\ fl[l].workClass = "Playback"
        /\ CancellationRequested(latest, pend, closed, fl[l], now)

\* Seeded fault: affinity narrows the lane's own class instead of replacing it.
LaneTakesOwnClassOnly(lane, r, failover, borrow) ==
    /\ LaneAccepts(lane, r.workClass)
    /\ r.workerAffinity \in {None, lane}

\* lane_accepts_current and lane_accepts_prefetch
LaneTakes(lane, r, failover, borrow) ==
    IF r.workerAffinity # None
    THEN lane \in {"Any", r.workerAffinity}
    ELSE \/ LaneAccepts(lane, r.workClass)
         \/ /\ r.workClass = "Playback"
            /\ IF r.priority = "Current" THEN failover
               ELSE borrow /\ lane = "NonPlayback"

WorkRank(class) ==
    CASE class = "Interactive" -> 0
      [] class = "Playback"    -> 1
      [] class = "Still"       -> 2

\* The sort key of next_work_index_with_failover; ties go to the front.
DequeueOrder(w, lane, now, failover) ==
    LET r == w.request
        authorized == /\ failover
                      /\ r.workerAffinity = None
                      /\ r.workClass = "Playback"
                      /\ ~LaneAccepts(lane, r.workClass)
        late == IF DeadlineExpired(w.deadlineAt, now) THEN 3 ELSE 0
    IN  IF r.priority = "Prefetch" THEN late
        ELSE (IF authorized THEN 0 ELSE 6) + late + WorkRank(r.workClass)

\* The positions one lane may dequeue: current work before any prefetch.
EligiblePositions(q, lane, failover, borrow) ==
    LET takes(p) == Positions(q, LAMBDA w :
            /\ w.request.priority = p
            /\ LaneTakes(lane, w.request, failover, borrow))
    IN  IF takes("Current") # {} THEN takes("Current") ELSE takes("Prefetch")

NextWorkIndex(q, lane, now, failover, borrow) ==
    LET I == EligiblePositions(q, lane, failover, borrow)
        order(i) == DequeueOrder(q[i], lane, now, failover)
    IN  CHOOSE i \in I : \A j \in I :
            order(i) < order(j) \/ (order(i) = order(j) /\ i <= j)

\* next_non_playback_current_failover_wait, as the instant it ends.
FailoverWakeAt(latest, pend, closed, q, fl, lane, now) ==
    LET waiting == \E i \in DOMAIN q : /\ q[i].request.priority = "Current"
                                       /\ q[i].request.workClass = "Playback"
                                       /\ q[i].request.workerAffinity = None
        taken == \E l \in Running(fl, "NonPlayback") : fl[l].workClass = "Playback"
        blocking == {l \in Running(fl, "Playback") : fl[l].workClass = "Playback"}
        stops(e) ==
            IF CancellationRequested(latest, pend, closed, e, now) THEN {now}
            ELSE ({e.deadlineAt : p \in {"Cancel"} \cap {e.inFlightDeadlinePolicy}}
                    \cup {e.executionCancellationDeadlineAt}) \ {None}
        times == UNION {stops(fl[l]) : l \in blocking}
    IN  IF lane # "NonPlayback" \/ ~waiting \/ taken \/ times = {} THEN None
        ELSE LeastOf(times)

-----------------------------------------------------------------------------
(* Admission.                                                              *)

\* Seeded fault: room is checked after the insertion it should precede.
FitsPendingInclusive(n) == n <= MaxPending

FitsPending(n) == n < MaxPending

\* Seeded fault: the same for the queue.
FitsQueueInclusive(n) == n <= MaxQueued

FitsQueue(n) == n < MaxQueued

PriorityAccepts(r) == r.priority = "Current" \/ r.workClass = "Playback"

\* promote_priority, promote_class, promote_in_flight_deadline_policy and
\* promote_execution_cancellation_budget: a speculative re-request never
\* weakens what a current request established.
Promoted(previous, r) ==
    IF previous.binding.priority = "Current" /\ r.priority = "Prefetch"
    THEN [r EXCEPT
            !.priority = "Current",
            !.workClass = previous.binding.workClass,
            !.inFlightDeadlinePolicy = previous.inFlightDeadlinePolicy,
            !.executionCancellationBudget = previous.executionCancellationBudget]
    ELSE r

\* restore_same_generation_playback_demand_binding_locked
RestoredDemandBinding(active, fl, k, b) ==
    [l \in Leases |->
        IF /\ b.priority = "Current"
           /\ b.workClass = "Playback"
           /\ b.demandIdentity = active
           /\ fl[l] # None
           /\ fl[l].key = k
           /\ fl[l].generation = b.generation
           /\ fl[l].workClass = b.workClass
           /\ fl[l].resourceScope = b.resourceScope
           /\ fl[l].demandIdentity # b.demandIdentity
           /\ fl[l].inFlightDeadlinePolicy = "FinishForLocality"
           /\ Undisturbed(fl[l])
        THEN [fl[l] EXCEPT !.presentationBindingExpired = FALSE]
        ELSE fl[l]]

\* Seeded fault: the oldest queued payload gives way, whatever it is.
QueueEvictionOldest(q, r) == {q[1].request.key}

\* The key queue_eviction_candidate gives up, as a set of at most one key.
QueueEvictionCandidate(q, r) ==
    LET prefetch == Positions(q, LAMBDA w : w.request.priority = "Prefetch")
        still    == Positions(q, LAMBDA w : w.request.workClass = "Still")
    IN  IF prefetch # {} THEN {q[FirstPosition(prefetch)].request.key}
        ELSE IF r.workClass # "Still" /\ still # {}
        THEN {q[FirstPosition(still)].request.key}
        ELSE {}

\* pending_eviction_candidate iterates a HashMap: any matching key may come.
PendingEvictionCandidates(pend, r) ==
    LET prefetch == {k \in PendingKeys(pend) : pend[k].binding.priority = "Prefetch"}
        still    == {k \in PendingKeys(pend) : pend[k].binding.workClass = "Still"}
    IN  IF prefetch # {} THEN prefetch
        ELSE IF r.workClass # "Still" THEN still
        ELSE {}

\* plan_queue_eviction: the possible plans, None for "nothing to evict"; no
\* plan at all is backpressure.
QueueEvictionPlans(q, r) ==
    IF FitsQueue(Len(q)) THEN {None}
    ELSE IF r.priority = "Current" THEN QueueEvictionCandidate(q, r)
    ELSE {}

\* plan_new_admission_eviction
AdmissionEvictionPlans(pend, q, r) ==
    LET queuedStill == Positions(q, LAMBDA w :
            w.request.priority = "Current" /\ w.request.workClass = "Still")
        pendingFull == ~FitsPending(Cardinality(PendingKeys(pend)))
        queueFull   == ~FitsQueue(Len(q))
        planned ==
            IF /\ r.priority = "Current"
               /\ r.workClass # "Still"
               /\ queuedStill # {}
            THEN {q[FirstPosition(queuedStill)].request.key}
            ELSE IF ~pendingFull /\ ~queueFull THEN {None}
            ELSE IF r.priority # "Current" THEN {}
            ELSE IF queueFull THEN QueueEvictionCandidate(q, r)
            ELSE PendingEvictionCandidates(pend, r)
        freesPending(k) == IF k = None THEN 0 ELSE 1
        freesQueued(k)  ==
            IF k # None /\ \E i \in DOMAIN q : q[i].request.key = k THEN 1 ELSE 0
    IN  {k \in planned :
            /\ FitsPending(Cardinality(PendingKeys(pend)) - freesPending(k))
            /\ FitsQueue(Len(q) - freesQueued(k))}

\* The leases after remove_key_locked (and cancel_key) of k.
InvalidatedKey(fl, k, now) ==
    [l \in Leases |->
        IF fl[l] # None /\ fl[l].key = k
        THEN [fl[l] EXCEPT !.presentationBindingExpired = FALSE,
                           !.invalidatedAt = GetOrInsert(@, now)]
        ELSE fl[l]]

-----------------------------------------------------------------------------
(* Steps shared by the operations.                                         *)

Observe == lastObservedAt' = Now

\* Seeded fault: notify_one, on a condition variable several threads share.
NotifyOne ==
    /\ \/ \E l \in Lanes : /\ worker[l] = "Parked"
                           /\ worker' = [worker EXCEPT ![l] = "Awake"]
                           /\ wakeAt' = [wakeAt EXCEPT ![l] = None]
       \/ /\ \A l \in Lanes : worker[l] # "Parked"
          /\ UNCHANGED <<worker, wakeAt>>
    /\ UNCHANGED <<lifecycleRevision, observedRevision, observing>>

\* changed.notify_all(): every parked worker and observer re-checks.
NotifyAll ==
    /\ worker' = [l \in Lanes |-> IF worker[l] = "Parked" THEN "Awake" ELSE worker[l]]
    /\ wakeAt' = [l \in Lanes |-> None]
    /\ observing' = {}
    /\ UNCHANGED <<lifecycleRevision, observedRevision>>

NotifyAllIf(condition) == IF condition THEN NotifyAll ELSE UNCHANGED workerVars

\* Every method that ends by refreshing the leases against the new state.
RefreshFrom(fl) ==
    inFlight' = Refreshed(latestGeneration', pending', fl, Now)

\* prune_obsolete_locked
PrunedPending(pend, latest) ==
    [k \in Keys |->
        IF pend[k] # None /\ pend[k].binding.generation < latest THEN None
        ELSE pend[k]]
\* Seeded fault: a rotation forgets the payloads that are only queued.
PrunedQueueForgotten(q, latest) == q

PrunedQueue(q, latest) ==
    KeepAt(q, Positions(q, LAMBDA w : w.request.generation >= latest))

ClearedExpiry(fl) ==
    [l \in Leases |->
        IF fl[l] = None THEN None
        ELSE [fl[l] EXCEPT !.presentationBindingExpired = FALSE]]

\* Running locality-preserving Playback leases lose presentation authority.
DetachedLocality(fl) ==
    [l \in Leases |->
        IF fl[l] # None /\ RetainsPlaybackLocality(fl[l]) /\ Undisturbed(fl[l])
        THEN [fl[l] EXCEPT !.presentationBindingExpired = TRUE]
        ELSE fl[l]]

Unresolved == resolution' = None

-----------------------------------------------------------------------------
(* Generations.                                                            *)

\* Rotate to `latest` over the given pending map, queue and leases.
RotateTo(latest, pend, q, fl) ==
    /\ latestGeneration' = latest
    /\ pending' = PrunedPending(pend, latest)
    /\ queue' = PrunedQueue(q, latest)
    /\ RefreshFrom(fl)
    /\ Observe /\ NotifyAll /\ Unresolved
    /\ UNCHANGED <<activePlaybackDemand, closedAt, clock>>

BeginGeneration ==
    /\ latestGeneration < MaxGeneration
    /\ RotateTo(latestGeneration + 1, pending, queue, ClearedExpiry(inFlight))

BeginGenerationPreservingPlaybackLocality ==
    LET latest == latestGeneration + 1
        rebound(w) == IF RetainsPlaybackLocality(w.request)
                      THEN [w EXCEPT !.request.generation = latest]
                      ELSE w
        newQueue == [i \in DOMAIN queue |-> rebound(queue[i])]
        positions(k) == Positions(queue, LAMBDA w :
                            w.request.key = k /\ RetainsPlaybackLocality(w.request))
        lastOf(I) == CHOOSE i \in I : \A j \in I : j <= i
    IN  /\ latestGeneration < MaxGeneration
        /\ RotateTo(latest,
                [k \in Keys |->
                    IF pending[k] # None /\ positions(k) # {}
                    THEN [pending[k] EXCEPT !.binding =
                            BindingFor(newQueue[lastOf(positions(k))].request)]
                    ELSE pending[k]],
                newQueue,
                DetachedLocality(inFlight))

BeginGenerationPreservingInFlightPlaybackLocality ==
    /\ latestGeneration < MaxGeneration
    /\ RotateTo(latestGeneration + 1, pending, queue, DetachedLocality(inFlight))

PruneBefore(generation) ==
    RotateTo(IF generation > latestGeneration THEN generation ELSE latestGeneration,
             pending, queue, inFlight)

PruneObsolete ==
    /\ pending' = PrunedPending(pending, latestGeneration)
    /\ queue' = PrunedQueue(queue, latestGeneration)
    /\ UNCHANGED latestGeneration
    /\ RefreshFrom(inFlight)
    /\ Observe /\ NotifyAllIf(Len(queue') < Len(queue)) /\ Unresolved
    /\ UNCHANGED <<activePlaybackDemand, closedAt, clock>>

-----------------------------------------------------------------------------
(* submit                                                                  *)

PendingFor(r, requestedAt) ==
    [binding |-> BindingFor(r), requestedAt |-> requestedAt,
     deadlineAt |-> LoweredAt(r.deadline, Now),
     inFlightDeadlinePolicy |-> r.inFlightDeadlinePolicy,
     executionCancellationBudget |-> r.executionCancellationBudget]

QueuedFor(r) == [request |-> r, deadlineAt |-> LoweredAt(r.deadline, Now)]

\* requested_at restarts only when the binding really changes.
RequestedAt(previous, r) ==
    IF previous.binding # BindingFor(r) THEN Now ELSE previous.requestedAt

Evicted(pend, k) == IF k = None THEN pend ELSE [pend EXCEPT ![k] = None]
EvictedQueue(q, k) == IF k = None THEN q ELSE WithoutKey(q, k)
EvictedLeases(fl, k) == IF k = None THEN fl ELSE InvalidatedKey(fl, k, Now)

\* Seeded fault: admission does not look at close.
AdmissibleAfterClose(r) == PriorityAccepts(r) /\ r.generation >= latestGeneration

Admissible(r) ==
    /\ closedAt = None
    /\ PriorityAccepts(r)
    /\ r.generation >= latestGeneration

\* Seeded fault: new work does not notify the parked workers.
PushSilently(pend, q, fl, r, k) ==
    /\ pending' = [Evicted(pend, k) EXCEPT ![r.key] = PendingFor(r, Now)]
    /\ queue' = Append(EvictedQueue(q, k), QueuedFor(r))
    /\ RefreshFrom(EvictedLeases(fl, k))
    /\ UNCHANGED workerVars

\* Push r after evicting k from the given state.
PushAfterEviction(pend, q, fl, r, k) ==
    /\ pending' = [Evicted(pend, k) EXCEPT ![r.key] = PendingFor(r, Now)]
    /\ queue' = Append(EvictedQueue(q, k), QueuedFor(r))
    /\ RefreshFrom(EvictedLeases(fl, k))
    /\ NotifyAll

\* The key already owns a pending binding: update its queued payload, bind
\* to a compatible lease, queue a fallback, or drop on backpressure.
Resubmit(r0) ==
    LET previous == pending[r0.key]
        r == Promoted(previous, r0)
        leases == RestoredDemandBinding(activePlaybackDemand, inFlight, r.key,
                                        BindingFor(r))
        queued == Positions(queue, LAMBDA w : w.request.key = r.key)
        reusable ==
            /\ previous.binding.workClass = r.workClass
            /\ \E l \in InFlightIn(leases) :
                ExecutionMatchesBinding(leases[l], r.key, BindingFor(r))
        rebind == [pending EXCEPT ![r.key] =
                        PendingFor(r, RequestedAt(previous, r))]
        plans == QueueEvictionPlans(queue, r)
    IN  \/ /\ queued # {}
           /\ pending' = rebind
           /\ queue' = [queue EXCEPT ![FirstPosition(queued)] = QueuedFor(r)]
           /\ RefreshFrom(leases)
           /\ NotifyAll
        \/ /\ queued = {} /\ reusable
           /\ pending' = rebind
           /\ RefreshFrom(leases)
           /\ NotifyAll
           /\ UNCHANGED queue
        \/ /\ queued = {} /\ ~reusable
           /\ \E k \in plans : PushAfterEviction(pending, queue, leases, r, k)
        \/ /\ queued = {} /\ ~reusable /\ plans = {}
           /\ inFlight' = leases
           /\ UNCHANGED <<pending, queue, workerVars>>

\* The key owns no binding: prune, then queue or drop on backpressure.
Admit(r) ==
    LET pend == PrunedPending(pending, latestGeneration)
        q == PrunedQueue(queue, latestGeneration)
        leases == Refreshed(latestGeneration, pend, inFlight, Now)
        plans == AdmissionEvictionPlans(pend, q, r)
    IN  \/ \E k \in plans : PushAfterEviction(pend, q, leases, r, k)
        \/ /\ plans = {}
           /\ pending' = pend
           /\ queue' = q
           /\ inFlight' = leases
           /\ UNCHANGED workerVars

Submit(r) ==
    /\ Admissible(r)
    /\ UNCHANGED <<latestGeneration, activePlaybackDemand, closedAt, clock>>
    /\ Observe /\ Unresolved
    /\ IF pending[r.key] # None THEN Resubmit(r) ELSE Admit(r)

\* bind_existing: metadata only, never a new payload.
BindExisting(r0) ==
    LET previous == pending[r0.key]
        r == Promoted(previous, r0)
        queued == Positions(queue, LAMBDA w :
                    /\ w.request.key = r.key
                    /\ w.request.resourceScope = r.resourceScope)
        compatible == \E l \in InFlightIn(inFlight) :
                        ExecutionMatchesBinding(inFlight[l], r.key, BindingFor(r))
    IN  /\ Admissible(r0)
        /\ previous # None
        /\ previous.binding.resourceScope = r0.resourceScope
        /\ queued # {} \/ compatible
        /\ UNCHANGED <<latestGeneration, activePlaybackDemand, closedAt, clock>>
        /\ pending' = [pending EXCEPT ![r.key] =
                            PendingFor(r, RequestedAt(previous, r))]
        /\ queue' = IF queued = {} THEN queue
                    ELSE [queue EXCEPT ![FirstPosition(queued)] =
                            QueuedFor([r EXCEPT !.workerAffinity =
                                queue[FirstPosition(queued)].request.workerAffinity])]
        /\ RefreshFrom(inFlight)
        /\ Observe /\ NotifyAll /\ Unresolved

-----------------------------------------------------------------------------
(* Workers: receive, receive_timeout, and the lifecycle-revision variant.  *)

NewLease(w, lane) ==
    [key |-> w.request.key, generation |-> w.request.generation,
     priority |-> w.request.priority, workClass |-> w.request.workClass,
     resourceScope |-> w.request.resourceScope, workerLane |-> lane,
     demandIdentity |-> w.request.demandIdentity, startedAt |-> Now,
     deadlineAt |-> w.deadlineAt,
     inFlightDeadlinePolicy |-> w.request.inFlightDeadlinePolicy,
     executionCancellationDeadlineAt |->
        LoweredAt(w.request.executionCancellationBudget, Now),
     completedAt |-> None, preemptedAt |-> None, invalidatedAt |-> None,
     presentationBindingExpired |-> FALSE]

\* The worker of the lane is inside its receive loop.
Receiving(lane) ==
    /\ worker[lane] = "Awake"
    /\ Running(inFlight, lane) = {}
    /\ observedRevision[lane] = lifecycleRevision

Failover(fl, lane) ==
    NonPlaybackCurrentFailoverAllowed(latestGeneration, pending, closedAt, fl, lane, Now)

RefreshedLeases == Refreshed(latestGeneration, pending, inFlight, Now)

Eligible(fl, lane) ==
    EligiblePositions(queue, lane, Failover(fl, lane),
                      PlaybackPrefetchBorrowAllowed(fl, lane))

\* dequeue_work_locked found work: it becomes a lease of this lane.  No other
\* waiter is notified.
Dequeue(lane) ==
    LET fl == RefreshedLeases
        i == NextWorkIndex(queue, lane, Now, Failover(fl, lane),
                           PlaybackPrefetchBorrowAllowed(fl, lane))
    IN  /\ Receiving(lane)
        /\ Eligible(fl, lane) # {}
        /\ \E l \in {x \in Leases : inFlight[x] = None} :
            inFlight' = Refreshed(latestGeneration, pending,
                            [fl EXCEPT ![l] = NewLease(queue[i], lane)], Now)
        /\ queue' = KeepAt(queue, DOMAIN queue \ {i})
        /\ Observe /\ Unresolved
        /\ UNCHANGED <<latestGeneration, activePlaybackDemand, pending,
                       closedAt, clock, workerVars>>

\* Nothing eligible: wait on `changed`, or leave when the broker is closed.
\* The sleep ends at the outer timeout or at a known failover instant.
Park(lane) ==
    LET fl == RefreshedLeases
        wakes == ({LoweredAt(ReceiveTimeout, Now)} \cup
                  {FailoverWakeAt(latestGeneration, pending, closedAt, queue,
                                  fl, lane, Now)}) \ {None}
    IN  /\ Receiving(lane)
        /\ Eligible(fl, lane) = {}
        /\ inFlight' = fl
        /\ Observe /\ Unresolved
        /\ worker' = [worker EXCEPT ![lane] =
                        IF closedAt # None THEN "Stopped" ELSE "Parked"]
        /\ wakeAt' = [wakeAt EXCEPT ![lane] =
                        IF closedAt # None \/ wakes = {} THEN None
                        ELSE LeastOf(wakes)]
        /\ UNCHANGED <<latestGeneration, activePlaybackDemand, pending, queue,
                       closedAt, clock, lifecycleRevision, observedRevision,
                       observing>>

Wake(lane) ==
    /\ worker[lane] = "Parked"
    /\ worker' = [worker EXCEPT ![lane] = "Awake"]
    /\ wakeAt' = [wakeAt EXCEPT ![lane] = None]
    /\ Unresolved
    /\ UNCHANGED <<latestGeneration, activePlaybackDemand, pending, queue,
                   inFlight, lastObservedAt, closedAt, clock,
                   lifecycleRevision, observedRevision, observing>>

\* The timed wait elapsed: the loop re-checks, or TimedOut makes the worker
\* call receive again.
TimedWakeup(lane) == wakeAt[lane] # None /\ wakeAt[lane] <= clock /\ Wake(lane)

\* A condition variable may return without a notification.
SpuriousWakeup(lane) == Wake(lane)

\* FrameWorkReceiveWait::Interrupted hands the worker the newer revision.
ObserveLifecycle(lane) ==
    /\ worker[lane] = "Awake"
    /\ Running(inFlight, lane) = {}
    /\ observedRevision[lane] # lifecycleRevision
    /\ observedRevision' = [observedRevision EXCEPT ![lane] = lifecycleRevision]
    /\ Unresolved
    /\ UNCHANGED <<latestGeneration, activePlaybackDemand, pending, queue,
                   inFlight, lastObservedAt, closedAt, clock,
                   lifecycleRevision, worker, wakeAt, observing>>

\* interrupt_worker_waits, and the waker that publishes the same revision.
InterruptWorkerWaits ==
    /\ lifecycleRevision < MaxRevision
    /\ lifecycleRevision' = lifecycleRevision + 1
    /\ worker' = [l \in Lanes |-> IF worker[l] = "Parked" THEN "Awake" ELSE worker[l]]
    /\ wakeAt' = [l \in Lanes |-> None]
    /\ observing' = {}
    /\ Unresolved
    /\ UNCHANGED <<latestGeneration, activePlaybackDemand, pending, queue,
                   inFlight, lastObservedAt, closedAt, clock, observedRevision>>

\* wait_for_execution_terminal_state: refresh, then return a terminal status
\* or park on the same condition variable.
WaitForExecutionTerminalState(l) ==
    LET fl == RefreshedLeases IN
    /\ l \in Observed \ observing
    /\ inFlight[l] # None
    /\ inFlight' = fl
    /\ observing' =
        IF \/ fl[l].completedAt # None
           \/ CancellationRequested(latestGeneration, pending, closedAt, fl[l], Now)
        THEN observing ELSE observing \cup {l}
    /\ Observe /\ Unresolved
    /\ UNCHANGED <<latestGeneration, activePlaybackDemand, pending, queue,
                   closedAt, clock, lifecycleRevision, observedRevision,
                   worker, wakeAt>>

-----------------------------------------------------------------------------
(* Completion.                                                             *)

MarkExecutionCompleted(l) ==
    /\ inFlight[l] # None
    /\ inFlight' = [inFlight EXCEPT ![l].completedAt = GetOrInsert(@, Now)]
    /\ Observe /\ NotifyAll /\ Unresolved
    /\ UNCHANGED <<latestGeneration, activePlaybackDemand, pending, queue,
                   closedAt, clock>>

\* resolve_locked for the execution e, taken out of the leases fl: how fresh
\* the completion is, and whether it takes the pending binding and the queued
\* fallback of its key with it.
ResolveLocked(e, fl, reusable) ==
    LET latest == latestGeneration
        p == pending[e.key]
        fallback == HasPreemptedFallback(latest, pending, queue, fl, e)
        stale == IF e.generation >= latest THEN "CacheOnly" ELSE "Stale"
        outcome(completion, takesPending, takesQueued) ==
            [completion |-> completion, takesPending |-> takesPending,
             takesQueued |-> takesQueued]
        changed == \/ p.binding.generation # e.generation
                   \/ p.binding.demandIdentity # e.demandIdentity
    IN  CASE BudgetExpiredBeforeCompletion(e) ->
                outcome("Stale",
                        HasExactPendingBinding(latest, pending, e) /\ ~fallback,
                        FALSE)
          [] ~BudgetExpiredBeforeCompletion(e) /\ e.preemptedAt # None ->
                outcome("Stale", ~fallback, FALSE)
          [] OTHER ->
                IF e.presentationBindingExpired
                THEN outcome("CacheOnly", FALSE, FALSE)
                ELSE IF \/ p = None
                        \/ p.binding.workClass # e.workClass
                        \/ p.binding.resourceScope # e.resourceScope
                THEN outcome(stale, FALSE, FALSE)
                ELSE IF PlaybackCurrentBindingIsSuperseded(
                            activePlaybackDemand, p.binding)
                THEN outcome(stale, TRUE, TRUE)
                ELSE IF changed /\ ~reusable
                THEN outcome("Stale", FALSE, FALSE)
                ELSE IF \/ p.binding.generation >= latest
                        \/ e.generation >= latest
                THEN outcome("Current", TRUE, TRUE)
                ELSE outcome("Stale", TRUE, TRUE)

\* resolve_locked, the orphan sweep and the refresh that follow it.
Settle(e, fl, reusable) ==
    LET o == ResolveLocked(e, fl, reusable)
        q == IF o.takesQueued THEN WithoutKey(queue, e.key) ELSE queue
        pend == IF o.takesPending THEN [pending EXCEPT ![e.key] = None] ELSE pending
    IN  /\ queue' = q
        /\ pending' = WithoutOrphan(pend, q, fl, e.key)
        /\ resolution' = [key |-> e.key, completion |-> o.completion,
                          binding |-> IF o.completion = "Current"
                                      THEN pending[e.key].binding ELSE None]
        /\ UNCHANGED <<latestGeneration, activePlaybackDemand, closedAt, clock>>
        /\ RefreshFrom(fl)
        /\ Observe /\ NotifyAll

ResolveExecution(l, reusable) ==
    /\ inFlight[l] # None
    /\ Settle([inFlight[l] EXCEPT !.completedAt = GetOrInsert(@, Now)],
              [inFlight EXCEPT ![l] = None], reusable)

\* Work that never held a lease: synchronous or externally executed.
ResolveUnleased(k, generation, class, scope, demand, reusable) ==
    Settle([key |-> k, generation |-> generation, priority |-> "Current",
            workClass |-> class, resourceScope |-> scope, workerLane |-> None,
            demandIdentity |-> demand, startedAt |-> Now,
            deadlineAt |-> None, inFlightDeadlinePolicy |-> "Cancel",
            executionCancellationDeadlineAt |-> None, completedAt |-> Now,
            preemptedAt |-> None, invalidatedAt |-> None,
            presentationBindingExpired |-> FALSE],
           inFlight, reusable)

AbandonExecution(l) ==
    LET e == inFlight[l] IN
    /\ e # None
    /\ inFlight' = [inFlight EXCEPT ![l] = None]
    /\ pending' = WithoutOrphan(pending, queue, inFlight', e.key)
    /\ NotifyAll /\ Unresolved
    /\ UNCHANGED <<latestGeneration, activePlaybackDemand, queue,
                   lastObservedAt, closedAt, clock>>

\* fail_execution: the exact latest binding goes with the failed lease; the
\* queue is not touched.
FailExecution(l) ==
    LET e == inFlight[l]
        fl == [inFlight EXCEPT ![l] = None]
        exact == HasExactPendingBinding(latestGeneration, pending, e)
        superseded == /\ exact
                      /\ PlaybackCurrentBindingIsSuperseded(
                            activePlaybackDemand, pending[e.key].binding)
        consumes == /\ exact
                    /\ ~e.presentationBindingExpired
                    /\ ~superseded
                    /\ ~(/\ e.preemptedAt # None
                         /\ HasPreemptedFallback(latestGeneration, pending,
                                                 queue, fl, e))
        taken == IF consumes \/ superseded
                 THEN [pending EXCEPT ![e.key] = None] ELSE pending
        inactiveOrphan ==
            /\ taken[e.key] # None
            /\ PlaybackCurrentBindingIsSuperseded(activePlaybackDemand,
                                                  taken[e.key].binding)
            /\ ~\E i \in DOMAIN queue : queue[i].request.key = e.key
            /\ ~\E x \in InFlightIn(fl) : fl[x].key = e.key
    IN  /\ e # None
        /\ pending' = WithoutOrphan(
                IF inactiveOrphan THEN [taken EXCEPT ![e.key] = None] ELSE taken,
                queue, fl, e.key)
        /\ UNCHANGED <<latestGeneration, activePlaybackDemand, queue, closedAt, clock>>
        /\ RefreshFrom(fl)
        /\ Observe /\ NotifyAll /\ Unresolved

-----------------------------------------------------------------------------
(* Cancellation, eviction and demand authority.                            *)

\* Seeded fault: the queued payload of a canceled key stays.
RemoveKeyFromPending(k) ==
    /\ pending' = [pending EXCEPT ![k] = None]
    /\ UNCHANGED <<latestGeneration, activePlaybackDemand, queue, closedAt, clock>>
    /\ RefreshFrom(InvalidatedKey(inFlight, k, Now))
    /\ Observe /\ Unresolved

\* remove_key_locked, then refresh.
RemoveKey(k) ==
    /\ pending' = [pending EXCEPT ![k] = None]
    /\ queue' = WithoutKey(queue, k)
    /\ UNCHANGED <<latestGeneration, activePlaybackDemand, closedAt, clock>>
    /\ RefreshFrom(InvalidatedKey(inFlight, k, Now))
    /\ Observe /\ Unresolved

CancelKey(k) ==
    /\ RemoveKey(k)
    /\ NotifyAllIf(pending[k] # None \/ Len(queue') < Len(queue))

CancelAll ==
    /\ latestGeneration < MaxGeneration
    /\ latestGeneration' = latestGeneration + 1
    /\ pending' = [k \in Keys |-> None]
    /\ queue' = <<>>
    /\ activePlaybackDemand' = None
    /\ RefreshFrom(ClearedExpiry(inFlight))
    /\ Observe /\ NotifyAll /\ Unresolved
    /\ UNCHANGED <<closedAt, clock>>

CancelPreemptedStill(k, scope) ==
    /\ pending[k] # None
    /\ pending[k].binding.priority = "Current"
    /\ pending[k].binding.workClass = "Still"
    /\ pending[k].binding.resourceScope = scope
    /\ pending[k].binding.generation >= latestGeneration
    /\ RemoveKey(k)
    /\ NotifyAll

\* key_current drops a binding older than the generation it is asked about.
KeyCurrent(k, generation) ==
    /\ pending[k] # None
    /\ \/ pending[k].binding.generation < generation
       \/ pending[k].binding.generation < latestGeneration
    /\ RemoveKey(k)
    /\ NotifyAll

CancelOneQueuedPrefetch ==
    LET idle == Positions(queue, LAMBDA w :
            /\ w.request.priority = "Prefetch"
            /\ ~\E l \in InFlightIn(inFlight) : inFlight[l].key = w.request.key)
        i == FirstPosition(idle)
    IN  /\ idle # {}
        /\ queue' = KeepAt(queue, DOMAIN queue \ {i})
        /\ pending' = [pending EXCEPT ![queue[i].request.key] = None]
        /\ NotifyAll /\ Unresolved
        /\ UNCHANGED <<latestGeneration, activePlaybackDemand, inFlight,
                       lastObservedAt, closedAt, clock>>

\* The oldest live prefetch lease; slots stand for ids, so a tie is open.
RequestOneInFlightPrefetchPreemption ==
    LET live == {l \in InFlightIn(inFlight) :
                    /\ inFlight[l].priority = "Prefetch"
                    /\ inFlight[l].completedAt = None
                    /\ inFlight[l].preemptedAt = None}
    IN  /\ closedAt = None
        /\ \E l \in live :
            /\ \A x \in live : inFlight[l].startedAt <= inFlight[x].startedAt
            /\ inFlight' = [inFlight EXCEPT ![l].preemptedAt = Now]
        /\ Observe /\ NotifyAll /\ Unresolved
        /\ UNCHANGED <<latestGeneration, activePlaybackDemand, pending, queue,
                       closedAt, clock>>

SynchronizePlaybackCurrentDemand(active) ==
    LET rebound(e) ==
            /\ pending[e.key] # None
            /\ pending[e.key].binding.generation >= latestGeneration
            /\ pending[e.key].binding.workClass = e.workClass
            /\ pending[e.key].binding.resourceScope = e.resourceScope
            /\ pending[e.key].binding.demandIdentity = active
        detaches(e) ==
            /\ e.priority = "Current"
            /\ e.demandIdentity \notin {None, active}
            /\ ~rebound(e)
            /\ RetainsPlaybackLocality(e)
            /\ Undisturbed(e)
        leases == [l \in Leases |->
            IF inFlight[l] # None /\ detaches(inFlight[l])
            THEN [inFlight[l] EXCEPT !.presentationBindingExpired = TRUE]
            ELSE inFlight[l]]
        superseded(w) == /\ w.request.priority = "Current"
                         /\ w.request.workClass = "Playback"
                         /\ w.request.demandIdentity \notin {None, active}
        dropped(k) ==
            /\ \E i \in DOMAIN queue : superseded(queue[i]) /\ queue[i].request.key = k
            /\ pending[k] # None
            /\ PlaybackCurrentBindingIsSuperseded(active, pending[k].binding)
            /\ ~\E l \in InFlightIn(leases) :
                /\ leases[l].key = k
                /\ leases[l].workClass = pending[k].binding.workClass
                /\ leases[l].resourceScope = pending[k].binding.resourceScope
    IN  /\ activePlaybackDemand' = active
        /\ queue' = KeepAt(queue, Positions(queue, LAMBDA w : ~superseded(w)))
        /\ pending' = [k \in Keys |-> IF dropped(k) THEN None ELSE pending[k]]
        /\ UNCHANGED <<latestGeneration, closedAt, clock>>
        /\ RefreshFrom(leases)
        /\ Observe /\ NotifyAll /\ Unresolved

\* expire_playback_current_older_than(MaxAge)
ExpirePlaybackCurrent ==
    LET expires(p) ==
            /\ p.binding.priority = "Current"
            /\ p.binding.workClass = "Playback"
            /\ p.binding.generation >= latestGeneration
            /\ IF p.deadlineAt = None THEN Now - p.requestedAt >= MaxAge
               ELSE p.deadlineAt <= Now
        expired == {k \in PendingKeys(pending) : expires(pending[k])}
        detaches(e) ==
            /\ e.key \in expired
            /\ e.generation = pending[e.key].binding.generation
            /\ e.generation >= latestGeneration
            /\ e.workClass = pending[e.key].binding.workClass
            /\ e.resourceScope = pending[e.key].binding.resourceScope
            /\ e.inFlightDeadlinePolicy = "FinishForLocality"
            /\ e.invalidatedAt = None
            /\ e.preemptedAt = None
    IN  /\ pending' = [k \in Keys |-> IF k \in expired THEN None ELSE pending[k]]
        /\ queue' = KeepAt(queue, Positions(queue,
                        LAMBDA w : w.request.key \notin expired))
        /\ UNCHANGED <<latestGeneration, activePlaybackDemand, closedAt, clock>>
        /\ RefreshFrom([l \in Leases |->
                IF inFlight[l] # None /\ detaches(inFlight[l])
                THEN [inFlight[l] EXCEPT !.presentationBindingExpired = TRUE]
                ELSE inFlight[l]])
        /\ Observe /\ NotifyAllIf(expired # {}) /\ Unresolved

Close ==
    /\ closedAt' = GetOrInsert(closedAt, Now)
    /\ activePlaybackDemand' = None
    /\ pending' = [k \in Keys |-> None]
    /\ queue' = <<>>
    /\ UNCHANGED <<latestGeneration, clock>>
    /\ RefreshFrom(inFlight)
    /\ Observe /\ NotifyAll /\ Unresolved

\* The clock Adapter: it advances, and a faulty one may step back.
ClockAdvances ==
    /\ clock < MaxTime
    /\ clock' = clock + 1
    /\ Unresolved
    /\ UNCHANGED <<latestGeneration, activePlaybackDemand, pending, queue,
                   inFlight, lastObservedAt, closedAt, workerVars>>

ClockRegresses ==
    /\ clock > 0
    /\ clock' = clock - 1
    /\ Unresolved
    /\ UNCHANGED <<latestGeneration, activePlaybackDemand, pending, queue,
                   inFlight, lastObservedAt, closedAt, workerVars>>

-----------------------------------------------------------------------------

Init ==
    /\ latestGeneration = 0
    /\ activePlaybackDemand = None
    /\ pending = [k \in Keys |-> None]
    /\ queue = <<>>
    /\ inFlight = [l \in Leases |-> None]
    /\ clock = 0
    /\ lastObservedAt = 0
    /\ closedAt = None
    /\ lifecycleRevision = 0
    /\ observedRevision = [l \in Lanes |-> 0]
    /\ worker = [l \in Lanes |-> "Awake"]
    /\ wakeAt = [l \in Lanes |-> None]
    /\ observing = {}
    /\ resolution = None

\* What the coordinators and the completion pump ask of the broker.
CoordinatorStep ==
    \/ BeginGeneration
    \/ BeginGenerationPreservingPlaybackLocality
    \/ BeginGenerationPreservingInFlightPlaybackLocality
    \/ \E g \in Generations : PruneBefore(g)
    \/ PruneObsolete
    \/ \E r \in Requests : Submit(r) \/ BindExisting(r)
    \/ \E k \in Keys : CancelKey(k)
    \/ CancelAll
    \/ \E k \in Keys, s \in Scopes : CancelPreemptedStill(k, s)
    \/ \E k \in Keys, g \in Generations : KeyCurrent(k, g)
    \/ CancelOneQueuedPrefetch
    \/ RequestOneInFlightPrefetchPreemption
    \/ \E d \in Demands : SynchronizePlaybackCurrentDemand(d)
    \/ ExpirePlaybackCurrent
    \/ InterruptWorkerWaits
    \/ Close

\* Work that reaches a completion, with or without a lease.
CompletionStep ==
    \/ \E l \in Leases, reusable \in BOOLEAN : ResolveExecution(l, reusable)
    \/ \E r \in Requests, reusable \in BOOLEAN :
        ResolveUnleased(r.key, r.generation, r.workClass, r.resourceScope,
                        r.demandIdentity, reusable)

WorkerStep ==
    \/ \E lane \in Lanes :
        \/ Dequeue(lane)
        \/ Park(lane)
        \/ TimedWakeup(lane)
        \/ SpuriousWakeup(lane)
        \/ ObserveLifecycle(lane)
    \/ \E l \in Leases :
        \/ WaitForExecutionTerminalState(l)
        \/ MarkExecutionCompleted(l)
        \/ AbandonExecution(l)

ClockStep == ClockAdvances \/ ClockRegresses

\* Every behaviour in which no execution fails ...
NextWithoutFailure == CoordinatorStep \/ CompletionStep \/ WorkerStep \/ ClockStep

\* ... and every behaviour.
Next == NextWithoutFailure \/ \E l \in Leases : FailExecution(l)

SpecWithoutFailure == Init /\ [][NextWithoutFailure]_vars
Spec == Init /\ [][Next]_vars

=============================================================================
