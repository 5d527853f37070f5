---------------------- MODULE FrameWorkBrokerProperties ----------------------
(***************************************************************************)
(* What the Frame Work Broker promises: its type invariant, the safety     *)
(* invariants and action properties of its lifecycle, and its liveness.    *)
(***************************************************************************)
EXTENDS FrameWorkBroker

WorkerStates == {"Awake", "Parked", "Stopped"}

\* Every variable keeps the type of the BrokerState field it stands for
\* (work_broker.rs:463).
TypeOK ==
    /\ latestGeneration \in Generations
    /\ activePlaybackDemand \in Option(Demands)
    /\ pending \in [Keys -> Option(PendingBinding)]
    /\ queue \in Seq(QueuedWork)
    /\ inFlight \in [Leases -> Option(InFlightWork)]
    /\ clock \in 0 .. MaxTime
    /\ lastObservedAt \in 0 .. MaxTime
    /\ closedAt \in Option(Nat)
    /\ lifecycleRevision \in 0 .. MaxRevision
    /\ observedRevision \in [Lanes -> 0 .. MaxRevision]
    /\ worker \in [Lanes -> WorkerStates]
    /\ wakeAt \in [Lanes -> Option(Nat)]
    /\ observing \subseteq Observed
    /\ resolution \in Option(Resolution)

-----------------------------------------------------------------------------
(* Bounded admission.                                                      *)

\* The transport queue never exceeds its budget, whatever was evicted,
\* rebound, pruned or left behind before the push.
QueueWithinBudget == Len(queue) <= MaxQueued

\* The pending map never exceeds its budget: "strict nonzero pending and
\* queued budgets" (work_broker.rs:532).
PendingWithinBudget == Cardinality(PendingKeys(pending)) <= MaxPending

\* The pending map and the queue are two views of one admission: a queued
\* payload is the only one of its key and carries exactly the binding,
\* deadline, policy and budget its key is bound to.
QueueMirrorsPending ==
    /\ \A i, j \in DOMAIN queue :
        queue[i].request.key = queue[j].request.key => i = j
    /\ \A i \in DOMAIN queue :
        LET r == queue[i].request
            p == pending[r.key]
        IN  /\ p # None
            /\ p.binding = BindingFor(r)
            /\ p.deadlineAt = queue[i].deadlineAt
            /\ p.inFlightDeadlinePolicy = r.inFlightDeadlinePolicy
            /\ p.executionCancellationBudget = r.executionCancellationBudget

\* A pending binding never outlives all the physical work of its key: a
\* demand can not wait for a completion nobody will ever deliver.
NoBindingWithoutWork ==
    \A k \in PendingKeys(pending) :
        \/ \E i \in DOMAIN queue : queue[i].request.key = k
        \/ \E l \in InFlightIn(inFlight) : inFlight[l].key = k

\* Admission for capacity takes its victims in the order the code states: a
\* submission that stays speculative evicts nobody, and no submission evicts
\* realtime (non-Still) Current work of another key.
AdmissionRespectsPriority ==
    [][\A k \in PendingKeys(pending) :
        pending'[k] = None =>
            \A r \in Requests : Submit(r) =>
                /\ \/ r.priority = "Current"
                   \/ /\ pending[r.key] # None
                      /\ pending[r.key].binding.priority = "Current"
                /\ \/ pending[k].binding.priority = "Prefetch"
                   \/ pending[k].binding.workClass = "Still"]_vars

-----------------------------------------------------------------------------
(* Latest-wins authority.                                                  *)

\* Nothing of an older generation stays bound or queued after a rotation.
BindingsAreLatest ==
    /\ \A k \in PendingKeys(pending) :
        pending[k].binding.generation >= latestGeneration
    /\ \A i \in DOMAIN queue : queue[i].request.generation >= latestGeneration

PublishesLatestBinding ==
    resolution' # None /\ resolution'.completion = "Current" =>
        LET k == resolution'.key IN
        /\ pending[k] # None
        /\ resolution'.binding = pending[k].binding
        /\ resolution'.binding.generation >= latestGeneration
        /\ ~PlaybackCurrentBindingIsSuperseded(activePlaybackDemand,
                                               resolution'.binding)
        /\ pending'[k] = None
        /\ \A i \in DOMAIN queue' : queue'[i].request.key # k

\* A completion that may be shown satisfies the exact latest binding of its
\* key, in the latest generation and for the active Playback demand, and
\* takes that binding and any queued fallback with it: it is shown once.
PublicationIsAuthoritative == [][PublishesLatestBinding]_vars

ShowsInAuthority ==
    resolution' # None /\ resolution'.completion = "Current" =>
        \A l \in Leases :
            inFlight[l] # None /\ inFlight'[l] = None =>
                LET e == inFlight[l]
                    completedAt == GetOrInsert(e.completedAt, Now)
                IN  /\ e.preemptedAt = None
                    /\ ~e.presentationBindingExpired
                    /\ \/ e.executionCancellationDeadlineAt = None
                       \/ completedAt < e.executionCancellationDeadlineAt

\* A completion may be shown only for a lease that, at the instant it is
\* resolved, stands unpreempted, holds presentation authority, and whose worker
\* returned within the budget its latest binding gave it.  It speaks of that
\* instant alone.  A preemption is for good (LeaseEvidenceSticks), but a budget
\* may have been renewed by a rebinding, and authority restored by a demand
\* rebound (RestoredDemandBinding), even after it was lost to age expiry.
OnlyAuthorityIsShown == [][ShowsInAuthority]_vars

\* A closed broker holds nothing and shows nothing ("no execution may
\* publish", frame_work.rs:82), while its leases drain.
ClosedBrokerIsSilent ==
    closedAt # None =>
        /\ PendingKeys(pending) = {}
        /\ queue = <<>>
        /\ resolution # None => resolution.completion # "Current"

-----------------------------------------------------------------------------
(* Lease evidence.                                                         *)

\* While a lease lives its identity never changes, its completion stamp is
\* written once, and a preemption is never withdrawn or postponed.
LeaseEvidenceSticks ==
    [][\A l \in Leases :
        inFlight[l] # None /\ inFlight'[l] # None =>
            LET old == inFlight[l]
                new == inFlight'[l]
            IN  /\ new.key = old.key
                /\ new.generation = old.generation
                /\ new.startedAt = old.startedAt
                /\ old.completedAt # None => new.completedAt = old.completedAt
                /\ old.preemptedAt # None =>
                    /\ new.preemptedAt # None
                    /\ new.preemptedAt <= old.preemptedAt]_vars

-----------------------------------------------------------------------------
(* Waiting threads.                                                        *)

\* No lost wakeup: a parked worker has no work its lane accepts by class or
\* affinity, no unseen lifecycle revision, and no closed broker to leave.
NoLostWakeup ==
    \A lane \in Lanes : worker[lane] = "Parked" =>
        /\ \A i \in DOMAIN queue : ~LaneTakes(lane, queue[i].request, FALSE, FALSE)
        /\ observedRevision[lane] = lifecycleRevision
        /\ closedAt = None

=============================================================================
