------------------------- MODULE RenderQueueProperties -------------------------
(***************************************************************************)
(* What the export queue owes its callers, as properties of RenderQueue.   *)
(***************************************************************************)
EXTENDS RenderQueue

\* Every state variable has its type.
QueueTypeOK ==
    /\ jobs \in [Jobs -> Entry]
    /\ nextGeneration \in Nat \ {0}
    /\ dispatchEnabled \in BOOLEAN
    /\ shutdown \in BOOLEAN
    /\ workerFailure \in BOOLEAN
    /\ receiptFacts \in Facts
    /\ audio \in [live : BOOLEAN, failed : BOOLEAN]
    /\ worker \in Worker
    /\ owner \in Owner
    /\ submission \in [Jobs -> {"Offered", "Inspected", "Admitted", "Rejected"}]
    /\ accepted \subseteq Jobs
    /\ named \subseteq Jobs
    /\ durable \subseteq Jobs
    /\ vacant \subseteq Outputs
    /\ deadlinePassed \in BOOLEAN

\* The worker executes exactly the one attempt that runs: whatever was
\* cancelled, trimmed from the history or shut down meanwhile, the entry of an
\* attempt in execution is still there and still its own.
WorkerHoldsItsAttempt ==
    \A j \in Jobs :
        jobs[j].status \in {"Running", "Cancelling"} <=>
            worker.job = j /\ worker.at \in ExecutionPlaces

\* What the queue says of an ended attempt is true of the disk: `Published` is
\* durable, `DurabilityUnconfirmed` has its name, `NotPublished` left nothing
\* behind; only `OutcomeUnknown` does not know.
VerdictsMatchDisk ==
    \A j \in Jobs :
        /\ jobs[j].publication = "Published" => j \in durable
        /\ jobs[j].publication = "DurabilityUnconfirmed" => j \in named
        /\ jobs[j].publication = "NotPublished" => j \notin named
        /\ IsActive(jobs[j]) /\ ~IsCommitting(jobs[j]) => j \notin named

\* A cancellation answered `Requested` is kept: no byte of that submission is
\* ever given its final name, though the worker, paused at a gate, cancelled by
\* shutdown or about to publish, learns of it much later.
AcceptedCancellationHolds == accepted \intersect named = {}

\* Two attempts in flight never write the same output, though each caller
\* inspected the route before either was admitted.
OneWriterPerOutput ==
    \A j, k \in Jobs :
        j # k /\ IsActive(jobs[j]) /\ IsActive(jobs[k]) => OutputOf[j] # OutputOf[k]

\* An entry that reports it yielded its resources has a worker that stands at a
\* gate and uses none: the resource coordinator hands the slot on that word.
YieldedUsesNothing ==
    \A j \in Jobs :
        jobs[j].yielded => worker.job = j /\ worker.at \in {"AtGate", "Parked"}

\* A receipt that says every resource was released stays true: the worker has
\* finished in time, no audio source is open, nothing is or becomes active.
ReleasedReceiptIsTrue ==
    owner.receipt = "Released" =>
        /\ worker.at = "Finished"
        /\ ~audio.live
        /\ \A j \in Jobs : ~IsActive(jobs[j])

\* The worker never sleeps beside work it could take, and never stays parked
\* once it may go on or has to stop.
NoMissedWakeup ==
    /\ worker.at = "Sleeping" =>
           ~shutdown /\ (dispatchEnabled => \A j \in Jobs : jobs[j].status # "Pending")
    /\ worker.at = "Parked" => ~GateRefused /\ ~GateAdmits

-----------------------------------------------------------------------------
\* The queue implements the contract of ExportAttempts.

\* What became of a submission, from how far its caller got and its entry.
AttemptOf(submitted, entry) ==
    CASE submitted \in {"Offered", "Inspected"}      -> "Offered"
      [] submitted = "Rejected"                      -> "Refused"
      [] submitted = "Admitted" ->
             CASE entry.status = "Pending"           -> "Waiting"
               [] entry.status \in {"Running", "Cancelling"} ->
                      IF IsCommitting(entry) THEN "Committed" ELSE "Executing"
               [] entry.status = "Completed"         -> "Published"
               [] entry.status = "Cancelled"         -> "Cancelled"
               [] entry.status = "Failed" ->
                      CASE entry.publication = "NotPublished"          -> "Failed"
                        [] entry.publication = "DurabilityUnconfirmed" -> "Unconfirmed"
                        [] OTHER                                       -> "Unknown"
               [] OTHER                              -> "Forgotten"

Attempts ==
    INSTANCE ExportAttempts WITH
        attempt <- [j \in Jobs |-> AttemptOf(submission[j], jobs[j])]

\* The mutex, the worker thread, its gate and its wake-ups implement what the
\* operator is promised: one attempt at a time, a cancellation that is final,
\* a verdict that tells what happened to the name, no replaced file.
ImplementsAttempts == Attempts!Contract

-----------------------------------------------------------------------------
\* Liveness.  The worker thread is scheduled while it is awake: an execution
\* reaches its next gate or ends, a publication returns; nothing wakes it but a
\* notification.  What the owner of the handle
\* does after it has begun the shutdown changes nothing the worker reads, so
\* shutdown_until, Drop and the receipt are left out here.

SettlingNext ==
    \/ SubmissionStep
    \/ \E j \in Jobs : CancelPending(j) \/ CancelRunning(j)
    \/ ClearTerminalHistory
    \/ \E enabled \in BOOLEAN : SetDispatchEnabled(enabled)
    \/ BeginShutdown
    \/ WorkerStep
    \/ \E o \in Outputs : Meddle(o)

SettlingSpec == Init /\ [][SettlingNext]_vars /\ WF_vars(WorkerStep)

\* A cancelled attempt ends, even while the coordinator keeps dispatch paused.
CancellationsEnd ==
    \A j \in Jobs : jobs[j].status = "Cancelling" ~> jobs[j].status # "Cancelling"

\* Shutdown ends the worker thread, wherever it was asleep, parked or at work.
ShutdownEndsWorker == shutdown ~> worker.at \in {"Finished", "Missing"}

\* A pending attempt is eventually taken or ended, unless dispatch is paused
\* again and again or the worker is gone.
PendingIsTaken ==
    \A j \in Jobs :
        (jobs[j].status = "Pending" /\ <>[]dispatchEnabled) ~>
            (jobs[j].status # "Pending" \/ workerFailure)

=============================================================================
