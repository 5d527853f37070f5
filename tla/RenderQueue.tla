----------------------------- MODULE RenderQueue -----------------------------
(***************************************************************************)
(* The offline export queue and its worker thread:                         *)
(* crates/mondrian-export/src/queue/service.rs, with the executor of       *)
(* queue/mod.rs reduced to what it does to the queue, the gate and the     *)
(* disk.                                                                   *)
(*                                                                         *)
(* Every method holds the queue's mutex from its first read to its last    *)
(* write, so it is one action; `enqueue` inspects the output route before  *)
(* it locks and is two.  One condition variable wakes the worker: asleep   *)
(* between jobs ("Sleeping") or parked at the gate of its running attempt  *)
(* ("Parked"), it moves only after a notification.                         *)
(*                                                                         *)
(* A pending entry always holds its payload, so the payload is left out;   *)
(* so are the counters, the resource grant and the revision tokens.        *)
(***************************************************************************)
EXTENDS Naturals, FiniteSets

CONSTANTS
    Jobs,               \* submissions: a RenderJob is consumed by enqueue, so
                        \* an identity is offered once
    Outputs,            \* output keys
    OutputOf,           \* the output key of a submission
    PolicyOf,           \* its ExportOutputPolicy
    InFlightCapacity,   \* EXPORT_IN_FLIGHT_CAPACITY
    HistoryCapacity     \* EXPORT_TERMINAL_HISTORY_CAPACITY

\* Of a worker that executes nothing.
NoJob == "none"
None == "none"

ASSUME QueueAssumption ==
    /\ OutputOf \in [Jobs -> Outputs]
    /\ PolicyOf \in [Jobs -> {"CreateNew", "OverwriteExisting"}]
    /\ IsFiniteSet(Jobs)
    /\ NoJob \notin Jobs
    /\ InFlightCapacity \in Nat \ {0}
    /\ HistoryCapacity \in Nat \ {0}

VARIABLES
    jobs,              \* ExportQueueState.jobs: the entry of each submission
    nextGeneration,
    dispatchEnabled,
    shutdown,          \* RenderQueueInner.shutdown
    workerFailure,     \* a worker failure is recorded: admission is closed
    receiptFacts,      \* worker_terminated, _panicked, _timed_out, ... so far
    audio,             \* audio source owners: the live one, and failures
    worker,            \* the worker thread and the attempt it executes
    owner,             \* who holds the worker's handle, and what it was told
    submission,        \* how far the caller of enqueue got with a submission
    accepted,          \* submissions whose cancel was answered `Requested`
    named,             \* submissions whose bytes were given their final name
    durable,           \* those whose name is known to survive a power loss
    vacant,            \* output routes that name no file
    deadlinePassed     \* the shutdown deadline is over

queueVars == <<jobs, nextGeneration, dispatchEnabled, shutdown, workerFailure,
               receiptFacts, audio>>
clientVars == <<owner, submission, accepted, deadlinePassed>>
diskVars == <<named, durable, vacant>>
vars == <<queueVars, worker, clientVars, diskVars>>

\* ExportProgressPhase; Rendering also stands for Encoding, Packaging and
\* Validating, which differ in nothing the queue looks at.
Preparing == 1
Rendering == 2
Publishing == 3
Phases == Preparing .. Publishing

Statuses == {"Absent", "Pending", "Running", "Cancelling", "Completed", "Failed",
             "Cancelled"}
Publications == {"Reversible", "Committing", "Published", "DurabilityUnconfirmed",
                 "NotPublished", "OutcomeUnknown"}

Entry ==
    [status : Statuses, phase : Phases, publication : Publications,
     canceled : BOOLEAN, yielded : BOOLEAN, generation : Nat]

NoEntry ==
    [status |-> "Absent", phase |-> Preparing, publication |-> "Reversible",
     canceled |-> FALSE, yielded |-> FALSE, generation |-> 0]

IsTerminal(entry) == entry.status \in {"Completed", "Failed", "Cancelled"}
IsActive(entry) == entry.status \in {"Pending", "Running", "Cancelling"}
IsCommitting(entry) == entry.publication = "Committing"

\* JobExecutionResult and a panic; the failures of a publication by name.
PublicationFailures == {"BeforeNamespace", "DurabilityUnconfirmed", "NamespaceIndeterminate"}
Outcomes == {"Published", "Failed", "Cancelled", "Panicked"} \union PublicationFailures

WorkerPlaces ==
    {"Missing", "Spawned", "Taking", "Sleeping", "AtGate", "Parked", "Executing",
     "Committed", "Placed", "Closing", "Reporting", "Leaving", "Stamped", "Finished"}

\* The places of a worker that holds an attempt.
ExecutionPlaces ==
    {"AtGate", "Parked", "Executing", "Committed", "Placed", "Closing", "Reporting"}

\* The worker's part of ExportQueueState, and who holds its handle.
Facts ==
    [started : BOOLEAN, startFailed : BOOLEAN, terminated : BOOLEAN, panicked : BOOLEAN,
     timedOut : BOOLEAN, detached : BOOLEAN, abandoned : BOOLEAN,
     completed : {"No", "InTime", "Late"}]

Owner ==
    [at : {"Serving", "Joining", "Retired", "Dropped"},
     receipt : {"Unasked", "Released", "Retained"}]

Worker ==
    [at : WorkerPlaces, job : Jobs \union {NoJob}, phase : Phases,
     outcome : Outcomes \union {None}]

-----------------------------------------------------------------------------

\* Seeded fault: the gate waits on a condition variable nobody notifies.
NotifiedAsleep(w) == IF w.at = "Sleeping" THEN [w EXCEPT !.at = "Taking"] ELSE w

\* Seeded fault: the loop waits on a condition variable nobody notifies.
NotifiedAtGate(w) == IF w.at = "Parked" THEN [w EXCEPT !.at = "AtGate"] ELSE w

\* Condvar::notify_all, and notify_one: only the worker waits untimed.
Notified(w) ==
    CASE w.at = "Sleeping" -> [w EXCEPT !.at = "Taking"]
      [] w.at = "Parked"   -> [w EXCEPT !.at = "AtGate"]
      [] OTHER             -> w

\* The oldest terminal entries, by admission, leave until HistoryCapacity of
\* them remain.
TrimTerminalHistory(js) ==
    LET Newer(j) == {k \in Jobs : IsTerminal(js[k]) /\ js[k].generation > js[j].generation}
        Expendable(j) == IsTerminal(js[j]) /\ Cardinality(Newer(j)) >= HistoryCapacity
    IN [j \in Jobs |-> IF Expendable(j) THEN NoEntry ELSE js[j]]

Ended(entry, status, publication) ==
    [entry EXCEPT !.status = status, !.publication = publication]

\* What cancel and begin_shutdown do to a pending entry.
CancelledPending(entry) ==
    [Ended(entry, "Cancelled", "NotPublished") EXCEPT !.canceled = TRUE]

-----------------------------------------------------------------------------
\* Callers.

\* enqueue before it locks: a queue that has shut down, an invalid submission
\* and an output that cannot be created are rejected, the file system is asked
\* about the route.
InspectRoute(j) ==
    /\ submission[j] = "Offered"
    /\ owner.at # "Dropped"
    /\ ~shutdown
    /\ PolicyOf[j] = "CreateNew" => OutputOf[j] \in vacant
    /\ submission' = [submission EXCEPT ![j] = "Inspected"]
    /\ UNCHANGED <<queueVars, worker, owner, accepted, deadlinePassed, diskVars>>

RejectUnlocked(j) ==
    /\ submission[j] = "Offered"
    /\ owner.at # "Dropped"
    /\ submission' = [submission EXCEPT ![j] = "Rejected"]
    /\ UNCHANGED <<queueVars, worker, owner, accepted, deadlinePassed, diskVars>>

\* Seeded fault: shutdown is looked at only before the lock.
AdmissibleAfterShutdown(j) ==
    /\ ~workerFailure
    /\ Cardinality({k \in Jobs : IsActive(jobs[k])}) < InFlightCapacity
    /\ \A k \in Jobs : IsActive(jobs[k]) => OutputOf[k] # OutputOf[j]

Admissible(j) ==
    /\ ~shutdown
    /\ ~workerFailure
    /\ Cardinality({k \in Jobs : IsActive(jobs[k])}) < InFlightCapacity
    /\ \A k \in Jobs : IsActive(jobs[k]) => OutputOf[k] # OutputOf[j]

\* enqueue under the lock: shutdown, worker failure, capacity and the output
\* key are looked at again, then the entry is pushed and the worker notified.
Admit(j) ==
    /\ submission[j] = "Inspected"
    /\ owner.at # "Dropped"
    /\ Admissible(j)
    /\ jobs' = [jobs EXCEPT ![j] =
           [NoEntry EXCEPT !.status = "Pending", !.generation = nextGeneration]]
    /\ nextGeneration' = nextGeneration + 1
    /\ worker' = Notified(worker)
    /\ submission' = [submission EXCEPT ![j] = "Admitted"]
    /\ UNCHANGED <<dispatchEnabled, shutdown, workerFailure, receiptFacts, audio,
                   owner, accepted, deadlinePassed, diskVars>>

RejectLocked(j) ==
    /\ submission[j] = "Inspected"
    /\ owner.at # "Dropped"
    /\ ~Admissible(j)
    /\ submission' = [submission EXCEPT ![j] = "Rejected"]
    /\ UNCHANGED <<queueVars, worker, owner, accepted, deadlinePassed, diskVars>>

\* cancel of a job that is still pending: terminal at once.
CancelPending(j) ==
    /\ owner.at # "Dropped"
    /\ jobs[j].status = "Pending"
    /\ jobs' = TrimTerminalHistory([jobs EXCEPT ![j] = CancelledPending(@)])
    /\ accepted' = accepted \union {j}
    /\ worker' = Notified(worker)
    /\ UNCHANGED <<nextGeneration, dispatchEnabled, shutdown, workerFailure,
                   receiptFacts, audio, owner, submission, deadlinePassed, diskVars>>

\* Seeded fault: an attempt that publishes may still be cancelled.
StillReversible(j) == jobs[j].status = "Running"

\* Past the publication boundary cancel is TooLateCommitting, and changes nothing.
Reversible(j) == jobs[j].status = "Running" /\ ~IsCommitting(jobs[j])

\* cancel of a running job: the token is set, the worker answers later.
CancelRunning(j) ==
    /\ owner.at # "Dropped"
    /\ Reversible(j)
    /\ jobs' = [jobs EXCEPT ![j].status = "Cancelling", ![j].canceled = TRUE]
    /\ accepted' = accepted \union {j}
    /\ worker' = Notified(worker)
    /\ UNCHANGED <<nextGeneration, dispatchEnabled, shutdown, workerFailure,
                   receiptFacts, audio, owner, submission, deadlinePassed, diskVars>>

ClearTerminalHistory ==
    /\ owner.at # "Dropped"
    /\ \E j \in Jobs : IsTerminal(jobs[j])
    /\ jobs' = [j \in Jobs |-> IF IsTerminal(jobs[j]) THEN NoEntry ELSE jobs[j]]
    /\ UNCHANGED <<nextGeneration, dispatchEnabled, shutdown, workerFailure,
                   receiptFacts, audio, worker, clientVars, diskVars>>

\* The resource coordinator pauses and resumes dispatch.
SetDispatchEnabled(enabled) ==
    /\ owner.at # "Dropped"
    /\ dispatchEnabled # enabled
    /\ dispatchEnabled' = enabled
    /\ worker' = Notified(worker)
    /\ UNCHANGED <<jobs, nextGeneration, shutdown, workerFailure, receiptFacts,
                   audio, clientVars, diskVars>>

-----------------------------------------------------------------------------
\* Shutdown and the worker's handle.

RefusesExecution(entry) == entry.canceled \/ shutdown

\* Seeded fault: shutdown ends running attempts under the worker's hands.
EndRunningJobs ==
    TrimTerminalHistory([j \in Jobs |->
        IF IsActive(jobs[j]) /\ ~IsCommitting(jobs[j]) THEN CancelledPending(jobs[j])
        ELSE jobs[j]])

\* begin_shutdown, the first time: pending entries end, the token of every
\* attempt that has not committed is set.
ShutDownJobs ==
    TrimTerminalHistory([j \in Jobs |->
        CASE jobs[j].status = "Pending" -> CancelledPending(jobs[j])
          [] jobs[j].status \in {"Running", "Cancelling"} /\ ~IsCommitting(jobs[j]) ->
                 [jobs[j] EXCEPT !.canceled = TRUE]
          [] OTHER -> jobs[j]])

BeginShutdownLocked ==
    /\ shutdown' = TRUE
    /\ jobs' = IF shutdown THEN jobs ELSE ShutDownJobs
    /\ worker' = Notified(worker)

BeginShutdown ==
    /\ owner.at = "Serving"
    /\ ~shutdown
    /\ BeginShutdownLocked
    /\ UNCHANGED <<nextGeneration, dispatchEnabled, workerFailure, receiptFacts,
                   audio, clientVars, diskVars>>

\* ExportQueueShutdownEvidence::all_resources_released
AllResourcesReleased(js, facts) ==
    /\ facts.started
    /\ ~facts.startFailed
    /\ facts.terminated
    /\ ~facts.panicked
    /\ ~facts.timedOut
    /\ ~facts.detached
    /\ ~facts.abandoned
    /\ \A j \in Jobs : ~IsActive(js[j])
    /\ ~audio.live
    /\ ~audio.failed

Receipt(js, facts) == IF AllResourcesReleased(js, facts) THEN "Released" ELSE "Retained"

\* shutdown_until: without a handle the receipt is immediate.
ShutdownUntil ==
    /\ owner.at = "Serving"
    /\ BeginShutdownLocked
    /\ owner' = IF worker.at = "Missing"
                THEN [at |-> "Retired", receipt |-> Receipt(jobs', receiptFacts)]
                ELSE [owner EXCEPT !.at = "Joining"]
    /\ UNCHANGED <<nextGeneration, dispatchEnabled, workerFailure, receiptFacts,
                   audio, submission, accepted, deadlinePassed, diskVars>>

\* join_finished_worker; a worker whose own stamp is late has timed out.
Joined(facts, waited) ==
    [facts EXCEPT !.terminated = ~facts.panicked,
                  !.timedOut = @ \/ (waited /\ facts.completed # "InTime")]

JoinFinishedWorker ==
    /\ owner.at = "Joining"
    /\ worker.at = "Finished"
    /\ receiptFacts' = Joined(receiptFacts, TRUE)
    /\ owner' = [at |-> "Retired", receipt |-> Receipt(jobs, receiptFacts')]
    /\ UNCHANGED <<jobs, nextGeneration, dispatchEnabled, shutdown, workerFailure,
                   audio, worker, submission, accepted, deadlinePassed, diskVars>>

\* finish_worker_until at the deadline: the handle is given up.
DetachWorker ==
    /\ owner.at = "Joining"
    /\ deadlinePassed
    /\ worker.at # "Finished"
    /\ receiptFacts' = [receiptFacts EXCEPT !.timedOut = TRUE, !.detached = TRUE]
    /\ workerFailure' = TRUE
    /\ owner' = [at |-> "Retired", receipt |-> Receipt(jobs, receiptFacts')]
    /\ UNCHANGED <<jobs, nextGeneration, dispatchEnabled, shutdown, audio, worker,
                   submission, accepted, deadlinePassed, diskVars>>

\* A sequential repeat of shutdown_until reads the receipt again.
RepeatShutdown ==
    /\ owner.at = "Retired"
    /\ owner' = [owner EXCEPT !.receipt = Receipt(jobs, receiptFacts)]
    /\ UNCHANGED <<queueVars, worker, submission, accepted, deadlinePassed, diskVars>>

\* Drop for RenderQueue: nobody is inside a method; a worker that is not
\* finished is detached.
DropQueue ==
    /\ owner.at \in {"Serving", "Retired"}
    /\ \A j \in Jobs : submission[j] # "Inspected"
    /\ BeginShutdownLocked
    /\ owner' = [owner EXCEPT !.at = "Dropped"]
    /\ LET held == owner.at = "Serving" /\ worker.at # "Missing" IN
       /\ receiptFacts' =
              IF ~held THEN receiptFacts
              ELSE IF worker.at = "Finished" THEN Joined(receiptFacts, FALSE)
              ELSE [receiptFacts EXCEPT !.detached = TRUE]
       /\ workerFailure' = (workerFailure \/ (held /\ worker.at # "Finished"))
    /\ UNCHANGED <<nextGeneration, dispatchEnabled, audio, submission, accepted,
                   deadlinePassed, diskVars>>

DeadlinePasses ==
    /\ ~deadlinePassed
    /\ deadlinePassed' = TRUE
    /\ UNCHANGED <<queueVars, worker, owner, submission, accepted, diskVars>>

-----------------------------------------------------------------------------
\* The worker thread between two jobs.

WorkerStarts ==
    /\ worker.at = "Spawned"
    /\ worker' = [worker EXCEPT !.at = "Taking"]
    /\ receiptFacts' = [receiptFacts EXCEPT !.started = TRUE]
    /\ UNCHANGED <<jobs, nextGeneration, dispatchEnabled, shutdown, workerFailure,
                   audio, clientVars, diskVars>>

NextPending(j) ==
    /\ jobs[j].status = "Pending"
    /\ \A k \in Jobs : jobs[k].status = "Pending" => jobs[j].generation <= jobs[k].generation

\* take_next_pending_job; the executor's first act is the gate of Preparing.
TakeNextPendingJob(j) ==
    /\ worker.at = "Taking"
    /\ ~shutdown
    /\ dispatchEnabled
    /\ NextPending(j)
    /\ jobs' = [jobs EXCEPT ![j].status = "Running", ![j].phase = Preparing]
    /\ worker' = [at |-> "AtGate", job |-> j, phase |-> Preparing, outcome |-> None]
    /\ UNCHANGED <<nextGeneration, dispatchEnabled, shutdown, workerFailure,
                   receiptFacts, audio, clientVars, diskVars>>

SleepUntilWork ==
    /\ worker.at = "Taking"
    /\ ~shutdown
    /\ dispatchEnabled => \A j \in Jobs : jobs[j].status # "Pending"
    /\ worker' = [worker EXCEPT !.at = "Sleeping"]
    /\ UNCHANGED <<queueVars, clientVars, diskVars>>

LeaveLoop ==
    /\ worker.at = "Taking"
    /\ shutdown
    /\ worker' = [worker EXCEPT !.at = "Leaving"]
    /\ UNCHANGED <<queueVars, clientVars, diskVars>>

\* mark_export_worker_completed, after an unwinding with a payload that may
\* have to be abandoned.
StampCompletion(opaque) ==
    /\ worker.at = "Leaving"
    /\ opaque => worker.outcome = "Panicked"
    /\ worker' = [worker EXCEPT !.at = "Stamped"]
    /\ receiptFacts' =
           [receiptFacts EXCEPT
               !.completed = IF deadlinePassed THEN "Late" ELSE "InTime",
               !.panicked = @ \/ worker.outcome = "Panicked",
               !.abandoned = @ \/ opaque]
    /\ workerFailure' = (workerFailure \/ worker.outcome = "Panicked")
    /\ UNCHANGED <<jobs, nextGeneration, dispatchEnabled, shutdown, audio,
                   clientVars, diskVars>>

ThreadFinishes ==
    /\ worker.at = "Stamped"
    /\ worker' = [worker EXCEPT !.at = "Finished"]
    /\ UNCHANGED <<queueVars, clientVars, diskVars>>

-----------------------------------------------------------------------------
\* The execution gate of the running attempt.

Current == jobs[worker.job]

\* Seeded fault: an attempt resumed at the gate does not look at its token.
GateRefusedByShutdown == ~IsCommitting(Current) /\ (~IsActive(Current) \/ shutdown)

GateRefused == ~IsCommitting(Current) /\ (~IsActive(Current) \/ RefusesExecution(Current))
GateAdmits == IsCommitting(Current) \/ (~GateRefused /\ dispatchEnabled)

\* Seeded fault: an attempt that was parked goes on without taking its word back.
StillYielded(entry) == entry

Resumed(entry) == [entry EXCEPT !.yielded = FALSE]

\* Seeded fault: the commit is written to the status, a state of its own.
CommittingStatus(entry) ==
    [entry EXCEPT !.status = "Committing", !.phase = Publishing, !.publication = "Committing"]

Committing(entry) ==
    [entry EXCEPT !.status = "Running", !.phase = Publishing, !.publication = "Committing"]

\* An attempt that may go on at Publishing commits, under the same lock.
GateOpens ==
    /\ worker.at = "AtGate"
    /\ GateAdmits
    /\ jobs' = [jobs EXCEPT ![worker.job] =
           IF worker.phase = Publishing THEN Committing(Resumed(@)) ELSE Resumed(@)]
    /\ worker' = [worker EXCEPT !.at = IF worker.phase = Publishing THEN "Committed"
                                       ELSE "Executing"]
    /\ UNCHANGED <<nextGeneration, dispatchEnabled, shutdown, workerFailure,
                   receiptFacts, audio, clientVars, diskVars>>

\* Cancellation or shutdown was observed first: the executor returns Cancelled.
GateRefuses ==
    /\ worker.at = "AtGate"
    /\ GateRefused
    /\ jobs' = [jobs EXCEPT ![worker.job].yielded = FALSE]
    /\ worker' = [worker EXCEPT !.at = "Closing", !.outcome = "Cancelled"]
    /\ UNCHANGED <<nextGeneration, dispatchEnabled, shutdown, workerFailure,
                   receiptFacts, audio, clientVars, diskVars>>

\* Dispatch is paused: the attempt reports that it yielded, and waits.
GateParks ==
    /\ worker.at = "AtGate"
    /\ ~GateRefused
    /\ ~GateAdmits
    /\ jobs' = [jobs EXCEPT ![worker.job].yielded = TRUE]
    /\ worker' = [worker EXCEPT !.at = "Parked"]
    /\ UNCHANGED <<nextGeneration, dispatchEnabled, shutdown, workerFailure,
                   receiptFacts, audio, clientVars, diskVars>>

-----------------------------------------------------------------------------
\* The executor between two gates.

\* update_job_progress: ignored unless the job runs and moves forward.
ReportProgress ==
    /\ worker.at = "Executing"
    /\ Current.status = "Running"
    /\ ~IsCommitting(Current)
    /\ worker.phase > Current.phase
    /\ jobs' = [jobs EXCEPT ![worker.job].status = "Running",
                            ![worker.job].phase = worker.phase]
    /\ UNCHANGED <<nextGeneration, dispatchEnabled, shutdown, workerFailure,
                   receiptFacts, audio, worker, clientVars, diskVars>>

OpenAudioSource ==
    /\ worker.at = "Executing"
    /\ ~audio.live
    /\ audio' = [audio EXCEPT !.live = TRUE]
    /\ UNCHANGED <<jobs, nextGeneration, dispatchEnabled, shutdown, workerFailure,
                   receiptFacts, worker, clientVars, diskVars>>

ReachNextPhase ==
    /\ worker.at = "Executing"
    /\ worker.phase < Publishing
    /\ worker' = [worker EXCEPT !.at = "AtGate", !.phase = worker.phase + 1]
    /\ UNCHANGED <<queueVars, clientVars, diskVars>>

\* The execution of the attempt returns, or unwinds.
Ends(outcome) ==
    /\ worker' = [worker EXCEPT !.at = "Closing", !.outcome = outcome]
    /\ UNCHANGED <<queueVars, clientVars>>

ExecutionObservesCancellation ==
    /\ worker.at = "Executing"
    /\ Current.canceled
    /\ Ends("Cancelled")
    /\ UNCHANGED diskVars

ExecutionFails ==
    /\ worker.at = "Executing"
    /\ Ends("Failed")
    /\ UNCHANGED diskVars

ExecutorPanics ==
    /\ worker.at \in {"Executing", "Committed", "Placed"}
    /\ Ends("Panicked")
    /\ UNCHANGED diskVars

\* The atomic rename or link of a publication.  CreateNew never replaces.
PlaceOutput ==
    /\ worker.at = "Committed"
    /\ PolicyOf[worker.job] = "CreateNew" => OutputOf[worker.job] \in vacant
    /\ worker' = [worker EXCEPT !.at = "Placed"]
    /\ named' = named \union {worker.job}
    /\ vacant' = vacant \ {OutputOf[worker.job]}
    /\ UNCHANGED <<queueVars, clientVars, durable>>

PublicationStopsBeforeNamespace ==
    /\ worker.at = "Committed"
    /\ Ends("BeforeNamespace")
    /\ UNCHANGED diskVars

\* The parent directory was synchronized.
ConfirmDurability ==
    /\ worker.at = "Placed"
    /\ Ends("Published")
    /\ durable' = durable \union {worker.job}
    /\ UNCHANGED <<named, vacant>>

DurabilityUnconfirmed ==
    /\ worker.at = "Placed"
    /\ Ends("DurabilityUnconfirmed")
    /\ UNCHANGED diskVars

NamespaceIndeterminate ==
    /\ worker.at \in {"Committed", "Placed"}
    /\ Ends("NamespaceIndeterminate")
    /\ UNCHANGED diskVars

\* finish_export_with_audio_closure: an audio source that was not released
\* turns a cancellation into a failure, and never touches a publication.
ClosedOutcome(outcome, released) ==
    IF outcome = "Cancelled" /\ ~released THEN "Failed" ELSE outcome

\* The executor closes its audio source and returns; the payload of a panic
\* may be opaque, and is then abandoned.
CloseExecution(released, opaque) ==
    /\ worker.at = "Closing"
    /\ audio.live \/ released
    /\ opaque => worker.outcome = "Panicked"
    /\ audio' = [live |-> FALSE, failed |-> audio.failed \/ ~released]
    /\ worker' = [worker EXCEPT !.at = "Reporting",
                                !.outcome = ClosedOutcome(worker.outcome, released)]
    /\ receiptFacts' = [receiptFacts EXCEPT !.abandoned = @ \/ opaque]
    /\ workerFailure' = (workerFailure \/ opaque)
    /\ UNCHANGED <<jobs, nextGeneration, dispatchEnabled, shutdown, clientVars, diskVars>>

\* Seeded fault: a panic after the commit is reported as if nothing was published.
VerdictOfPanic(committing, outcome) ==
    CASE outcome = "Published" /\ committing      -> <<"Completed", "Published">>
      [] outcome = "DurabilityUnconfirmed"        -> <<"Failed", "DurabilityUnconfirmed">>
      [] outcome = "NamespaceIndeterminate"       -> <<"Failed", "OutcomeUnknown">>
      [] outcome = "Cancelled"                    -> <<"Cancelled", "NotPublished">>
      [] OTHER                                    -> <<"Failed", "NotPublished">>

\* publish_terminal: the status and publication an outcome leaves.
Verdict(committing, outcome) ==
    CASE outcome = "Published" /\ committing   -> <<"Completed", "Published">>
      [] outcome = "Published" /\ ~committing  -> <<"Failed", "Published">>
      [] outcome = "BeforeNamespace"           -> <<"Failed", "NotPublished">>
      [] outcome = "DurabilityUnconfirmed"     -> <<"Failed", "DurabilityUnconfirmed">>
      [] outcome = "NamespaceIndeterminate"    -> <<"Failed", "OutcomeUnknown">>
      [] outcome = "Cancelled" /\ ~committing  -> <<"Cancelled", "NotPublished">>
      [] outcome \in {"Failed", "Panicked"} /\ ~committing -> <<"Failed", "NotPublished">>
      [] OTHER                                 -> <<"Failed", "OutcomeUnknown">>

\* The attempt ends; what the worker then drops of it may itself panic.
PublishTerminal(unwinds) ==
    /\ worker.at = "Reporting"
    /\ LET verdict == Verdict(IsCommitting(Current), worker.outcome)
           ended == [Ended(Current, verdict[1], verdict[2]) EXCEPT
                        !.yielded = FALSE,
                        !.phase = IF verdict[1] = "Completed" THEN Publishing ELSE @]
       IN jobs' = IF IsActive(Current)
                  THEN TrimTerminalHistory([jobs EXCEPT ![worker.job] = ended])
                  ELSE jobs
    /\ worker' = [at |-> IF unwinds THEN "Leaving" ELSE "Taking", job |-> NoJob,
                  phase |-> Preparing, outcome |-> IF unwinds THEN "Panicked" ELSE None]
    /\ UNCHANGED <<nextGeneration, dispatchEnabled, shutdown, workerFailure,
                   receiptFacts, audio, clientVars, diskVars>>

\* Another program creates or removes a file.
Meddle(o) ==
    /\ vacant' \in {vacant \ {o}, vacant \union {o}} \ {vacant}
    /\ UNCHANGED <<queueVars, worker, clientVars, named, durable>>

-----------------------------------------------------------------------------

Init ==
    /\ jobs = [j \in Jobs |-> NoEntry]
    /\ nextGeneration = 1
    /\ dispatchEnabled = TRUE
    /\ shutdown = FALSE
    /\ audio = [live |-> FALSE, failed |-> FALSE]
    /\ worker \in [at : {"Spawned", "Missing"}, job : {NoJob}, phase : {Preparing},
                   outcome : {None}]
    /\ workerFailure = (worker.at = "Missing")
    /\ receiptFacts =
           [started |-> FALSE, startFailed |-> worker.at = "Missing", terminated |-> FALSE,
            panicked |-> FALSE, timedOut |-> FALSE, detached |-> FALSE,
            abandoned |-> worker.at = "Missing", completed |-> "No"]
    /\ owner = [at |-> "Serving", receipt |-> "Unasked"]
    /\ submission = [j \in Jobs |-> "Offered"]
    /\ accepted = {}
    /\ named = {}
    /\ durable = {}
    /\ vacant \in SUBSET Outputs
    /\ deadlinePassed = FALSE

SubmissionStep ==
    \E j \in Jobs : InspectRoute(j) \/ RejectUnlocked(j) \/ Admit(j) \/ RejectLocked(j)

ClientStep ==
    \/ SubmissionStep
    \/ \E j \in Jobs : CancelPending(j) \/ CancelRunning(j)
    \/ ClearTerminalHistory
    \/ \E enabled \in BOOLEAN : SetDispatchEnabled(enabled)
    \/ BeginShutdown
    \/ ShutdownUntil
    \/ JoinFinishedWorker
    \/ DetachWorker
    \/ RepeatShutdown
    \/ DropQueue
    \/ DeadlinePasses

WorkerLoopStep ==
    \/ WorkerStarts
    \/ \E j \in Jobs : TakeNextPendingJob(j)
    \/ SleepUntilWork
    \/ LeaveLoop
    \/ \E opaque \in BOOLEAN : StampCompletion(opaque)
    \/ ThreadFinishes
    \/ \E unwinds \in BOOLEAN : PublishTerminal(unwinds)

ExecutionStep ==
    \/ GateOpens
    \/ GateRefuses
    \/ GateParks
    \/ ReportProgress
    \/ OpenAudioSource
    \/ ReachNextPhase
    \/ ExecutionObservesCancellation
    \/ ExecutionFails
    \/ ExecutorPanics
    \/ PlaceOutput
    \/ PublicationStopsBeforeNamespace
    \/ ConfirmDurability
    \/ DurabilityUnconfirmed
    \/ NamespaceIndeterminate
    \/ \E released, opaque \in BOOLEAN : CloseExecution(released, opaque)

WorkerStep == WorkerLoopStep \/ ExecutionStep

Next == ClientStep \/ WorkerStep \/ \E o \in Outputs : Meddle(o)

Spec == Init /\ [][Next]_vars

=============================================================================
