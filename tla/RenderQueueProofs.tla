--------------------------- MODULE RenderQueueProofs ---------------------------
(***************************************************************************)
(* Proofs about the export queue, for every set of submissions and routes. *)
(***************************************************************************)
EXTENDS RenderQueueProperties, TLAPS

USE QueueAssumption DEF queueVars, clientVars, diskVars

-----------------------------------------------------------------------------
\* What the operators on entries keep.

LEMMA NoEntryType == NoEntry \in Entry
BY DEF NoEntry, Entry, Statuses, Publications, Phases, Preparing, Publishing

\* Every change the queue makes to an entry yields an entry.
LEMMA EntryTypes ==
    ASSUME NEW e \in Entry
    PROVE  /\ CancelledPending(e) \in Entry
           /\ Resumed(e) \in Entry
           /\ Committing(e) \in Entry
           /\ [e EXCEPT !.canceled = TRUE] \in Entry
           /\ [e EXCEPT !.status = "Cancelling", !.canceled = TRUE] \in Entry
           /\ [e EXCEPT !.status = "Running", !.phase = Preparing] \in Entry
           /\ \A p \in Phases : [e EXCEPT !.status = "Running", !.phase = p] \in Entry
           /\ \A y \in BOOLEAN : [e EXCEPT !.yielded = y] \in Entry
<1>1. "Cancelled" \in Statuses /\ "Running" \in Statuses /\ "Cancelling" \in Statuses
  BY DEF Statuses
<1>2. "NotPublished" \in Publications /\ "Committing" \in Publications
  BY DEF Publications
<1>3. Preparing \in Phases /\ Publishing \in Phases
  BY DEF Phases, Preparing, Publishing
<1> USE <1>1, <1>2, <1>3 DEF Entry
<1>4. CancelledPending(e) \in Entry
  BY DEF CancelledPending, Ended
<1>5. Resumed(e) \in Entry
  BY DEF Resumed
<1>6. Committing(e) \in Entry
  BY DEF Committing
<1>7. [e EXCEPT !.canceled = TRUE] \in Entry
  OBVIOUS
<1>8. [e EXCEPT !.status = "Cancelling", !.canceled = TRUE] \in Entry
  OBVIOUS
<1>9. \A p \in Phases : [e EXCEPT !.status = "Running", !.phase = p] \in Entry
  OBVIOUS
<1>10. \A y \in BOOLEAN : [e EXCEPT !.yielded = y] \in Entry
  OBVIOUS
<1> QED
  BY <1>4, <1>5, <1>6, <1>7, <1>8, <1>9, <1>10

\* Changing one entry.
LEMMA UpdateType ==
    ASSUME NEW js \in [Jobs -> Entry], NEW j, NEW e, j \in Jobs => e \in Entry
    PROVE  [js EXCEPT ![j] = e] \in [Jobs -> Entry]
OBVIOUS

\* The bounded history only ever takes entries of ended attempts.
LEMMA TrimTakesEndedOnly ==
    ASSUME NEW js \in [Jobs -> Entry]
    PROVE  /\ TrimTerminalHistory(js) \in [Jobs -> Entry]
           /\ \A j \in Jobs :
                  \/ TrimTerminalHistory(js)[j] = js[j]
                  \/ /\ IsTerminal(js[j])
                     /\ TrimTerminalHistory(js)[j] = NoEntry
BY NoEntryType DEF TrimTerminalHistory

LEMMA NotifiedType ==
    ASSUME NEW w \in Worker
    PROVE  Notified(w) \in Worker
BY DEF Notified, Worker, WorkerPlaces

\* A notification moves a waiting worker to where it looks again.
LEMMA NotifiedFacts ==
    ASSUME NEW w \in Worker
    PROVE  /\ Notified(w).job = w.job
           /\ Notified(w).phase = w.phase
           /\ Notified(w).outcome = w.outcome
           /\ Notified(w).at \notin {"Sleeping", "Parked"}
           /\ \/ Notified(w).at = w.at
              \/ w.at = "Sleeping" /\ Notified(w).at = "Taking"
              \/ w.at = "Parked" /\ Notified(w).at = "AtGate"
BY DEF Notified, Worker, WorkerPlaces

LEMMA ShutDownJobsFacts ==
    ASSUME jobs \in [Jobs -> Entry]
    PROVE  /\ ShutDownJobs \in [Jobs -> Entry]
           /\ \A j \in Jobs :
                  \/ /\ jobs[j].status = "Pending"
                     /\ ShutDownJobs[j] \in {CancelledPending(jobs[j]), NoEntry}
                  \/ /\ jobs[j].status \in {"Running", "Cancelling"}
                     /\ ~IsCommitting(jobs[j])
                     /\ ShutDownJobs[j] = [jobs[j] EXCEPT !.canceled = TRUE]
                  \/ /\ jobs[j].status \in {"Running", "Cancelling"}
                     /\ IsCommitting(jobs[j])
                     /\ ShutDownJobs[j] = jobs[j]
                  \/ /\ jobs[j].status = "Absent"
                     /\ ShutDownJobs[j] = jobs[j]
                  \/ /\ IsTerminal(jobs[j])
                     /\ ShutDownJobs[j] \in {jobs[j], NoEntry}
<1> DEFINE js == [j \in Jobs |->
        CASE jobs[j].status = "Pending" -> CancelledPending(jobs[j])
          [] jobs[j].status \in {"Running", "Cancelling"} /\ ~IsCommitting(jobs[j]) ->
                 [jobs[j] EXCEPT !.canceled = TRUE]
          [] OTHER -> jobs[j]]
<1>1. ShutDownJobs = TrimTerminalHistory(js)
  BY DEF ShutDownJobs
<1>2. js \in [Jobs -> Entry]
  BY EntryTypes
<1>3. \A j \in Jobs :
        /\ jobs[j].status = "Pending" => js[j] = CancelledPending(jobs[j])
        /\ jobs[j].status \in {"Running", "Cancelling"} /\ ~IsCommitting(jobs[j]) =>
               js[j] = [jobs[j] EXCEPT !.canceled = TRUE]
        /\ jobs[j].status \in {"Running", "Cancelling"} /\ IsCommitting(jobs[j]) =>
               js[j] = jobs[j]
        /\ jobs[j].status \notin {"Pending", "Running", "Cancelling"} => js[j] = jobs[j]
  OBVIOUS
<1>4. \A j \in Jobs : jobs[j].status \in Statuses
  BY DEF Entry
<1>5. \A j \in Jobs :
        [jobs[j] EXCEPT !.canceled = TRUE].status = jobs[j].status
  BY DEF Entry
<1> HIDE DEF js
<1> QED
  BY <1>1, <1>2, <1>3, <1>4, <1>5, TrimTakesEndedOnly DEF Statuses, IsTerminal

-----------------------------------------------------------------------------
\* Types.

Typed ==
    /\ QueueTypeOK
    /\ worker.at \in ExecutionPlaces <=> worker.job \in Jobs

LEMMA BeginShutdownType ==
    ASSUME QueueTypeOK, BeginShutdownLocked
    PROVE  /\ jobs' \in [Jobs -> Entry]
           /\ shutdown' \in BOOLEAN
           /\ worker' \in Worker
           /\ worker'.at \in ExecutionPlaces <=> worker.at \in ExecutionPlaces
           /\ worker'.job = worker.job
BY ShutDownJobsFacts, NotifiedType, NotifiedFacts
DEF QueueTypeOK, BeginShutdownLocked, ExecutionPlaces

\* Every step of the queue keeps every variable within its type.
LEMMA TypeStep == Typed /\ [Next]_vars => Typed'
<1> SUFFICES ASSUME Typed, [Next]_vars PROVE Typed'
  OBVIOUS
<1> USE DEF Typed, QueueTypeOK, ExecutionPlaces
<1>1. ASSUME NEW j \in Jobs, InspectRoute(j) PROVE Typed'
  BY <1>1 DEF InspectRoute
<1>2. ASSUME NEW j \in Jobs, RejectUnlocked(j) PROVE Typed'
  BY <1>2 DEF RejectUnlocked
<1>3. ASSUME NEW j \in Jobs, Admit(j) PROVE Typed'
  <2>1. [NoEntry EXCEPT !.status = "Pending", !.generation = nextGeneration] \in Entry
    BY NoEntryType DEF Entry, Statuses
  <2> QED
    BY <1>3, <2>1, NotifiedType, NotifiedFacts DEF Admit
<1>4. ASSUME NEW j \in Jobs, RejectLocked(j) PROVE Typed'
  BY <1>4 DEF RejectLocked
<1>5. ASSUME NEW j \in Jobs, CancelPending(j) PROVE Typed'
  <2>1. [jobs EXCEPT ![j] = CancelledPending(@)] \in [Jobs -> Entry]
    BY EntryTypes
  <2> QED
    BY <1>5, <2>1, TrimTakesEndedOnly, NotifiedType, NotifiedFacts DEF CancelPending
<1>6. ASSUME NEW j \in Jobs, CancelRunning(j) PROVE Typed'
  <2>1. [jobs[j] EXCEPT !.status = "Cancelling", !.canceled = TRUE] \in Entry
    BY EntryTypes
  <2>2. jobs' \in [Jobs -> Entry]
    BY <1>6, <2>1, UpdateType DEF CancelRunning
  <2> QED
    BY <1>6, <2>2, NotifiedType, NotifiedFacts DEF CancelRunning
<1>7. CASE ClearTerminalHistory
  BY <1>7, NoEntryType DEF ClearTerminalHistory
<1>8. ASSUME NEW enabled \in BOOLEAN, SetDispatchEnabled(enabled) PROVE Typed'
  BY <1>8, NotifiedType, NotifiedFacts DEF SetDispatchEnabled
<1>9. CASE BeginShutdown
  BY <1>9, BeginShutdownType DEF BeginShutdown
<1>10. CASE ShutdownUntil
  BY <1>10, BeginShutdownType DEF ShutdownUntil, Owner, Receipt
<1>11. CASE JoinFinishedWorker
  <2>1. receiptFacts' \in Facts
    BY <1>11 DEF JoinFinishedWorker, Joined, Facts
  <2>2. owner' \in Owner
    BY <1>11 DEF JoinFinishedWorker, Owner, Receipt
  <2> QED
    BY <1>11, <2>1, <2>2 DEF JoinFinishedWorker
<1>12. CASE DetachWorker
  BY <1>12 DEF DetachWorker, Facts, Owner, Receipt
<1>13. CASE RepeatShutdown
  BY <1>13 DEF RepeatShutdown, Owner, Receipt
<1>14. CASE DropQueue
  <2>1. receiptFacts' \in Facts
    BY <1>14 DEF DropQueue, Joined, Facts
  <2>2. owner' \in Owner /\ workerFailure' \in BOOLEAN
    BY <1>14 DEF DropQueue, Owner
  <2> QED
    BY <1>14, <2>1, <2>2, BeginShutdownType DEF DropQueue
<1>15. CASE DeadlinePasses
  BY <1>15 DEF DeadlinePasses
<1>16. CASE WorkerStarts
  BY <1>16 DEF WorkerStarts, Worker, WorkerPlaces, Facts
<1>17. ASSUME NEW j \in Jobs, TakeNextPendingJob(j) PROVE Typed'
  <2>1. [jobs[j] EXCEPT !.status = "Running", !.phase = Preparing] \in Entry
    BY EntryTypes
  <2>2. jobs' \in [Jobs -> Entry]
    BY <1>17, <2>1, UpdateType DEF TakeNextPendingJob
  <2> QED
    BY <1>17, <2>2
    DEF TakeNextPendingJob, Worker, WorkerPlaces, Phases, Preparing, Publishing
<1>18. CASE SleepUntilWork
  BY <1>18 DEF SleepUntilWork, Worker, WorkerPlaces
<1>19. CASE LeaveLoop
  BY <1>19 DEF LeaveLoop, Worker, WorkerPlaces
<1>20. ASSUME NEW opaque \in BOOLEAN, StampCompletion(opaque) PROVE Typed'
  <2> DEFINE completed == IF deadlinePassed THEN "Late" ELSE "InTime"
             panicked == receiptFacts.panicked \/ worker.outcome = "Panicked"
             abandoned == receiptFacts.abandoned \/ opaque
  <2>1. /\ receiptFacts' = [receiptFacts EXCEPT !.completed = completed,
                                               !.panicked = panicked, !.abandoned = abandoned]
        /\ workerFailure' = (workerFailure \/ worker.outcome = "Panicked")
    BY <1>20 DEF StampCompletion
  <2>2. completed \in {"InTime", "Late"} /\ panicked \in BOOLEAN /\ abandoned \in BOOLEAN
    OBVIOUS
  <2> HIDE DEF completed, panicked, abandoned
  <2>3. receiptFacts' \in Facts /\ workerFailure' \in BOOLEAN
    BY <2>1, <2>2 DEF Facts
  <2>4. worker' \in Worker /\ worker'.at \notin ExecutionPlaces /\ worker'.job = worker.job
    BY <1>20 DEF StampCompletion, Worker, WorkerPlaces
  <2> QED
    BY <1>20, <2>3, <2>4 DEF StampCompletion
<1>21. CASE ThreadFinishes
  BY <1>21 DEF ThreadFinishes, Worker, WorkerPlaces
<1>22. ASSUME NEW unwinds \in BOOLEAN, PublishTerminal(unwinds) PROVE Typed'
  <2> DEFINE verdict == Verdict(IsCommitting(Current), worker.outcome)
             ended == [Ended(Current, verdict[1], verdict[2]) EXCEPT
                          !.yielded = FALSE,
                          !.phase = IF verdict[1] = "Completed" THEN Publishing ELSE @]
  <2>1. worker' \in Worker
    BY <1>22 DEF PublishTerminal, Worker, WorkerPlaces, Phases, Preparing, Publishing, Outcomes
  <2>2. verdict[1] \in Statuses /\ verdict[2] \in Publications
    BY DEF Verdict, Statuses, Publications
  <2>3. ASSUME worker.job \in Jobs PROVE ended \in Entry
    <3>1. jobs[worker.job] \in Entry
      BY <2>3
    <3>2. [jobs[worker.job] EXCEPT !.status = verdict[1], !.publication = verdict[2]] \in Entry
      BY <2>2, <3>1 DEF Entry
    <3>3. Publishing \in Phases
      BY DEF Phases, Preparing, Publishing
    <3> QED
      BY <3>2, <3>3 DEF Ended, Current, Entry
  <2>4. [jobs EXCEPT ![worker.job] = ended] \in [Jobs -> Entry]
    BY <2>3
  <2>5. jobs' \in [Jobs -> Entry]
    BY <1>22, <2>4, TrimTakesEndedOnly DEF PublishTerminal
  <2> QED
    BY <1>22, <2>1, <2>5 DEF PublishTerminal
<1>23. CASE GateOpens
  <2>1. jobs' \in [Jobs -> Entry]
    BY <1>23, EntryTypes DEF GateOpens
  <2> QED
    BY <1>23, <2>1 DEF GateOpens, Worker, WorkerPlaces
<1>24. CASE GateRefuses
  <2>1. worker.job \in Jobs => [jobs[worker.job] EXCEPT !.yielded = FALSE] \in Entry
    BY EntryTypes
  <2>2. jobs' \in [Jobs -> Entry]
    BY <1>24, <2>1, UpdateType DEF GateRefuses
  <2> QED
    BY <1>24, <2>2 DEF GateRefuses, Worker, WorkerPlaces, Outcomes
<1>25. CASE GateParks
  <2>1. worker.job \in Jobs => [jobs[worker.job] EXCEPT !.yielded = TRUE] \in Entry
    BY EntryTypes
  <2>2. jobs' \in [Jobs -> Entry]
    BY <1>25, <2>1, UpdateType DEF GateParks
  <2> QED
    BY <1>25, <2>2 DEF GateParks, Worker, WorkerPlaces
<1>26. CASE ReportProgress
  <2>1. worker.job \in Jobs =>
          [jobs[worker.job] EXCEPT !.status = "Running", !.phase = worker.phase] \in Entry
    BY EntryTypes DEF Worker
  <2>2. jobs' \in [Jobs -> Entry]
    BY <1>26, <2>1, UpdateType DEF ReportProgress
  <2> QED
    BY <1>26, <2>2 DEF ReportProgress
<1>27. CASE OpenAudioSource
  BY <1>27 DEF OpenAudioSource
<1>28. CASE ReachNextPhase
  <2>1. worker.phase + 1 \in Phases
    BY <1>28 DEF ReachNextPhase, Worker, Phases, Preparing, Publishing
  <2> QED
    BY <1>28, <2>1 DEF ReachNextPhase, Worker, WorkerPlaces
<1>29. CASE ExecutionObservesCancellation
  BY <1>29 DEF ExecutionObservesCancellation, Ends, Worker, WorkerPlaces, Outcomes
<1>30. CASE ExecutionFails
  BY <1>30 DEF ExecutionFails, Ends, Worker, WorkerPlaces, Outcomes
<1>31. CASE ExecutorPanics
  BY <1>31 DEF ExecutorPanics, Ends, Worker, WorkerPlaces, Outcomes
<1>32. CASE PlaceOutput
  BY <1>32 DEF PlaceOutput, Worker, WorkerPlaces
<1>33. CASE PublicationStopsBeforeNamespace
  BY <1>33 DEF PublicationStopsBeforeNamespace, Ends, Worker, WorkerPlaces, Outcomes,
     PublicationFailures
<1>34. CASE ConfirmDurability
  BY <1>34 DEF ConfirmDurability, Ends, Worker, WorkerPlaces, Outcomes
<1>35. CASE DurabilityUnconfirmed
  BY <1>35 DEF DurabilityUnconfirmed, Ends, Worker, WorkerPlaces, Outcomes,
     PublicationFailures
<1>36. CASE NamespaceIndeterminate
  BY <1>36 DEF NamespaceIndeterminate, Ends, Worker, WorkerPlaces, Outcomes,
     PublicationFailures
<1>37. ASSUME NEW released \in BOOLEAN, NEW opaque \in BOOLEAN,
              CloseExecution(released, opaque)
       PROVE  Typed'
  BY <1>37 DEF CloseExecution, ClosedOutcome, Worker, WorkerPlaces, Outcomes, Facts
<1>38. ASSUME NEW o \in Outputs, Meddle(o) PROVE Typed'
  BY <1>38 DEF Meddle
<1>39. CASE UNCHANGED vars
  BY <1>39 DEF vars
<1> QED
  BY <1>1, <1>2, <1>3, <1>4, <1>5, <1>6, <1>7, <1>8, <1>9, <1>10, <1>11, <1>12, <1>13,
     <1>14, <1>15, <1>16, <1>17, <1>18, <1>19, <1>20, <1>21, <1>22, <1>23, <1>24, <1>25,
     <1>26, <1>27, <1>28, <1>29, <1>30, <1>31, <1>32, <1>33, <1>34, <1>35, <1>36, <1>37,
     <1>38, <1>39
  DEF Next, ClientStep, SubmissionStep, WorkerStep, WorkerLoopStep, ExecutionStep
-----------------------------------------------------------------------------
\* The inductive invariant.

\* What the status of an entry says of its publication.
Shape(e) ==
    /\ e.status = "Pending" => e.publication = "Reversible"
    /\ e.status = "Running" => e.publication \in {"Reversible", "Committing"}
    /\ e.status = "Cancelling" => e.publication = "Reversible" /\ e.canceled
    /\ e.status = "Completed" => e.publication = "Published"
    /\ e.status = "Cancelled" => e.publication = "NotPublished"
    /\ e.status = "Failed" =>
           e.publication \in {"NotPublished", "DurabilityUnconfirmed", "OutcomeUnknown"}
    /\ IsCommitting(e) => e.status = "Running"

WellShaped == \A j \in Jobs : Shape(jobs[j])

\* Only what was admitted has an entry, a name or an accepted cancellation.
OnlyAdmitted ==
    \A j \in Jobs : submission[j] # "Admitted" =>
        /\ jobs[j].status = "Absent"
        /\ j \notin named
        /\ j \notin accepted

\* The worker and its entry agree on which side of the gate they are.
CommitAgrees ==
    /\ worker.at \in {"AtGate", "Parked", "Executing"} => ~IsCommitting(Current)
    /\ worker.at \in {"Committed", "Placed"} => IsCommitting(Current)

\* The worker knows whether the name of its attempt was given.
NamesAgree ==
    /\ worker.at = "Committed" => worker.job \notin named
    /\ worker.at = "Placed" => worker.job \in named
    /\ durable \subseteq named
    /\ \A j \in Jobs : IsActive(jobs[j]) /\ ~IsCommitting(jobs[j]) => j \notin named

\* What an execution returned is so.
OutcomesAreTrue ==
    worker.at \in {"Closing", "Reporting"} =>
        /\ worker.outcome \in Outcomes
        /\ worker.outcome = "Published" => worker.job \in durable
        /\ worker.outcome = "DurabilityUnconfirmed" => worker.job \in named
        /\ worker.outcome = "BeforeNamespace" => worker.job \notin named
        /\ worker.outcome \in {"Published"} \union PublicationFailures => IsCommitting(Current)
        /\ worker.outcome = "Cancelled" => ~IsCommitting(Current)

\* A cancelled attempt stays on the reversible side of the gate.
CancelledStay ==
    \A j \in accepted : j \notin named /\ (IsActive(jobs[j]) => jobs[j].status = "Cancelling")

QueueInv ==
    /\ Typed
    /\ WellShaped
    /\ OnlyAdmitted
    /\ WorkerHoldsItsAttempt
    /\ CommitAgrees
    /\ NamesAgree
    /\ OutcomesAreTrue
    /\ CancelledStay
    /\ VerdictsMatchDisk
    /\ OneWriterPerOutput
    /\ YieldedUsesNothing

LEMMA InitInv == Init => QueueInv
<1> SUFFICES ASSUME Init PROVE QueueInv
  OBVIOUS
<1> USE DEF Init
<1>1. QueueTypeOK
  <2>1. worker \in Worker
    BY DEF Worker, WorkerPlaces, Phases, Preparing, Publishing
  <2>2. receiptFacts \in Facts
    BY DEF Facts
  <2>3. owner \in Owner
    BY DEF Owner
  <2>4. jobs \in [Jobs -> Entry]
    BY NoEntryType
  <2>5. nextGeneration \in Nat \ {0} /\ vacant \subseteq Outputs
    OBVIOUS
  <2> QED
    BY <2>1, <2>2, <2>3, <2>4, <2>5 DEF QueueTypeOK
<1>2. worker.at \notin ExecutionPlaces /\ worker.job = NoJob
  BY DEF ExecutionPlaces
<1>3. \A j \in Jobs : /\ jobs[j].status = "Absent"
                      /\ jobs[j].publication = "Reversible"
                      /\ ~jobs[j].yielded
  BY DEF NoEntry
<1>4. Typed
  BY <1>1, <1>2 DEF Typed
<1>5. WellShaped /\ OnlyAdmitted /\ WorkerHoldsItsAttempt
  BY <1>2, <1>3
  DEF WellShaped, Shape, IsCommitting, OnlyAdmitted, WorkerHoldsItsAttempt
<1>6. CommitAgrees /\ NamesAgree /\ OutcomesAreTrue /\ CancelledStay
  BY <1>2, <1>3
  DEF CommitAgrees, NamesAgree, OutcomesAreTrue, CancelledStay, ExecutionPlaces
<1>7. VerdictsMatchDisk /\ OneWriterPerOutput /\ YieldedUsesNothing
  BY <1>3 DEF VerdictsMatchDisk, OneWriterPerOutput, YieldedUsesNothing, IsActive
<1> QED
  BY <1>4, <1>5, <1>6, <1>7 DEF QueueInv

\* An entry that left, or never was there.
LEMMA NoEntryFacts ==
    /\ NoEntry.status = "Absent"
    /\ NoEntry.publication = "Reversible"
    /\ NoEntry.canceled = FALSE
    /\ NoEntry.yielded = FALSE
BY DEF NoEntry

-----------------------------------------------------------------------------
\* What a caller may make of an entry: nothing, drop an ended one, cancel a
\* pending one, set the token of a reversible one.
Withdrawn(e, f) ==
    \/ f = e
    \/ IsTerminal(e) /\ f = NoEntry
    \/ e.status = "Pending" /\ f = NoEntry
    \/ /\ e.status = "Pending"
       /\ f.status = "Cancelled"
       /\ f.publication = "NotPublished"
       /\ f.yielded = e.yielded
    \/ /\ e.status \in {"Running", "Cancelling"}
       /\ ~IsCommitting(e)
       /\ f.canceled
       /\ f.status \in {e.status, "Cancelling"}
       /\ f.publication = e.publication
       /\ f.yielded = e.yielded

\* What a caller may make of the worker: nothing, or wake it.
Roused ==
    /\ worker'.job = worker.job
    /\ worker'.outcome = worker.outcome
    /\ \/ worker'.at = worker.at
       \/ worker.at = "Sleeping" /\ worker'.at = "Taking"
       \/ worker.at = "Parked" /\ worker'.at = "AtGate"

LEMMA NotifiedRouses ==
    ASSUME worker \in Worker, worker' = worker \/ worker' = Notified(worker)
    PROVE  Roused
BY NotifiedFacts DEF Roused

\* A cancellation is accepted of an entry that can still end without a trace.
MayAccept(j) ==
    /\ jobs[j].status = "Pending" \/ Reversible(j)
    /\ jobs'[j].status \notin {"Pending", "Running"}

CallerStep ==
    /\ \A j \in Jobs : Withdrawn(jobs[j], jobs'[j])
    /\ Roused
    /\ \A j \in accepted' \ accepted : MayAccept(j)
    /\ UNCHANGED <<submission, named, durable, vacant>>

LEMMA CallerKeepsInv ==
    ASSUME QueueInv, Typed', CallerStep
    PROVE  QueueInv'
<1> USE DEF QueueInv, CallerStep, Shape, IsActive, IsCommitting, IsTerminal
<1>0. \A j \in Jobs : /\ jobs[j] \in Entry
                      /\ jobs'[j] \in Entry
  BY DEF Typed, QueueTypeOK
<1>1. WellShaped'
  BY NoEntryFacts DEF WellShaped, Withdrawn
<1>2. OnlyAdmitted'
  BY NoEntryFacts DEF OnlyAdmitted, Withdrawn, MayAccept, Reversible, Typed, QueueTypeOK
<1>3. \A j \in Jobs : jobs'[j].status \in {"Running", "Cancelling"} <=>
                          jobs[j].status \in {"Running", "Cancelling"}
  BY NoEntryFacts DEF Withdrawn
<1>4. WorkerHoldsItsAttempt'
  BY <1>3 DEF WorkerHoldsItsAttempt, Roused, ExecutionPlaces
<1>5. \A j \in Jobs : jobs'[j].status \in {"Running", "Cancelling"} =>
                          (IsCommitting(jobs'[j]) <=> IsCommitting(jobs[j]))
  BY NoEntryFacts DEF Withdrawn
<1>6. worker.at \in ExecutionPlaces =>
        /\ worker.job \in Jobs
        /\ IsCommitting(Current') <=> IsCommitting(Current)
  BY <1>3, <1>5 DEF WorkerHoldsItsAttempt, Typed, Current, Roused
<1>7. CommitAgrees'
  BY <1>6 DEF CommitAgrees, Roused, ExecutionPlaces
<1>8. \A j \in Jobs : IsActive(jobs'[j]) => IsActive(jobs[j])
  BY NoEntryFacts DEF Withdrawn
<1>9. \A j \in Jobs : IsActive(jobs'[j]) /\ ~IsCommitting(jobs'[j]) => ~IsCommitting(jobs[j])
  BY NoEntryFacts DEF Withdrawn
<1>10. NamesAgree'
  BY <1>8, <1>9 DEF NamesAgree, Roused
<1>11. OutcomesAreTrue'
  BY <1>6 DEF OutcomesAreTrue, Roused, ExecutionPlaces
<1>12. CancelledStay'
  BY <1>0, NoEntryFacts
  DEF CancelledStay, Withdrawn, MayAccept, Reversible, NamesAgree, WellShaped, Typed,
      QueueTypeOK, Entry, Statuses
<1>13. VerdictsMatchDisk'
  BY <1>8, <1>9, NoEntryFacts
  DEF VerdictsMatchDisk, Withdrawn, WellShaped, NamesAgree
<1>14. OneWriterPerOutput'
  BY <1>8 DEF OneWriterPerOutput
<1>15. YieldedUsesNothing'
  BY NoEntryFacts DEF YieldedUsesNothing, Withdrawn, Roused
<1> QED
  BY <1>1, <1>2, <1>4, <1>7, <1>10, <1>11, <1>12, <1>13, <1>14, <1>15

LEMMA WithdrawnFromQueue ==
    ASSUME jobs \in [Jobs -> Entry]
    PROVE  /\ \A j \in Jobs : Withdrawn(jobs[j], ShutDownJobs[j])
           /\ \A j \in Jobs :
                  jobs[j].status = "Pending" =>
                  \A k \in Jobs :
                      LET js == TrimTerminalHistory([jobs EXCEPT ![j] = CancelledPending(@)])
                      IN  /\ Withdrawn(jobs[k], js[k])
                          /\ k = j => js[k].status \notin {"Pending", "Running"}
<1>1. \A e \in Entry : /\ CancelledPending(e).status = "Cancelled"
                       /\ CancelledPending(e).publication = "NotPublished"
                       /\ CancelledPending(e).yielded = e.yielded
  BY DEF CancelledPending, Ended, Entry
<1>2. \A e \in Entry : LET f == [e EXCEPT !.canceled = TRUE] IN
          f.canceled /\ f.status = e.status /\ f.publication = e.publication
          /\ f.yielded = e.yielded
  BY DEF Entry
<1>3. ASSUME NEW j \in Jobs PROVE Withdrawn(jobs[j], ShutDownJobs[j])
  <2>1. jobs[j] \in Entry
    OBVIOUS
  <2>2. CASE jobs[j].status = "Pending" /\ ShutDownJobs[j] \in {CancelledPending(jobs[j]), NoEntry}
    BY <1>1, <2>1, <2>2 DEF Withdrawn
  <2>3. CASE /\ jobs[j].status \in {"Running", "Cancelling"}
             /\ ~IsCommitting(jobs[j])
             /\ ShutDownJobs[j] = [jobs[j] EXCEPT !.canceled = TRUE]
    BY <1>2, <2>1, <2>3 DEF Withdrawn
  <2>4. CASE ShutDownJobs[j] = jobs[j] \/ (IsTerminal(jobs[j]) /\ ShutDownJobs[j] = NoEntry)
    BY <2>4 DEF Withdrawn
  <2> QED
    BY <2>2, <2>3, <2>4, ShutDownJobsFacts
<1>4. ASSUME NEW j \in Jobs, jobs[j].status = "Pending", NEW k \in Jobs
      PROVE  LET js == TrimTerminalHistory([jobs EXCEPT ![j] = CancelledPending(@)])
             IN  /\ Withdrawn(jobs[k], js[k])
                 /\ k = j => js[k].status \notin {"Pending", "Running"}
  <2> DEFINE js == [jobs EXCEPT ![j] = CancelledPending(@)]
  <2>1. CancelledPending(jobs[j]) \in Entry
    BY EntryTypes
  <2>2. js \in [Jobs -> Entry]
    BY <2>1, UpdateType
  <2>3. js[j] = CancelledPending(jobs[j]) /\ (k # j => js[k] = jobs[k])
    OBVIOUS
  <2> HIDE DEF js
  <2>4. \/ TrimTerminalHistory(js)[k] = js[k]
        \/ IsTerminal(js[k]) /\ TrimTerminalHistory(js)[k] = NoEntry
    BY <2>2, TrimTakesEndedOnly
  <2>5. /\ Withdrawn(jobs[k], TrimTerminalHistory(js)[k])
        /\ k = j => TrimTerminalHistory(js)[k].status \notin {"Pending", "Running"}
    BY <1>1, <1>4, <2>3, <2>4, NoEntryFacts DEF Withdrawn, IsTerminal
  <2> QED
    BY <2>5 DEF js
<1> QED
  BY <1>3, <1>4

-----------------------------------------------------------------------------
\* The callers' actions are CallerSteps, but for the submission itself.

LEMMA CallersAreCallerSteps ==
    ASSUME QueueTypeOK, QueueTypeOK',
           \/ \E j \in Jobs : CancelPending(j) \/ CancelRunning(j)
           \/ ClearTerminalHistory
           \/ \E enabled \in BOOLEAN : SetDispatchEnabled(enabled)
           \/ BeginShutdown \/ ShutdownUntil \/ JoinFinishedWorker \/ DetachWorker
           \/ RepeatShutdown \/ DropQueue \/ DeadlinePasses
    PROVE  CallerStep
<1>0. jobs \in [Jobs -> Entry] /\ worker \in Worker
  BY DEF QueueTypeOK
<1> USE <1>0
<1>1. ASSUME NEW j \in Jobs, CancelPending(j) PROVE CallerStep
  <2>1. jobs[j].status = "Pending"
    BY <1>1 DEF CancelPending
  <2>2. jobs' = TrimTerminalHistory([jobs EXCEPT ![j] = CancelledPending(@)])
    BY <1>1 DEF CancelPending
  <2>3. /\ \A k \in Jobs : Withdrawn(jobs[k], jobs'[k])
        /\ jobs'[j].status \notin {"Pending", "Running"}
    BY <2>1, <2>2, WithdrawnFromQueue
  <2> QED
    BY <1>1, <2>1, <2>3, NotifiedRouses DEF CancelPending, CallerStep, MayAccept
<1>2. ASSUME NEW j \in Jobs, CancelRunning(j) PROVE CallerStep
  <2>1. /\ jobs'[j].status = "Cancelling"
        /\ jobs'[j].canceled
        /\ jobs'[j].publication = jobs[j].publication
        /\ jobs'[j].yielded = jobs[j].yielded
        /\ \A k \in Jobs \ {j} : jobs'[k] = jobs[k]
    BY <1>2 DEF CancelRunning, Entry
  <2>2. \A k \in Jobs : Withdrawn(jobs[k], jobs'[k])
    BY <1>2, <2>1 DEF CancelRunning, Reversible, Withdrawn
  <2> QED
    BY <1>2, <2>1, <2>2, NotifiedRouses DEF CancelRunning, CallerStep, MayAccept
<1>3. CASE ClearTerminalHistory
  <2>1. \A k \in Jobs : Withdrawn(jobs[k], jobs'[k])
    BY <1>3 DEF ClearTerminalHistory, Withdrawn
  <2> QED
    BY <1>3, <2>1, NotifiedRouses DEF ClearTerminalHistory, CallerStep
<1>4. ASSUME NEW enabled \in BOOLEAN, SetDispatchEnabled(enabled) PROVE CallerStep
  BY <1>4, NotifiedRouses DEF SetDispatchEnabled, CallerStep, Withdrawn
<1>5. ASSUME BeginShutdownLocked,
             UNCHANGED <<submission, accepted, named, durable, vacant>>
      PROVE  CallerStep
  <2>1. \A k \in Jobs : Withdrawn(jobs[k], jobs'[k])
    BY <1>5, WithdrawnFromQueue DEF BeginShutdownLocked, Withdrawn
  <2> QED
    BY <1>5, <2>1, NotifiedRouses DEF BeginShutdownLocked, CallerStep
<1>6. CASE BeginShutdown \/ ShutdownUntil \/ DropQueue
  BY <1>5, <1>6 DEF BeginShutdown, ShutdownUntil, DropQueue
<1>7. CASE JoinFinishedWorker \/ DetachWorker \/ RepeatShutdown \/ DeadlinePasses
  BY <1>7, NotifiedRouses
  DEF JoinFinishedWorker, DetachWorker, RepeatShutdown, DeadlinePasses, CallerStep, Withdrawn
<1> QED
  BY <1>1, <1>2, <1>3, <1>4, <1>6, <1>7

-----------------------------------------------------------------------------
\* Steps of the execution: they change only the entry the worker holds.

ExecutorStep ==
    /\ worker.at \in ExecutionPlaces /\ worker'.at \in ExecutionPlaces
    /\ worker'.job = worker.job
    /\ \A j \in Jobs \ {worker.job} : jobs'[j] = jobs[j]
    /\ jobs'[worker.job].status = Current.status
    /\ jobs'[worker.job].canceled = Current.canceled
    /\ jobs'[worker.job].publication \in {Current.publication, "Committing"}
    /\ Current.status = "Cancelling" => jobs'[worker.job].publication = Current.publication
    /\ jobs'[worker.job].yielded => worker'.at \in {"AtGate", "Parked"}
    /\ named' = named \/ (named' = named \union {worker.job} /\ IsCommitting(Current))
    /\ durable \subseteq durable' /\ durable' \subseteq named'
    /\ UNCHANGED <<submission, accepted>>
    /\ CommitAgrees' /\ OutcomesAreTrue'
    /\ worker'.at = "Committed" => worker.job \notin named'
    /\ worker'.at = "Placed" => worker.job \in named'

LEMMA ExecutorKeepsInv ==
    ASSUME QueueInv, Typed', ExecutorStep
    PROVE  QueueInv'
<1> DEFINE own == worker.job
<1> USE DEF QueueInv, ExecutorStep, Shape, IsActive, IsCommitting, IsTerminal, Current
<1>1. own \in Jobs /\ jobs[own].status \in {"Running", "Cancelling"}
  BY DEF Typed, WorkerHoldsItsAttempt
<1>2. WellShaped'
  BY <1>1 DEF WellShaped
<1>3. submission[own] = "Admitted"
  BY <1>1 DEF OnlyAdmitted
<1>4. OnlyAdmitted'
  BY <1>1, <1>3 DEF OnlyAdmitted
<1>5. WorkerHoldsItsAttempt'
  BY <1>1 DEF WorkerHoldsItsAttempt
<1>6. NamesAgree'
  <2>1. \A j \in Jobs : IsActive(jobs'[j]) /\ ~IsCommitting(jobs'[j]) => j \notin named'
    BY <1>1 DEF NamesAgree
  <2>2. /\ worker'.at = "Committed" => worker'.job \notin named'
        /\ worker'.at = "Placed" => worker'.job \in named'
        /\ durable' \subseteq named'
    OBVIOUS
  <2> QED
    BY <2>1, <2>2 DEF NamesAgree
<1>7. CancelledStay'
  BY <1>1 DEF CancelledStay, WellShaped, Typed, QueueTypeOK
<1>8. VerdictsMatchDisk'
  BY <1>1 DEF VerdictsMatchDisk, WellShaped
<1>9. OneWriterPerOutput'
  BY <1>1 DEF OneWriterPerOutput
<1>10. YieldedUsesNothing'
  BY <1>1 DEF YieldedUsesNothing
<1> QED
  BY <1>2, <1>4, <1>5, <1>6, <1>7, <1>8, <1>9, <1>10

LEMMA ExecutionsAreExecutorSteps ==
    ASSUME QueueInv, Typed', ExecutionStep
    PROVE  ExecutorStep
<1> DEFINE own == worker.job
<1> USE DEF QueueInv, IsCommitting, Current
<1>0. /\ worker \in Worker
      /\ jobs \in [Jobs -> Entry]
      /\ durable \subseteq named
  BY DEF Typed, QueueTypeOK, NamesAgree
<1>1. ASSUME worker.at \in ExecutionPlaces
      PROVE  /\ own \in Jobs
             /\ jobs[own] \in Entry
             /\ jobs[own].status \in {"Running", "Cancelling"}
             /\ jobs[own].yielded => worker.at \in {"AtGate", "Parked"}
  BY <1>0, <1>1 DEF Typed, WorkerHoldsItsAttempt, YieldedUsesNothing
<1>2. CASE GateOpens
  <2>1. worker.at = "AtGate" /\ ~IsCommitting(Current)
    BY <1>2 DEF GateOpens, CommitAgrees
  <2>2. /\ own \in Jobs /\ jobs[own] \in Entry
        /\ jobs[own].status = "Running"
        /\ own \notin named
    <3>1. own \in Jobs /\ jobs[own] \in Entry /\ jobs[own].status \in {"Running", "Cancelling"}
      BY <1>1, <2>1 DEF ExecutionPlaces
    <3>2. jobs[own].status # "Cancelling"
      BY <1>2, <2>1, <3>1
      DEF GateOpens, GateAdmits, GateRefused, RefusesExecution, WellShaped, Shape
    <3> QED
      BY <2>1, <3>1, <3>2 DEF NamesAgree, IsActive
  <2>3. /\ \A j \in Jobs \ {own} : jobs'[j] = jobs[j]
        /\ jobs'[own].status = "Running"
        /\ jobs'[own].canceled = jobs[own].canceled
        /\ ~jobs'[own].yielded
        /\ worker.phase = Publishing => jobs'[own].publication = "Committing"
        /\ worker.phase # Publishing => jobs'[own].publication = jobs[own].publication
    BY <1>0, <1>2, <2>2 DEF GateOpens, Resumed, Committing, Entry
  <2>4. /\ worker'.job = own
        /\ worker.phase = Publishing => worker'.at = "Committed"
        /\ worker.phase # Publishing => worker'.at = "Executing"
    BY <1>0, <1>2 DEF GateOpens, Worker
  <2>5. UNCHANGED <<named, durable, submission, accepted>>
    BY <1>2 DEF GateOpens
  <2>6. CommitAgrees' /\ OutcomesAreTrue'
    BY <2>1, <2>3, <2>4 DEF CommitAgrees, OutcomesAreTrue
  <2> QED
    BY <1>0, <2>1, <2>2, <2>3, <2>4, <2>5, <2>6 DEF ExecutorStep, ExecutionPlaces
<1>3. CASE GateRefuses \/ GateParks
  <2>1. worker.at = "AtGate" /\ ~IsCommitting(Current)
    BY <1>3 DEF GateRefuses, GateParks, CommitAgrees
  <2>2. own \in Jobs /\ jobs[own] \in Entry
    BY <1>1, <2>1 DEF ExecutionPlaces
  <2>3. /\ \A j \in Jobs \ {own} : jobs'[j] = jobs[j]
        /\ jobs'[own].status = jobs[own].status
        /\ jobs'[own].canceled = jobs[own].canceled
        /\ jobs'[own].publication = jobs[own].publication
        /\ jobs'[own].yielded => GateParks
    BY <1>0, <1>3, <2>2 DEF GateRefuses, GateParks, Entry
  <2>4. /\ worker'.job = own
        /\ GateParks => worker'.at = "Parked"
        /\ GateParks \/ (worker'.at = "Closing" /\ worker'.outcome = "Cancelled")
    BY <1>0, <1>3 DEF GateRefuses, GateParks, Worker
  <2>5. UNCHANGED <<named, durable, submission, accepted>>
    BY <1>3 DEF GateRefuses, GateParks
  <2>6. CommitAgrees' /\ OutcomesAreTrue'
    BY <2>1, <2>3, <2>4
    DEF CommitAgrees, OutcomesAreTrue, Outcomes, PublicationFailures
  <2> QED
    BY <1>0, <2>1, <2>3, <2>4, <2>5, <2>6 DEF ExecutorStep, ExecutionPlaces
<1>4. CASE ReportProgress
  <2>1. worker.at = "Executing" /\ ~IsCommitting(Current) /\ Current.status = "Running"
    BY <1>4 DEF ReportProgress
  <2>2. own \in Jobs /\ jobs[own] \in Entry /\ ~jobs[own].yielded
    BY <1>1, <2>1 DEF ExecutionPlaces
  <2>3. /\ \A j \in Jobs \ {own} : jobs'[j] = jobs[j]
        /\ jobs'[own].status = jobs[own].status
        /\ jobs'[own].canceled = jobs[own].canceled
        /\ jobs'[own].publication = jobs[own].publication
        /\ ~jobs'[own].yielded
    BY <1>0, <1>4, <2>1, <2>2 DEF ReportProgress, Entry
  <2>4. UNCHANGED <<worker, named, durable, submission, accepted>>
    BY <1>4 DEF ReportProgress
  <2>6. CommitAgrees' /\ OutcomesAreTrue'
    BY <2>1, <2>3, <2>4 DEF CommitAgrees, OutcomesAreTrue
  <2> QED
    BY <1>0, <2>1, <2>3, <2>4, <2>6 DEF ExecutorStep, ExecutionPlaces
<1>5. ASSUME UNCHANGED <<jobs, submission, accepted>>,
             worker.at \in {"Executing", "Committed", "Placed", "Closing"},
             worker'.at \in ExecutionPlaces \ {"Parked"},
             worker'.job = own,
             named' = named \/ (named' = named \union {own} /\ IsCommitting(Current)),
             durable \subseteq durable', durable' \subseteq named',
             CommitAgrees', OutcomesAreTrue',
             worker'.at = "Committed" => own \notin named',
             worker'.at = "Placed" => own \in named'
      PROVE  ExecutorStep
  BY <1>1, <1>5 DEF ExecutorStep, ExecutionPlaces
<1>6. CASE OpenAudioSource
  BY <1>0, <1>5, <1>6
  DEF OpenAudioSource, ExecutionPlaces, CommitAgrees, OutcomesAreTrue
<1>7. CASE ReachNextPhase
  <2>1. worker'.at = "AtGate" /\ worker'.job = own
    BY <1>0, <1>7 DEF ReachNextPhase, Worker
  <2> QED
    BY <1>0, <1>5, <1>7, <2>1
    DEF ReachNextPhase, ExecutionPlaces, CommitAgrees, OutcomesAreTrue
<1>8. ASSUME NEW outcome \in Outcomes, Ends(outcome),
             worker.at \in {"Executing", "Committed", "Placed"},
             named' = named,
             durable \subseteq durable', durable' \subseteq named,
             outcome = "Published" => own \in durable' /\ worker.at = "Placed",
             outcome = "DurabilityUnconfirmed" => worker.at = "Placed",
             outcome = "BeforeNamespace" => worker.at = "Committed",
             outcome = "NamespaceIndeterminate" => worker.at \in {"Committed", "Placed"},
             outcome = "Cancelled" => worker.at = "Executing"
      PROVE  ExecutorStep
  <2>1. worker'.at = "Closing" /\ worker'.job = own /\ worker'.outcome = outcome
    BY <1>0, <1>8 DEF Ends, Worker
  <2>2. UNCHANGED <<jobs, submission, accepted>>
    BY <1>8 DEF Ends
  <2>3. CommitAgrees'
    BY <2>1 DEF CommitAgrees
  <2>4. OutcomesAreTrue'
    BY <1>8, <2>1, <2>2
    DEF OutcomesAreTrue, Outcomes, PublicationFailures, NamesAgree, CommitAgrees
  <2> QED
    BY <1>5, <1>8, <2>1, <2>2, <2>3, <2>4 DEF ExecutionPlaces
<1>9. CASE \/ ExecutionObservesCancellation \/ ExecutionFails \/ ExecutorPanics
           \/ PublicationStopsBeforeNamespace \/ DurabilityUnconfirmed
           \/ NamespaceIndeterminate
  <2>1. UNCHANGED <<named, durable>>
    BY <1>9
    DEF ExecutionObservesCancellation, ExecutionFails, ExecutorPanics,
        PublicationStopsBeforeNamespace, DurabilityUnconfirmed, NamespaceIndeterminate
  <2> USE <1>0, <1>8, <2>1 DEF Outcomes, PublicationFailures
  <2>2. CASE ExecutionObservesCancellation
    BY <2>2 DEF ExecutionObservesCancellation
  <2>3. CASE ExecutionFails
    BY <2>3 DEF ExecutionFails
  <2>4. CASE ExecutorPanics
    BY <2>4 DEF ExecutorPanics
  <2>5. CASE PublicationStopsBeforeNamespace
    BY <2>5 DEF PublicationStopsBeforeNamespace
  <2>6. CASE DurabilityUnconfirmed
    BY <2>6 DEF DurabilityUnconfirmed
  <2>7. CASE NamespaceIndeterminate
    BY <2>7 DEF NamespaceIndeterminate
  <2> QED
    BY <1>9, <2>2, <2>3, <2>4, <2>5, <2>6, <2>7
<1>10. CASE ConfirmDurability
  BY <1>0, <1>8, <1>10
  DEF ConfirmDurability, Outcomes, PublicationFailures, NamesAgree
<1>11. CASE PlaceOutput
  <2>1. worker'.at = "Placed" /\ worker'.job = own
    BY <1>0, <1>11 DEF PlaceOutput, Worker
  <2>2. UNCHANGED <<jobs, submission, accepted, durable>> /\ named' = named \union {own}
    BY <1>11 DEF PlaceOutput
  <2>3. CommitAgrees' /\ OutcomesAreTrue' /\ IsCommitting(Current)
    BY <1>11, <2>1, <2>2 DEF PlaceOutput, CommitAgrees, OutcomesAreTrue
  <2> QED
    BY <1>0, <1>5, <1>11, <2>1, <2>2, <2>3 DEF PlaceOutput, ExecutionPlaces
<1>12. ASSUME NEW released \in BOOLEAN, NEW opaque \in BOOLEAN,
              CloseExecution(released, opaque)
       PROVE  ExecutorStep
  <2>1. /\ worker.at = "Closing"
        /\ worker'.at = "Reporting"
        /\ worker'.job = own
        /\ worker'.outcome = ClosedOutcome(worker.outcome, released)
    BY <1>0, <1>12 DEF CloseExecution, Worker
  <2>2. UNCHANGED <<jobs, submission, accepted, named, durable>>
    BY <1>12 DEF CloseExecution
  <2>3. CommitAgrees' /\ OutcomesAreTrue'
    BY <2>1, <2>2
    DEF CommitAgrees, OutcomesAreTrue, ClosedOutcome, Outcomes, PublicationFailures
  <2> QED
    BY <1>0, <1>5, <2>1, <2>2, <2>3 DEF ExecutionPlaces
<1> QED
  BY <1>2, <1>3, <1>4, <1>6, <1>7, <1>9, <1>10, <1>11, <1>12 DEF ExecutionStep

-----------------------------------------------------------------------------
\* The remaining steps, and the invariant.

LEMMA AdmitKeepsInv ==
    ASSUME QueueInv, Typed', NEW j \in Jobs, Admit(j)
    PROVE  QueueInv'
<1> USE DEF QueueInv, Shape, IsActive, IsCommitting, IsTerminal, Current
<1>0. jobs \in [Jobs -> Entry] /\ worker \in Worker
  BY DEF Typed, QueueTypeOK
<1>1. /\ jobs'[j].status = "Pending"
      /\ jobs'[j].publication = "Reversible"
      /\ ~jobs'[j].yielded
      /\ \A k \in Jobs \ {j} : jobs'[k] = jobs[k]
  BY <1>0 DEF Admit, NoEntry
<1>2. /\ submission'[j] = "Admitted"
      /\ \A k \in Jobs \ {j} : submission'[k] = submission[k]
      /\ submission[j] # "Admitted"
  BY DEF Admit, Typed, QueueTypeOK
<1>3. worker.job # j
  BY <1>2 DEF Typed, OnlyAdmitted, WorkerHoldsItsAttempt
<1>4. Roused
  BY <1>0, NotifiedRouses DEF Admit
<1>5. /\ UNCHANGED <<accepted, named, durable>>
      /\ \A k \in Jobs : IsActive(jobs[k]) => OutputOf[k] # OutputOf[j]
  BY DEF Admit, Admissible
<1>6. WellShaped' /\ OnlyAdmitted'
  BY <1>1, <1>2, <1>5 DEF WellShaped, OnlyAdmitted
<1>7. OneWriterPerOutput'
  BY <1>1, <1>5 DEF OneWriterPerOutput
<1>8. CancelledStay' /\ VerdictsMatchDisk'
  BY <1>1, <1>2, <1>5
  DEF CancelledStay, VerdictsMatchDisk, OnlyAdmitted, Typed, QueueTypeOK
<1>9. WorkerHoldsItsAttempt' /\ YieldedUsesNothing'
  BY <1>1, <1>2, <1>3, <1>4
  DEF WorkerHoldsItsAttempt, YieldedUsesNothing, OnlyAdmitted, Roused, ExecutionPlaces
<1>10. CommitAgrees' /\ OutcomesAreTrue'
  BY <1>1, <1>3, <1>4, <1>5
  DEF CommitAgrees, OutcomesAreTrue, Typed, Roused, ExecutionPlaces
<1>11. NamesAgree'
  BY <1>1, <1>2, <1>4, <1>5 DEF NamesAgree, OnlyAdmitted, Roused
<1> QED
  BY <1>6, <1>7, <1>8, <1>9, <1>10, <1>11

LEMMA TakeKeepsInv ==
    ASSUME QueueInv, Typed', NEW j \in Jobs, TakeNextPendingJob(j)
    PROVE  QueueInv'
<1> USE DEF QueueInv, Shape, IsActive, IsCommitting, IsTerminal, Current
<1>1. /\ jobs[j].status = "Pending"
      /\ worker.at = "Taking"
      /\ worker'.at = "AtGate" /\ worker'.job = j
  BY DEF TakeNextPendingJob, NextPending
<1>2. /\ jobs'[j].status = "Running"
      /\ jobs'[j].publication = jobs[j].publication
      /\ jobs'[j].yielded = jobs[j].yielded
      /\ \A k \in Jobs \ {j} : jobs'[k] = jobs[k]
  BY DEF TakeNextPendingJob, Typed, QueueTypeOK, Entry
<1>3. /\ UNCHANGED <<accepted, named, durable, submission>>
  BY DEF TakeNextPendingJob
<1>4. \A k \in Jobs : jobs[k].status \notin {"Running", "Cancelling"}
  BY <1>1 DEF WorkerHoldsItsAttempt, ExecutionPlaces
<1>5. WellShaped' /\ OnlyAdmitted' /\ OneWriterPerOutput'
  BY <1>1, <1>2, <1>3 DEF WellShaped, OnlyAdmitted, OneWriterPerOutput
<1>6. CancelledStay' /\ VerdictsMatchDisk'
  BY <1>1, <1>2, <1>3 DEF CancelledStay, VerdictsMatchDisk, WellShaped, Typed, QueueTypeOK
<1>7. WorkerHoldsItsAttempt'
  BY <1>1, <1>2, <1>4 DEF WorkerHoldsItsAttempt, ExecutionPlaces
<1>8. YieldedUsesNothing'
  BY <1>1, <1>2 DEF YieldedUsesNothing
<1>9. CommitAgrees' /\ OutcomesAreTrue'
  BY <1>1, <1>2 DEF CommitAgrees, OutcomesAreTrue, WellShaped
<1>10. NamesAgree'
  BY <1>1, <1>2, <1>3 DEF NamesAgree, WellShaped
<1> QED
  BY <1>5, <1>6, <1>7, <1>8, <1>9, <1>10

\* The verdict publish_terminal writes, and what the history keeps of it.
LEMMA PublishFacts ==
    ASSUME QueueInv, NEW unwinds \in BOOLEAN, PublishTerminal(unwinds)
    PROVE  LET own == worker.job IN
           /\ own \in Jobs
           /\ worker.at = "Reporting"
           /\ IsActive(jobs[own])
           /\ \A k \in Jobs \ {own} :
                  jobs'[k] = jobs[k] \/ (IsTerminal(jobs[k]) /\ jobs'[k] = NoEntry)
           /\ \/ jobs'[own] = NoEntry
              \/ /\ IsTerminal(jobs'[own])
                 /\ Shape(jobs'[own])
                 /\ ~jobs'[own].yielded
                 /\ jobs'[own].publication = "Published" =>
                        own \in durable /\ IsCommitting(Current)
                 /\ jobs'[own].publication = "DurabilityUnconfirmed" =>
                        own \in named /\ IsCommitting(Current)
                 /\ jobs'[own].publication = "NotPublished" => own \notin named
                 /\ jobs'[own].publication = "OutcomeUnknown" => IsCommitting(Current)
                 /\ jobs'[own].status = "Cancelled" => ~IsCommitting(Current)
<1> DEFINE own == worker.job
           verdict == Verdict(IsCommitting(Current), worker.outcome)
           ended == [Ended(Current, verdict[1], verdict[2]) EXCEPT
                        !.yielded = FALSE,
                        !.phase = IF verdict[1] = "Completed" THEN Publishing ELSE @]
           js == [jobs EXCEPT ![own] = ended]
<1>1. /\ jobs \in [Jobs -> Entry]
      /\ own \in Jobs
      /\ worker.at = "Reporting"
      /\ worker.outcome \in Outcomes
  BY DEF QueueInv, Typed, QueueTypeOK, PublishTerminal, ExecutionPlaces, OutcomesAreTrue
<1>2. jobs[own].status \in {"Running", "Cancelling"}
  BY <1>1 DEF QueueInv, WorkerHoldsItsAttempt, ExecutionPlaces
<1>3. verdict \in {<<"Completed", "Published">>, <<"Failed", "NotPublished">>,
                   <<"Failed", "DurabilityUnconfirmed">>, <<"Failed", "OutcomeUnknown">>,
                   <<"Cancelled", "NotPublished">>}
  BY <1>1 DEF Verdict, QueueInv, OutcomesAreTrue, Outcomes
<1>4. /\ verdict = <<"Completed", "Published">> =>
             worker.outcome = "Published" /\ IsCommitting(Current)
      /\ verdict = <<"Failed", "DurabilityUnconfirmed">> =>
             worker.outcome = "DurabilityUnconfirmed"
      /\ verdict = <<"Failed", "OutcomeUnknown">> =>
             worker.outcome = "NamespaceIndeterminate" \/ IsCommitting(Current)
      /\ verdict \in {<<"Failed", "NotPublished">>, <<"Cancelled", "NotPublished">>} =>
             worker.outcome = "BeforeNamespace" \/ ~IsCommitting(Current)
      /\ verdict = <<"Cancelled", "NotPublished">> => ~IsCommitting(Current)
  BY <1>1 DEF Verdict, Outcomes, PublicationFailures
<1>5. verdict[1] \in Statuses /\ verdict[2] \in Publications
  BY <1>3 DEF Statuses, Publications
<1>6. /\ ended \in Entry
      /\ ended.status = verdict[1]
      /\ ended.publication = verdict[2]
      /\ ~ended.yielded
  <2>1. jobs[own] \in Entry
    BY <1>1
  <2>2. [jobs[own] EXCEPT !.status = verdict[1], !.publication = verdict[2]] \in Entry
    BY <1>5, <2>1 DEF Entry
  <2>3. Publishing \in Phases
    BY DEF Phases, Preparing, Publishing
  <2> HIDE DEF verdict
  <2> QED
    BY <2>1, <2>2, <2>3 DEF Ended, Current, Entry
<1>7. jobs' = TrimTerminalHistory(js)
  BY <1>2 DEF PublishTerminal, IsActive, Current
<1>8. js \in [Jobs -> Entry] /\ js[own] = ended /\ \A k \in Jobs \ {own} : js[k] = jobs[k]
  BY <1>1, <1>6, UpdateType
<1> HIDE DEF js, ended, verdict
<1>9. /\ jobs'[own] = ended \/ jobs'[own] = NoEntry
      /\ \A k \in Jobs \ {own} :
             jobs'[k] = jobs[k] \/ (IsTerminal(jobs[k]) /\ jobs'[k] = NoEntry)
  BY <1>1, <1>7, <1>8, TrimTakesEndedOnly
<1>10. /\ IsTerminal(ended) /\ Shape(ended)
       /\ ended.publication = "Published" => own \in durable /\ IsCommitting(Current)
       /\ ended.publication = "DurabilityUnconfirmed" => own \in named /\ IsCommitting(Current)
       /\ ended.publication = "NotPublished" => own \notin named
       /\ ended.publication = "OutcomeUnknown" => IsCommitting(Current)
       /\ ended.status = "Cancelled" => ~IsCommitting(Current)
  <2>1. ~IsCommitting(Current) => own \notin named
    BY <1>1, <1>2 DEF QueueInv, NamesAgree, IsActive, Current
  <2>2. /\ worker.outcome = "Published" => own \in durable
        /\ worker.outcome = "DurabilityUnconfirmed" => own \in named /\ IsCommitting(Current)
        /\ worker.outcome = "BeforeNamespace" => own \notin named
        /\ worker.outcome = "NamespaceIndeterminate" => IsCommitting(Current)
    BY <1>1 DEF QueueInv, OutcomesAreTrue, PublicationFailures
  <2> QED
    BY <1>3, <1>4, <1>6, <2>1, <2>2 DEF IsTerminal, Shape, IsCommitting
<1> QED
  BY <1>1, <1>2, <1>6, <1>9, <1>10 DEF IsActive

LEMMA PublishKeepsInv ==
    ASSUME QueueInv, Typed', NEW unwinds \in BOOLEAN, PublishTerminal(unwinds)
    PROVE  QueueInv'
<1> DEFINE own == worker.job
<1> USE DEF QueueInv, IsActive, IsTerminal, IsCommitting
<1>1. /\ own \in Jobs
      /\ worker.at = "Reporting"
      /\ \A k \in Jobs \ {own} :
             jobs'[k] = jobs[k] \/ (IsTerminal(jobs[k]) /\ jobs'[k] = NoEntry)
      /\ \/ jobs'[own] = NoEntry
         \/ /\ IsTerminal(jobs'[own])
            /\ Shape(jobs'[own])
            /\ ~jobs'[own].yielded
            /\ jobs'[own].publication = "Published" => own \in durable
            /\ jobs'[own].publication = "DurabilityUnconfirmed" => own \in named
            /\ jobs'[own].publication = "NotPublished" => own \notin named
  BY PublishFacts
<1>2. UNCHANGED <<accepted, named, durable, submission>>
  BY DEF PublishTerminal
<1>3. worker'.at \in {"Taking", "Leaving"} /\ worker'.job = NoJob
  BY DEF PublishTerminal
<1>4. WellShaped'
  BY <1>1, NoEntryFacts DEF WellShaped, Shape
<1>5. submission[own] = "Admitted"
  BY <1>1 DEF OnlyAdmitted, WorkerHoldsItsAttempt, ExecutionPlaces
<1>6. OnlyAdmitted'
  BY <1>1, <1>2, <1>5, NoEntryFacts DEF OnlyAdmitted
<1>7. WorkerHoldsItsAttempt'
  BY <1>1, <1>3, NoEntryFacts DEF WorkerHoldsItsAttempt, ExecutionPlaces
<1>8. CommitAgrees' /\ OutcomesAreTrue'
  BY <1>3 DEF CommitAgrees, OutcomesAreTrue
<1>9. NamesAgree'
  BY <1>1, <1>2, <1>3, NoEntryFacts DEF NamesAgree
<1>10. CancelledStay'
  BY <1>1, <1>2, NoEntryFacts DEF CancelledStay, Typed, QueueTypeOK
<1>11. VerdictsMatchDisk'
  BY <1>1, <1>2, NoEntryFacts DEF VerdictsMatchDisk
<1>12. OneWriterPerOutput'
  BY <1>1, NoEntryFacts DEF OneWriterPerOutput
<1>13. YieldedUsesNothing'
  BY <1>1, <1>3, NoEntryFacts DEF YieldedUsesNothing
<1> QED
  BY <1>4, <1>6, <1>7, <1>8, <1>9, <1>10, <1>11, <1>12, <1>13

\* Steps that leave entries, answers and disk alone and move an idle worker.
LEMMA IdleKeepsInv ==
    ASSUME QueueInv, Typed',
           UNCHANGED <<jobs, accepted, named, durable>>,
           \A j \in Jobs : submission[j] = "Admitted" => submission'[j] = "Admitted",
           \/ UNCHANGED worker
           \/ /\ worker.at \notin ExecutionPlaces
              /\ worker'.at \notin ExecutionPlaces
              /\ worker'.job = worker.job
    PROVE  QueueInv'
<1> USE DEF QueueInv
<1>1. WellShaped' /\ OnlyAdmitted' /\ CancelledStay' /\ VerdictsMatchDisk' /\ OneWriterPerOutput'
  BY DEF WellShaped, OnlyAdmitted, CancelledStay, VerdictsMatchDisk, OneWriterPerOutput
<1>2. WorkerHoldsItsAttempt' /\ YieldedUsesNothing'
  BY DEF WorkerHoldsItsAttempt, YieldedUsesNothing, ExecutionPlaces
<1>3. CommitAgrees' /\ NamesAgree' /\ OutcomesAreTrue'
  BY DEF CommitAgrees, NamesAgree, OutcomesAreTrue, ExecutionPlaces, Current
<1> QED
  BY <1>1, <1>2, <1>3

LEMMA InvStep == QueueInv /\ [Next]_vars => QueueInv'
<1> SUFFICES ASSUME QueueInv, [Next]_vars PROVE QueueInv'
  OBVIOUS
<1>0. /\ Typed /\ Typed' /\ QueueTypeOK /\ QueueTypeOK'
      /\ worker \in Worker
  BY TypeStep DEF QueueInv, Typed, QueueTypeOK
<1>1. ASSUME NEW j \in Jobs, InspectRoute(j) \/ RejectUnlocked(j) \/ RejectLocked(j)
      PROVE  QueueInv'
  <2>1. \A k \in Jobs : submission[k] = "Admitted" => submission'[k] = "Admitted"
    BY <1>0, <1>1 DEF InspectRoute, RejectUnlocked, RejectLocked, QueueTypeOK
  <2> QED
    BY <1>0, <1>1, <2>1, IdleKeepsInv DEF InspectRoute, RejectUnlocked, RejectLocked
<1>2. ASSUME NEW j \in Jobs, Admit(j) PROVE QueueInv'
  BY <1>0, <1>2, AdmitKeepsInv
<1>3. CASE \/ \E j \in Jobs : CancelPending(j) \/ CancelRunning(j)
           \/ ClearTerminalHistory
           \/ \E enabled \in BOOLEAN : SetDispatchEnabled(enabled)
           \/ BeginShutdown \/ ShutdownUntil \/ JoinFinishedWorker \/ DetachWorker
           \/ RepeatShutdown \/ DropQueue \/ DeadlinePasses
  <2>1. CallerStep
    BY <1>0, <1>3, CallersAreCallerSteps
  <2> QED
    BY <1>0, <2>1, CallerKeepsInv
<1>4. CASE WorkerStarts \/ SleepUntilWork \/ LeaveLoop \/ ThreadFinishes
  BY <1>0, <1>4, IdleKeepsInv
  DEF WorkerStarts, SleepUntilWork, LeaveLoop, ThreadFinishes, ExecutionPlaces, Worker
<1>5. ASSUME NEW opaque \in BOOLEAN, StampCompletion(opaque) PROVE QueueInv'
  BY <1>0, <1>5, IdleKeepsInv DEF StampCompletion, ExecutionPlaces, Worker
<1>6. ASSUME NEW j \in Jobs, TakeNextPendingJob(j) PROVE QueueInv'
  BY <1>0, <1>6, TakeKeepsInv
<1>7. ASSUME NEW unwinds \in BOOLEAN, PublishTerminal(unwinds) PROVE QueueInv'
  BY <1>0, <1>7, PublishKeepsInv
<1>8. CASE ExecutionStep
  BY <1>0, <1>8, ExecutionsAreExecutorSteps, ExecutorKeepsInv
<1>9. ASSUME NEW o \in Outputs, Meddle(o) PROVE QueueInv'
  BY <1>0, <1>9, IdleKeepsInv DEF Meddle
<1>10. CASE UNCHANGED vars
  BY <1>0, <1>10, IdleKeepsInv DEF vars
<1> QED
  BY <1>1, <1>2, <1>3, <1>4, <1>5, <1>6, <1>7, <1>8, <1>9, <1>10
  DEF Next, ClientStep, SubmissionStep, WorkerStep, WorkerLoopStep

\* The invariant holds in every reachable state.
THEOREM Invariance == Spec => []QueueInv
<1> QED
  BY InitInv, InvStep, PTL DEF Spec

-----------------------------------------------------------------------------
\* The queue implements ExportAttempts.

LEMMA AttemptOfFacts ==
    ASSUME NEW s, NEW e
    PROVE  /\ s \in {"Offered", "Inspected"} => AttemptOf(s, e) = "Offered"
           /\ s = "Rejected" => AttemptOf(s, e) = "Refused"
           /\ s = "Admitted" =>
                /\ e.status = "Absent" => AttemptOf(s, e) = "Forgotten"
                /\ e.status = "Pending" => AttemptOf(s, e) = "Waiting"
                /\ e.status \in {"Running", "Cancelling"} /\ ~IsCommitting(e) =>
                       AttemptOf(s, e) = "Executing"
                /\ e.status \in {"Running", "Cancelling"} /\ IsCommitting(e) =>
                       AttemptOf(s, e) = "Committed"
                /\ e.status = "Completed" => AttemptOf(s, e) = "Published"
                /\ e.status = "Cancelled" => AttemptOf(s, e) = "Cancelled"
                /\ e.status = "Failed" =>
                     /\ e.publication = "NotPublished" => AttemptOf(s, e) = "Failed"
                     /\ e.publication = "DurabilityUnconfirmed" => AttemptOf(s, e) = "Unconfirmed"
                     /\ e.publication = "OutcomeUnknown" => AttemptOf(s, e) = "Unknown"
<1>1. s \in {"Offered", "Inspected"} => AttemptOf(s, e) = "Offered"
  BY DEF AttemptOf
<1>2. s = "Rejected" => AttemptOf(s, e) = "Refused"
  BY DEF AttemptOf
<1>3. ASSUME s = "Admitted"
      PROVE  AttemptOf(s, e) =
               CASE e.status = "Pending"           -> "Waiting"
                 [] e.status \in {"Running", "Cancelling"} ->
                        IF IsCommitting(e) THEN "Committed" ELSE "Executing"
                 [] e.status = "Completed"         -> "Published"
                 [] e.status = "Cancelled"         -> "Cancelled"
                 [] e.status = "Failed" ->
                        CASE e.publication = "NotPublished"          -> "Failed"
                          [] e.publication = "DurabilityUnconfirmed" -> "Unconfirmed"
                          [] OTHER                                   -> "Unknown"
                 [] OTHER                          -> "Forgotten"
  BY <1>3 DEF AttemptOf
<1>4. ASSUME s = "Admitted", e.status = "Failed"
      PROVE  /\ e.publication = "NotPublished" => AttemptOf(s, e) = "Failed"
             /\ e.publication = "DurabilityUnconfirmed" => AttemptOf(s, e) = "Unconfirmed"
             /\ e.publication = "OutcomeUnknown" => AttemptOf(s, e) = "Unknown"
  BY <1>3, <1>4
<1>5. ASSUME s = "Admitted"
      PROVE  /\ e.status = "Absent" => AttemptOf(s, e) = "Forgotten"
             /\ e.status = "Pending" => AttemptOf(s, e) = "Waiting"
             /\ e.status \in {"Running", "Cancelling"} /\ ~IsCommitting(e) =>
                    AttemptOf(s, e) = "Executing"
             /\ e.status \in {"Running", "Cancelling"} /\ IsCommitting(e) =>
                    AttemptOf(s, e) = "Committed"
             /\ e.status = "Completed" => AttemptOf(s, e) = "Published"
             /\ e.status = "Cancelled" => AttemptOf(s, e) = "Cancelled"
  BY <1>3, <1>5
<1> QED
  BY <1>1, <1>2, <1>4, <1>5

\* Withdrawing an entry ends a waiting attempt or forgets a verdict.
LEMMA WithdrawnAttempt ==
    ASSUME NEW s \in {"Offered", "Inspected", "Rejected", "Admitted"},
           NEW e \in Entry, NEW f \in Entry, Shape(e), Shape(f), Withdrawn(e, f)
    PROVE  \/ AttemptOf(s, f) = AttemptOf(s, e)
           \/ AttemptOf(s, e) \in Attempts!Verdicts /\ AttemptOf(s, f) = "Forgotten"
           \/ AttemptOf(s, e) = "Waiting" /\ AttemptOf(s, f) \in {"Cancelled", "Forgotten"}
<1>1. CASE s # "Admitted"
  BY <1>1, AttemptOfFacts
<1>2. CASE s = "Admitted" /\ f = e
  BY <1>2
<1>3. CASE s = "Admitted" /\ IsTerminal(e) /\ f = NoEntry
  <2>1. AttemptOf(s, f) = "Forgotten"
    BY <1>3, AttemptOfFacts, NoEntryFacts
  <2>2. AttemptOf(s, e) \in Attempts!Verdicts
    BY <1>3, AttemptOfFacts DEF IsTerminal, Shape, Attempts!Verdicts
  <2> QED
    BY <2>1, <2>2
<1>4. CASE s = "Admitted" /\ e.status = "Pending" /\ (f = NoEntry \/ f.status = "Cancelled")
  BY <1>4, AttemptOfFacts, NoEntryFacts
<1>5. CASE /\ s = "Admitted"
           /\ e.status \in {"Running", "Cancelling"}
           /\ ~IsCommitting(e)
           /\ f.status \in {e.status, "Cancelling"}
           /\ f.publication = e.publication
  <2>1. ~IsCommitting(f)
    BY <1>5 DEF IsCommitting
  <2> QED
    BY <1>5, <2>1, AttemptOfFacts
<1> QED
  BY <1>1, <1>2, <1>3, <1>4, <1>5 DEF Withdrawn

LEMMA AttemptStatesClosed ==
    ASSUME NEW s \in {"Offered", "Inspected", "Rejected", "Admitted"},
           NEW e \in Entry, Shape(e)
    PROVE  AttemptOf(s, e) \in Attempts!AttemptStates
<1>1. e.status \in Statuses
  BY DEF Entry
<1>2. AttemptOf(s, e) \in
        {"Offered", "Refused", "Forgotten", "Waiting", "Executing", "Committed", "Published",
         "Unconfirmed", "Unknown", "Failed", "Cancelled"}
  BY <1>1, AttemptOfFacts DEF Statuses, Shape
<1> QED
  BY <1>2 DEF Attempts!AttemptStates, Attempts!ActiveAttempts, Attempts!Verdicts

LEMMA InitRefines == Init => Attempts!Begin
<1> SUFFICES ASSUME Init PROVE Attempts!Begin
  OBVIOUS
<1>1. \A j \in Jobs : AttemptOf(submission[j], jobs[j]) = "Offered"
  BY AttemptOfFacts DEF Init
<1> QED
  BY <1>1 DEF Init, Attempts!Begin

\* What callers withdraw is settled.
LEMMA CallerSettles ==
    ASSUME QueueInv, QueueInv', CallerStep
    PROVE  /\ Attempts!Settling
           /\ UNCHANGED <<named, vacant>>
<1> DEFINE before(j) == AttemptOf(submission[j], jobs[j])
           after(j) == AttemptOf(submission[j], jobs'[j])
<1>1. \A j \in Jobs :
        /\ submission[j] \in {"Offered", "Inspected", "Rejected", "Admitted"}
        /\ jobs[j] \in Entry /\ jobs'[j] \in Entry
        /\ Shape(jobs[j]) /\ Shape(jobs'[j])
        /\ Withdrawn(jobs[j], jobs'[j])
  BY DEF QueueInv, Typed, QueueTypeOK, WellShaped, CallerStep
<1>2. \A j \in Jobs :
        /\ after(j) \in Attempts!AttemptStates
        /\ \/ after(j) = before(j)
           \/ before(j) \in Attempts!Verdicts /\ after(j) = "Forgotten"
           \/ before(j) = "Waiting" /\ after(j) \in {"Cancelled", "Forgotten"}
  BY <1>1, WithdrawnAttempt, AttemptStatesClosed
<1>3. submission' = submission /\ UNCHANGED <<named, vacant>>
  BY DEF CallerStep
<1> QED
  BY <1>2, <1>3 DEF Attempts!Settling, Attempts!VerdictsOf

\* What the worker reports is settled, with a verdict the contract allows.
LEMMA PublishSettles ==
    ASSUME QueueInv, QueueInv', NEW unwinds \in BOOLEAN, PublishTerminal(unwinds)
    PROVE  Attempts!Settle
<1> DEFINE own == worker.job
           before(j) == AttemptOf(submission[j], jobs[j])
           after(j) == AttemptOf(submission[j], jobs'[j])
<1>0. UNCHANGED <<submission, accepted, named, vacant>>
  BY DEF PublishTerminal
<1>1. \A j \in Jobs :
        /\ submission[j] \in {"Offered", "Inspected", "Rejected", "Admitted"}
        /\ jobs[j] \in Entry /\ jobs'[j] \in Entry
        /\ Shape(jobs[j]) /\ Shape(jobs'[j])
  BY DEF QueueInv, Typed, QueueTypeOK, WellShaped
<1>2. \A j \in Jobs : after(j) \in Attempts!AttemptStates
  BY <1>1, AttemptStatesClosed
<1>3. \A j \in Jobs \ {own} :
        \/ after(j) = before(j)
        \/ before(j) \in Attempts!Verdicts /\ after(j) = "Forgotten"
        \/ before(j) = "Waiting" /\ after(j) \in {"Cancelled", "Forgotten"}
  BY <1>1, PublishFacts, WithdrawnAttempt DEF Withdrawn
<1>4. /\ own \in Jobs
      /\ submission[own] = "Admitted"
      /\ jobs[own].status \in {"Running", "Cancelling"}
      /\ ~IsCommitting(jobs[own]) => own \notin named
  BY PublishFacts
  DEF QueueInv, WorkerHoldsItsAttempt, ExecutionPlaces, OnlyAdmitted, NamesAgree, IsActive
<1>5. /\ IsCommitting(jobs[own]) => before(own) = "Committed"
      /\ ~IsCommitting(jobs[own]) => before(own) = "Executing"
  BY <1>4, AttemptOfFacts
<1>6. \/ after(own) = "Forgotten"
      \/ IsCommitting(jobs[own]) /\ after(own) = "Unknown"
      \/ IsCommitting(jobs[own]) /\ after(own) \in {"Published", "Unconfirmed"} /\ own \in named
      \/ after(own) = "Failed" /\ own \notin named
      \/ ~IsCommitting(jobs[own]) /\ after(own) = "Cancelled"
  <2>1. CASE jobs'[own] = NoEntry
    BY <1>4, <2>1, AttemptOfFacts, NoEntryFacts
  <2>2. CASE /\ IsTerminal(jobs'[own])
             /\ jobs'[own].publication = "Published" => own \in durable /\ IsCommitting(Current)
             /\ jobs'[own].publication = "DurabilityUnconfirmed" =>
                    own \in named /\ IsCommitting(Current)
             /\ jobs'[own].publication = "NotPublished" => own \notin named
             /\ jobs'[own].publication = "OutcomeUnknown" => IsCommitting(Current)
             /\ jobs'[own].status = "Cancelled" => ~IsCommitting(Current)
    <3>1. durable \subseteq named
      BY DEF QueueInv, NamesAgree
    <3>2. Shape(jobs'[own])
      BY <1>1, <1>4
    <3>3. CASE jobs'[own].status = "Completed"
      BY <1>4, <2>2, <3>1, <3>2, <3>3, AttemptOfFacts DEF Shape, Current
    <3>4. CASE jobs'[own].status = "Cancelled"
      BY <1>4, <2>2, <3>2, <3>4, AttemptOfFacts DEF Shape, Current
    <3>5. CASE jobs'[own].status = "Failed"
      BY <1>4, <2>2, <3>2, <3>5, AttemptOfFacts DEF Shape, Current
    <3> QED
      BY <2>2, <3>3, <3>4, <3>5 DEF IsTerminal
  <2> QED
    BY <2>1, <2>2, PublishFacts
<1>7. Attempts!Settling
  <2> HIDE DEF before, after
  <2>1. \A j \in Jobs : after(j) # before(j) =>
          \/ after(j) = "Forgotten" /\ (before(j) \in Attempts!Verdicts
                                        \/ before(j) \in Attempts!ActiveAttempts)
          \/ before(j) = "Waiting" /\ after(j) = "Cancelled"
          \/ before(j) = "Executing" /\ after(j) \in {"Cancelled", "Failed"}
          \/ before(j) = "Committed" /\ after(j) = "Unknown"
          \/ before(j) = "Committed" /\ j \in named /\ after(j) \in {"Published", "Unconfirmed"}
          \/ before(j) = "Committed" /\ j \notin named /\ after(j) = "Failed"
    BY <1>3, <1>4, <1>5, <1>6 DEF Attempts!ActiveAttempts
  <2> USE DEF before, after
  <2> QED
    BY <1>0, <1>2, <2>1
    DEF Attempts!Settling, Attempts!VerdictsOf, Attempts!ActiveAttempts
<1> QED
  BY <1>0, <1>7 DEF Attempts!Settle

\* Every step of the queue is a step of the contract, or no step of it.
LEMMA StepRefines ==
    QueueInv /\ QueueInv' /\ [Next]_vars => [Attempts!Step]_(Attempts!attemptVars)
<1> DEFINE attempt == [j \in Jobs |-> AttemptOf(submission[j], jobs[j])]
           Abstract == [Attempts!Step]_(Attempts!attemptVars)
<1> SUFFICES ASSUME QueueInv, QueueInv', [Next]_vars PROVE Abstract
  OBVIOUS
<1>0. /\ jobs \in [Jobs -> Entry]
      /\ worker \in Worker
      /\ submission \in [Jobs -> {"Offered", "Inspected", "Admitted", "Rejected"}]
      /\ QueueTypeOK /\ QueueTypeOK'
  BY DEF QueueInv, Typed, QueueTypeOK
<1>1. ASSUME attempt' = attempt, UNCHANGED <<accepted, named, vacant>> PROVE Abstract
  BY <1>1 DEF Attempts!attemptVars
<1>2. ASSUME NEW j \in Jobs, InspectRoute(j) PROVE Abstract
  <2>1. attempt' = attempt
    BY <1>0, <1>2, AttemptOfFacts DEF InspectRoute
  <2> QED
    BY <1>1, <1>2, <2>1 DEF InspectRoute
<1>3. ASSUME NEW j \in Jobs, RejectUnlocked(j) \/ RejectLocked(j) PROVE Abstract
  <2>1. attempt[j] = "Offered" /\ attempt' = [attempt EXCEPT ![j] = "Refused"]
    <3>1. /\ submission[j] \in {"Offered", "Inspected"}
          /\ submission' = [submission EXCEPT ![j] = "Rejected"]
          /\ jobs' = jobs
      BY <1>3 DEF RejectUnlocked, RejectLocked
    <3>2. AttemptOf(submission[j], jobs[j]) = "Offered"
      BY <3>1, AttemptOfFacts
    <3>3. AttemptOf(submission'[j], jobs'[j]) = "Refused"
      BY <1>0, <3>1, AttemptOfFacts
    <3> QED
      BY <1>0, <3>1, <3>2, <3>3
  <2> QED
    BY <1>3, <2>1 DEF RejectUnlocked, RejectLocked, Attempts!Refuse, Attempts!Step
<1>4. ASSUME NEW j \in Jobs, Admit(j) PROVE Abstract
  <2>1. attempt[j] = "Offered"
    BY <1>0, <1>4, AttemptOfFacts DEF Admit
  <2>2. attempt' = [attempt EXCEPT ![j] = "Waiting"]
    <3>1. jobs'[j].status = "Pending" /\ \A k \in Jobs \ {j} : jobs'[k] = jobs[k]
      BY <1>0, <1>4 DEF Admit, NoEntry
    <3>2. submission' = [submission EXCEPT ![j] = "Admitted"]
      BY <1>4 DEF Admit
    <3> QED
      BY <1>0, <3>1, <3>2, AttemptOfFacts
  <2>3. ASSUME NEW k \in Jobs, attempt[k] \in Attempts!ActiveAttempts
        PROVE  OutputOf[k] # OutputOf[j]
    <3>1. submission[k] = "Admitted"
      BY <1>0, <2>3, AttemptOfFacts DEF Attempts!ActiveAttempts
    <3>2. IsActive(jobs[k])
      <4>1. jobs[k].status \in Statuses /\ Shape(jobs[k])
        BY <1>0 DEF Entry, QueueInv, WellShaped
      <4> QED
        BY <2>3, <3>1, <4>1, AttemptOfFacts
        DEF Statuses, Shape, IsActive, Attempts!ActiveAttempts
    <3> QED
      BY <1>4, <3>2 DEF Admit, Admissible
  <2> QED
    BY <1>4, <2>1, <2>2, <2>3 DEF Admit, Attempts!Accept, Attempts!Step
<1>5. ASSUME NEW j \in Jobs, CancelPending(j) PROVE Abstract
  <2>1. CallerStep
    BY <1>0, <1>5, CallersAreCallerSteps
  <2>2. Attempts!Settling /\ UNCHANGED <<named, vacant>>
    BY <2>1, CallerSettles
  <2>3. /\ jobs[j].status = "Pending"
        /\ submission[j] = "Admitted"
        /\ submission' = submission
        /\ accepted' = accepted \union {j}
    BY <1>0, <1>5, <2>1 DEF CancelPending, QueueInv, OnlyAdmitted, CallerStep
  <2>4. j \notin accepted
    BY <2>3 DEF QueueInv, CancelledStay, IsActive
  <2>5. jobs'[j].status \notin {"Pending", "Running"} /\ Withdrawn(jobs[j], jobs'[j])
    BY <2>1, <2>3, <2>4 DEF CallerStep, MayAccept
  <2>6. jobs'[j].status \in {"Absent", "Cancelled"}
    BY <2>3, <2>5, NoEntryFacts DEF Withdrawn, IsTerminal
  <2>7. attempt[j] = "Waiting" /\ attempt'[j] # "Waiting"
    BY <1>0, <2>3, <2>6, AttemptOfFacts
  <2> QED
    BY <2>2, <2>3, <2>7 DEF Attempts!CancelWaiting, Attempts!Step
<1>6. ASSUME NEW j \in Jobs, CancelRunning(j) PROVE Abstract
  <2>1. /\ jobs[j].status = "Running" /\ ~IsCommitting(jobs[j])
        /\ jobs'[j].status = "Cancelling" /\ ~IsCommitting(jobs'[j])
        /\ \A k \in Jobs \ {j} : jobs'[k] = jobs[k]
    BY <1>0, <1>6 DEF CancelRunning, Reversible, Entry, IsCommitting
  <2>2. submission[j] = "Admitted" /\ submission' = submission
    BY <1>0, <1>6, <2>1 DEF CancelRunning, QueueInv, OnlyAdmitted
  <2>3. attempt[j] = "Executing" /\ attempt' = attempt
    BY <1>0, <2>1, <2>2, AttemptOfFacts
  <2> QED
    BY <1>6, <2>3 DEF CancelRunning, Attempts!CancelExecuting, Attempts!Step
<1>7. CASE \/ ClearTerminalHistory
           \/ \E enabled \in BOOLEAN : SetDispatchEnabled(enabled)
           \/ BeginShutdown \/ ShutdownUntil \/ JoinFinishedWorker \/ DetachWorker
           \/ RepeatShutdown \/ DropQueue \/ DeadlinePasses
  <2>1. CallerStep
    BY <1>0, <1>7, CallersAreCallerSteps
  <2>2. accepted' = accepted
    BY <1>7
    DEF ClearTerminalHistory, SetDispatchEnabled, BeginShutdown, ShutdownUntil,
        JoinFinishedWorker, DetachWorker, RepeatShutdown, DropQueue, DeadlinePasses
  <2> QED
    BY <2>1, <2>2, CallerSettles DEF Attempts!Settle, Attempts!Step
<1>8. CASE \/ WorkerStarts \/ SleepUntilWork \/ LeaveLoop \/ ThreadFinishes
           \/ \E opaque \in BOOLEAN : StampCompletion(opaque)
  BY <1>1, <1>8
  DEF WorkerStarts, SleepUntilWork, LeaveLoop, ThreadFinishes, StampCompletion
<1>9. ASSUME NEW j \in Jobs, TakeNextPendingJob(j) PROVE Abstract
  <2>1. /\ jobs[j].status = "Pending" /\ jobs'[j].status = "Running"
        /\ jobs'[j].publication = jobs[j].publication
        /\ \A k \in Jobs \ {j} : jobs'[k] = jobs[k]
        /\ worker.at = "Taking"
    BY <1>0, <1>9 DEF TakeNextPendingJob, NextPending, Entry
  <2>2. submission[j] = "Admitted" /\ submission' = submission
    BY <1>0, <1>9, <2>1 DEF TakeNextPendingJob, QueueInv, OnlyAdmitted
  <2>3. ~IsCommitting(jobs'[j])
    BY <2>1 DEF QueueInv, WellShaped, Shape, IsCommitting
  <2>4. attempt[j] = "Waiting" /\ attempt' = [attempt EXCEPT ![j] = "Executing"]
    <3>1. AttemptOf(submission[j], jobs[j]) = "Waiting"
      BY <2>1, <2>2, AttemptOfFacts
    <3>2. AttemptOf(submission'[j], jobs'[j]) = "Executing"
      BY <2>1, <2>2, <2>3, AttemptOfFacts
    <3> QED
      BY <2>1, <2>2, <3>1, <3>2
  <2>5. ASSUME NEW k \in Jobs PROVE attempt[k] \notin {"Executing", "Committed"}
    <3>1. jobs[k].status \notin {"Running", "Cancelling"}
      BY <2>1 DEF QueueInv, WorkerHoldsItsAttempt, ExecutionPlaces
    <3>2. jobs[k].status \in Statuses /\ Shape(jobs[k])
      BY <1>0 DEF Entry, QueueInv, WellShaped
    <3> QED
      BY <1>0, <3>1, <3>2, AttemptOfFacts DEF Statuses, Shape
  <2> QED
    BY <1>9, <2>4, <2>5 DEF TakeNextPendingJob, Attempts!Start, Attempts!Step
<1>10. ASSUME NEW unwinds \in BOOLEAN, PublishTerminal(unwinds) PROVE Abstract
  BY <1>10, PublishSettles DEF Attempts!Step
<1>11. CASE ExecutionStep
  <2> DEFINE own == worker.job
  <2>1. ExecutorStep
    BY <1>11, ExecutionsAreExecutorSteps DEF QueueInv
  <2>2. /\ own \in Jobs
        /\ submission[own] = "Admitted" /\ submission' = submission
        /\ jobs[own].status \in {"Running", "Cancelling"}
        /\ jobs'[own].status = jobs[own].status
        /\ accepted' = accepted
    BY <2>1
    DEF ExecutorStep, QueueInv, Typed, WorkerHoldsItsAttempt, OnlyAdmitted, Current
  <2>3. CASE IsCommitting(jobs'[own]) <=> IsCommitting(jobs[own])
    <3>1. attempt' = attempt
      BY <1>0, <2>1, <2>2, <2>3, AttemptOfFacts DEF ExecutorStep
    <3>2. CASE PlaceOutput
      <4>1. attempt[own] = "Committed" /\ own \notin named
        BY <1>0, <2>2, <3>2, AttemptOfFacts
        DEF PlaceOutput, QueueInv, CommitAgrees, NamesAgree, Current
      <4> QED
        BY <2>2, <3>1, <3>2, <4>1 DEF PlaceOutput, Attempts!Name, Attempts!Step
    <3>3. CASE ~PlaceOutput
      <4>1. UNCHANGED <<named, vacant>>
        BY <1>11, <3>3
        DEF ExecutionStep, GateOpens, GateRefuses, GateParks, ReportProgress, OpenAudioSource,
            ReachNextPhase, ExecutionObservesCancellation, ExecutionFails, ExecutorPanics,
            PublicationStopsBeforeNamespace, ConfirmDurability, DurabilityUnconfirmed,
            NamespaceIndeterminate, CloseExecution
      <4> QED
        BY <1>1, <2>2, <3>1, <4>1
    <3> QED
      BY <3>2, <3>3
  <2>4. CASE ~(IsCommitting(jobs'[own]) <=> IsCommitting(jobs[own]))
    <3>1. IsCommitting(jobs'[own]) /\ ~IsCommitting(jobs[own]) /\ jobs[own].status = "Running"
      BY <2>1, <2>2, <2>4 DEF ExecutorStep, IsCommitting, Current
    <3>2. UNCHANGED <<named, vacant>>
      BY <1>11, <3>1
      DEF ExecutionStep, GateOpens, GateRefuses, GateParks, ReportProgress, OpenAudioSource,
          ReachNextPhase, ExecutionObservesCancellation, ExecutionFails, ExecutorPanics,
          PublicationStopsBeforeNamespace, ConfirmDurability, DurabilityUnconfirmed,
          NamespaceIndeterminate, CloseExecution, PlaceOutput, Ends
    <3>3. attempt[own] = "Executing" /\ attempt' = [attempt EXCEPT ![own] = "Committed"]
      BY <1>0, <2>1, <2>2, <3>1, AttemptOfFacts DEF ExecutorStep
    <3>4. own \notin accepted
      BY <2>2, <3>1 DEF QueueInv, CancelledStay, IsActive
    <3> QED
      BY <2>2, <3>2, <3>3, <3>4 DEF Attempts!Commit, Attempts!Step
  <2> QED
    BY <2>3, <2>4
<1>12. ASSUME NEW o \in Outputs, Meddle(o) PROVE Abstract
  BY <1>12 DEF Meddle, Attempts!Meddle, Attempts!Step
<1>13. CASE UNCHANGED vars
  BY <1>1, <1>13 DEF vars
<1> QED
  BY <1>2, <1>3, <1>4, <1>5, <1>6, <1>7, <1>8, <1>9, <1>10, <1>11, <1>12, <1>13
  DEF Next, ClientStep, SubmissionStep, WorkerStep, WorkerLoopStep

\* Whatever the submissions, routes, policies and capacities: the queue keeps
\* the contract its callers rely on.
THEOREM QueueKeepsContract == Spec => ImplementsAttempts
<1> QED
  BY InitRefines, StepRefines, Invariance, PTL
  DEF Spec, ImplementsAttempts, Attempts!Contract

-----------------------------------------------------------------------------
\* Wake-ups.

LEMMA WakeStep == QueueInv /\ NoMissedWakeup /\ [Next]_vars => NoMissedWakeup'
<1> SUFFICES ASSUME QueueInv, NoMissedWakeup, [Next]_vars PROVE NoMissedWakeup'
  OBVIOUS
<1>0. /\ jobs \in [Jobs -> Entry] /\ worker \in Worker
      /\ worker.at \in ExecutionPlaces => worker.job \in Jobs /\ IsActive(Current)
  BY DEF QueueInv, Typed, QueueTypeOK, WorkerHoldsItsAttempt, Current, IsActive
<1>1. ASSUME worker'.at \notin {"Sleeping", "Parked"} PROVE NoMissedWakeup'
  BY <1>1 DEF NoMissedWakeup
<1>2. ASSUME worker' = Notified(worker) PROVE NoMissedWakeup'
  BY <1>0, <1>1, <1>2, NotifiedFacts
<1>3. ASSUME UNCHANGED <<jobs, dispatchEnabled, shutdown, worker>> PROVE NoMissedWakeup'
  BY <1>3
  DEF NoMissedWakeup, GateRefused, GateAdmits, RefusesExecution, Current
<1>4. CASE \E j \in Jobs : \/ InspectRoute(j) \/ RejectUnlocked(j) \/ RejectLocked(j)
  BY <1>3, <1>4 DEF InspectRoute, RejectUnlocked, RejectLocked
<1>5. CASE JoinFinishedWorker \/ DetachWorker \/ RepeatShutdown \/ DeadlinePasses
  BY <1>3, <1>5 DEF JoinFinishedWorker, DetachWorker, RepeatShutdown, DeadlinePasses
<1>6. CASE \/ \E j \in Jobs : Admit(j) \/ CancelPending(j) \/ CancelRunning(j)
           \/ \E enabled \in BOOLEAN : SetDispatchEnabled(enabled)
           \/ BeginShutdown \/ ShutdownUntil \/ DropQueue
  BY <1>2, <1>6
  DEF Admit, CancelPending, CancelRunning, SetDispatchEnabled, BeginShutdown, ShutdownUntil,
      DropQueue, BeginShutdownLocked
<1>7. CASE ClearTerminalHistory
  <2>1. UNCHANGED <<dispatchEnabled, shutdown, worker>>
    BY <1>7 DEF ClearTerminalHistory
  <2>2. \A j \in Jobs : /\ IsActive(jobs[j]) => jobs'[j] = jobs[j]
                        /\ jobs'[j].status = "Pending" => jobs[j].status = "Pending"
    BY <1>7, NoEntryFacts DEF ClearTerminalHistory, IsActive, IsTerminal
  <2>3. worker.at = "Parked" => Current' = Current
    BY <1>0, <2>1, <2>2 DEF Current, ExecutionPlaces
  <2> QED
    BY <2>1, <2>2, <2>3 DEF NoMissedWakeup, GateRefused, GateAdmits, RefusesExecution
<1>8. CASE SleepUntilWork
  <2>1. worker'.at = "Sleeping" /\ UNCHANGED <<jobs, dispatchEnabled, shutdown>>
    BY <1>0, <1>8 DEF SleepUntilWork, Worker
  <2> QED
    BY <1>8, <2>1 DEF SleepUntilWork, NoMissedWakeup
<1>9. CASE GateParks
  <2>1. /\ worker'.at = "Parked" /\ worker'.job = worker.job
        /\ UNCHANGED <<dispatchEnabled, shutdown>>
        /\ worker.at = "AtGate"
    BY <1>0, <1>9 DEF GateParks, Worker
  <2>2. worker.job \in Jobs
    BY <1>0, <2>1 DEF ExecutionPlaces
  <2>3. /\ jobs'[worker.job].status = jobs[worker.job].status
        /\ jobs'[worker.job].publication = jobs[worker.job].publication
        /\ jobs'[worker.job].canceled = jobs[worker.job].canceled
    BY <1>0, <1>9, <2>2 DEF GateParks, Entry
  <2> QED
    BY <1>9, <2>1, <2>3
    DEF GateParks, NoMissedWakeup, GateRefused, GateAdmits, RefusesExecution, Current,
        IsCommitting, IsActive
<1>10. CASE WorkerStarts \/ LeaveLoop \/ ThreadFinishes
  BY <1>0, <1>1, <1>10 DEF WorkerStarts, LeaveLoop, ThreadFinishes, Worker
<1>11. CASE \/ \E opaque \in BOOLEAN : StampCompletion(opaque)
            \/ \E j \in Jobs : TakeNextPendingJob(j)
            \/ \E unwinds \in BOOLEAN : PublishTerminal(unwinds)
  <2>1. ASSUME NEW opaque \in BOOLEAN, StampCompletion(opaque)
        PROVE  worker'.at = "Stamped"
    BY <1>0, <2>1 DEF StampCompletion, Worker
  <2>2. ASSUME NEW j \in Jobs, TakeNextPendingJob(j)
        PROVE  worker'.at = "AtGate"
    BY <2>2 DEF TakeNextPendingJob
  <2>3. ASSUME NEW unwinds \in BOOLEAN, PublishTerminal(unwinds)
        PROVE  worker'.at \in {"Leaving", "Taking"}
    BY <2>3 DEF PublishTerminal
  <2> QED
    BY <1>1, <1>11, <2>1, <2>2, <2>3
<1>12. CASE GateOpens \/ GateRefuses \/ ReportProgress \/ OpenAudioSource \/ ReachNextPhase
  BY <1>0, <1>1, <1>12
  DEF GateOpens, GateRefuses, ReportProgress, OpenAudioSource, ReachNextPhase, Worker
<1>13. CASE \/ ExecutionObservesCancellation \/ ExecutionFails \/ ExecutorPanics \/ PlaceOutput
            \/ PublicationStopsBeforeNamespace \/ ConfirmDurability \/ DurabilityUnconfirmed
            \/ NamespaceIndeterminate
            \/ \E released, opaque \in BOOLEAN : CloseExecution(released, opaque)
  <2>1. CASE PlaceOutput
    BY <1>0, <1>1, <2>1 DEF PlaceOutput, Worker
  <2>2. ASSUME NEW released \in BOOLEAN, NEW opaque \in BOOLEAN, CloseExecution(released, opaque)
        PROVE  worker'.at = "Reporting"
    BY <1>0, <2>2 DEF CloseExecution, Worker
  <2>3. ASSUME NEW outcome, Ends(outcome)
        PROVE  worker'.at = "Closing"
    BY <1>0, <2>3 DEF Ends, Worker
  <2> QED
    BY <1>1, <1>13, <2>1, <2>2, <2>3
    DEF ExecutionObservesCancellation, ExecutionFails, ExecutorPanics,
        PublicationStopsBeforeNamespace, ConfirmDurability, DurabilityUnconfirmed,
        NamespaceIndeterminate
<1>14. CASE \E o \in Outputs : Meddle(o)
  BY <1>3, <1>14 DEF Meddle
<1>15. CASE UNCHANGED vars
  BY <1>3, <1>15 DEF vars
<1> QED
  BY <1>4, <1>5, <1>6, <1>7, <1>8, <1>9, <1>10, <1>11, <1>12, <1>13, <1>14, <1>15
  DEF Next, ClientStep, SubmissionStep, WorkerStep, WorkerLoopStep, ExecutionStep

\* No interleaving of callers and worker loses a wake-up.
THEOREM NoWakeupIsLost == Spec => []NoMissedWakeup
<1>1. Init => NoMissedWakeup
  BY DEF Init, NoMissedWakeup
<1> QED
  BY <1>1, WakeStep, Invariance, PTL DEF Spec

-----------------------------------------------------------------------------
\* The shutdown receipt.

\* What a receipt rests on.
ReceiptInv ==
    /\ receiptFacts.terminated => worker.at = "Finished"
    /\ owner.at # "Serving" => shutdown
    /\ owner.at \in {"Serving", "Joining"} => owner.receipt = "Unasked"
    /\ owner.receipt = "Released" => receiptFacts.terminated
    /\ ReleasedReceiptIsTrue

LEMMA ActiveOnlyByAdmission ==
    ASSUME QueueInv, QueueInv', [Next]_vars, shutdown
    PROVE  \A j \in Jobs : IsActive(jobs'[j]) => IsActive(jobs[j])
<1>0. QueueTypeOK /\ QueueTypeOK' /\ jobs \in [Jobs -> Entry]
  BY DEF QueueInv, Typed, QueueTypeOK
<1>1. ASSUME NEW j \in Jobs, InspectRoute(j) \/ RejectUnlocked(j) \/ Admit(j) \/ RejectLocked(j)
      PROVE  jobs' = jobs
  BY <1>1 DEF InspectRoute, RejectUnlocked, Admit, Admissible, RejectLocked
<1>2. CASE \/ \E j \in Jobs : CancelPending(j) \/ CancelRunning(j)
           \/ ClearTerminalHistory
           \/ \E enabled \in BOOLEAN : SetDispatchEnabled(enabled)
           \/ BeginShutdown \/ ShutdownUntil \/ JoinFinishedWorker \/ DetachWorker
           \/ RepeatShutdown \/ DropQueue \/ DeadlinePasses
  <2>1. CallerStep
    BY <1>0, <1>2, CallersAreCallerSteps
  <2> QED
    BY <2>1, NoEntryFacts DEF CallerStep, Withdrawn, IsActive, IsTerminal
<1>3. CASE \/ WorkerStarts \/ SleepUntilWork \/ LeaveLoop \/ ThreadFinishes
           \/ \E opaque \in BOOLEAN : StampCompletion(opaque)
           \/ \E j \in Jobs : TakeNextPendingJob(j)
  BY <1>3
  DEF WorkerStarts, SleepUntilWork, LeaveLoop, ThreadFinishes, StampCompletion,
      TakeNextPendingJob
<1>4. ASSUME NEW unwinds \in BOOLEAN, PublishTerminal(unwinds)
      PROVE  \A j \in Jobs : IsActive(jobs'[j]) => IsActive(jobs[j])
  BY <1>4, PublishFacts, NoEntryFacts DEF IsActive, IsTerminal
<1>5. CASE ExecutionStep
  <2>1. ExecutorStep
    BY <1>5, ExecutionsAreExecutorSteps DEF QueueInv
  <2> QED
    BY <2>1 DEF ExecutorStep, IsActive, Current
<1>6. CASE UNCHANGED vars \/ \E o \in Outputs : Meddle(o)
  BY <1>6 DEF vars, Meddle
<1> QED
  BY <1>1, <1>2, <1>3, <1>4, <1>5, <1>6
  DEF Next, ClientStep, SubmissionStep, WorkerStep, WorkerLoopStep

LEMMA ReceiptStep == QueueInv /\ QueueInv' /\ ReceiptInv /\ [Next]_vars => ReceiptInv'
<1> SUFFICES ASSUME QueueInv, QueueInv', ReceiptInv, [Next]_vars PROVE ReceiptInv'
  OBVIOUS
<1> USE DEF ReceiptInv
<1>0. worker \in Worker /\ receiptFacts \in Facts /\ owner \in Owner
  BY DEF QueueInv, Typed, QueueTypeOK
<1>1. \A j \in Jobs : shutdown /\ IsActive(jobs'[j]) => IsActive(jobs[j])
  BY ActiveOnlyByAdmission
<1>2. ASSUME UNCHANGED <<receiptFacts, owner>>,
             worker.at = "Finished" => worker'.at = "Finished" /\ UNCHANGED audio,
             shutdown => shutdown'
      PROVE  ReceiptInv'
  <2>1. CASE owner.receipt # "Released"
    BY <1>2, <2>1 DEF ReleasedReceiptIsTrue
  <2>2. CASE owner.receipt = "Released"
    <3>1. owner.at # "Serving" /\ shutdown
      BY <2>2
    <3>2. \A j \in Jobs : ~IsActive(jobs'[j])
      BY <1>1, <2>2, <3>1 DEF ReleasedReceiptIsTrue
    <3> QED
      BY <1>2, <2>2, <3>1, <3>2 DEF ReleasedReceiptIsTrue
  <2> QED
    BY <2>1, <2>2
<1>3. CASE SubmissionStep
  BY <1>0, <1>2, <1>3, NotifiedFacts
  DEF SubmissionStep, InspectRoute, RejectUnlocked, Admit, RejectLocked
<1>4. CASE \E j \in Jobs : CancelPending(j) \/ CancelRunning(j)
  BY <1>0, <1>2, <1>4, NotifiedFacts DEF CancelPending, CancelRunning
<1>5. CASE \/ ClearTerminalHistory \/ BeginShutdown \/ DeadlinePasses
           \/ \E enabled \in BOOLEAN : SetDispatchEnabled(enabled)
  BY <1>0, <1>2, <1>5, NotifiedFacts
  DEF ClearTerminalHistory, BeginShutdown, DeadlinePasses, SetDispatchEnabled,
      BeginShutdownLocked
<1>6. ASSUME shutdown',
             receiptFacts'.terminated => worker'.at = "Finished",
             owner'.receipt = Receipt(jobs', receiptFacts'),
             owner'.at = "Retired", UNCHANGED audio
      PROVE  ReceiptInv'
  BY <1>6 DEF Receipt, AllResourcesReleased, ReleasedReceiptIsTrue
<1>7. CASE ShutdownUntil
  <2>1. /\ shutdown' /\ UNCHANGED <<receiptFacts, audio>>
        /\ worker.at = "Finished" => worker'.at = "Finished"
        /\ owner.at = "Serving"
    BY <1>0, <1>7, NotifiedFacts DEF ShutdownUntil, BeginShutdownLocked
  <2>2. CASE worker.at = "Missing"
    BY <1>6, <1>7, <2>1, <2>2 DEF ShutdownUntil
  <2>3. CASE worker.at # "Missing"
    BY <1>0, <1>7, <2>1, <2>3 DEF ShutdownUntil, Owner, ReleasedReceiptIsTrue
  <2> QED
    BY <2>2, <2>3
<1>8. CASE JoinFinishedWorker
  BY <1>6, <1>8 DEF JoinFinishedWorker
<1>9. CASE DetachWorker
  <2>1. receiptFacts'.terminated = receiptFacts.terminated
    BY <1>0, <1>9 DEF DetachWorker, Facts
  <2> QED
    BY <1>6, <1>9, <2>1 DEF DetachWorker
<1>10. CASE RepeatShutdown
  <2>1. owner'.at = "Retired" /\ owner'.receipt = Receipt(jobs, receiptFacts)
    BY <1>0, <1>10 DEF RepeatShutdown, Owner
  <2> QED
    BY <1>6, <1>10, <2>1 DEF RepeatShutdown
<1>11. CASE DropQueue
  <2>1. /\ shutdown' /\ UNCHANGED audio
        /\ worker.at = "Finished" => worker'.at = "Finished"
        /\ owner'.at = "Dropped" /\ owner'.receipt = owner.receipt
    BY <1>0, <1>11, NotifiedFacts DEF DropQueue, BeginShutdownLocked, Owner
  <2>2. CASE owner.at = "Serving" /\ worker.at # "Missing"
    <3>1. receiptFacts'.terminated => worker.at = "Finished"
      BY <1>0, <1>11, <2>2 DEF DropQueue, Joined, Facts
    <3> QED
      BY <2>1, <2>2, <3>1 DEF ReleasedReceiptIsTrue
  <2>3. CASE ~(owner.at = "Serving" /\ worker.at # "Missing")
    <3>1. receiptFacts' = receiptFacts
      BY <1>11, <2>3 DEF DropQueue
    <3>2. owner.receipt = "Released" => shutdown
      BY DEF ReceiptInv
    <3> QED
      BY <1>1, <2>1, <3>1, <3>2 DEF ReleasedReceiptIsTrue
  <2> QED
    BY <2>2, <2>3
<1>12. CASE WorkerStarts \/ \E opaque \in BOOLEAN : StampCompletion(opaque)
  <2>1. /\ worker.at # "Finished"
        /\ receiptFacts'.terminated = receiptFacts.terminated
        /\ UNCHANGED <<owner, shutdown>>
    BY <1>0, <1>12 DEF WorkerStarts, StampCompletion, Facts
  <2> QED
    BY <2>1 DEF ReleasedReceiptIsTrue
<1>13. CASE \E released, opaque \in BOOLEAN : CloseExecution(released, opaque)
  <2>1. /\ worker.at # "Finished"
        /\ receiptFacts'.terminated = receiptFacts.terminated
        /\ UNCHANGED <<owner, shutdown>>
    BY <1>0, <1>13 DEF CloseExecution, Facts
  <2> QED
    BY <2>1 DEF ReleasedReceiptIsTrue
<1>14. CASE \/ SleepUntilWork \/ LeaveLoop \/ ThreadFinishes
            \/ \E j \in Jobs : TakeNextPendingJob(j)
            \/ \E unwinds \in BOOLEAN : PublishTerminal(unwinds)
  BY <1>2, <1>14
  DEF SleepUntilWork, LeaveLoop, ThreadFinishes, TakeNextPendingJob, PublishTerminal
<1>15. CASE GateOpens \/ GateRefuses \/ GateParks \/ ReportProgress \/ OpenAudioSource
            \/ ReachNextPhase
  BY <1>2, <1>15
  DEF GateOpens, GateRefuses, GateParks, ReportProgress, OpenAudioSource, ReachNextPhase
<1>16. CASE \/ ExecutionObservesCancellation \/ ExecutionFails \/ ExecutorPanics \/ PlaceOutput
            \/ PublicationStopsBeforeNamespace \/ ConfirmDurability \/ DurabilityUnconfirmed
            \/ NamespaceIndeterminate
  BY <1>2, <1>16
  DEF ExecutionObservesCancellation, ExecutionFails, ExecutorPanics, PlaceOutput,
      PublicationStopsBeforeNamespace, ConfirmDurability, DurabilityUnconfirmed,
      NamespaceIndeterminate, Ends
<1>17. CASE UNCHANGED vars \/ \E o \in Outputs : Meddle(o)
  BY <1>2, <1>17 DEF vars, Meddle
<1> QED
  BY <1>3, <1>4, <1>5, <1>7, <1>8, <1>9, <1>10, <1>11, <1>12, <1>13, <1>14, <1>15, <1>16,
     <1>17
  DEF Next, ClientStep, WorkerStep, WorkerLoopStep, ExecutionStep

\* A receipt that released everything stays true for ever.
THEOREM ReceiptsAreTrue == Spec => []ReleasedReceiptIsTrue
<1>1. Init => ReceiptInv
  BY DEF Init, ReceiptInv, ReleasedReceiptIsTrue
<1>2. ReceiptInv => ReleasedReceiptIsTrue
  BY DEF ReceiptInv
<1> QED
  BY <1>1, <1>2, ReceiptStep, Invariance, PTL DEF Spec

-----------------------------------------------------------------------------
\* What QueueInv says, property by property.

\* Every variable keeps its type.
THEOREM QueueTypeCorrect == Spec => []QueueTypeOK
<1>1. QueueInv => QueueTypeOK
  BY DEF QueueInv, Typed
<1> QED
  BY <1>1, Invariance, PTL

\* The worker always holds the one attempt that runs.
THEOREM WorkerOwnsAttempt == Spec => []WorkerHoldsItsAttempt
<1>1. QueueInv => WorkerHoldsItsAttempt
  BY DEF QueueInv
<1> QED
  BY <1>1, Invariance, PTL

\* No verdict contradicts the disk.
THEOREM VerdictsAreTrue == Spec => []VerdictsMatchDisk
<1>1. QueueInv => VerdictsMatchDisk
  BY DEF QueueInv
<1> QED
  BY <1>1, Invariance, PTL

\* An accepted cancellation is final.
THEOREM CancellationsAreFinal == Spec => []AcceptedCancellationHolds
<1>1. QueueInv => AcceptedCancellationHolds
  BY DEF QueueInv, CancelledStay, AcceptedCancellationHolds
<1> QED
  BY <1>1, Invariance, PTL

\* No two attempts in flight write one output.
THEOREM OutputsAreExclusive == Spec => []OneWriterPerOutput
<1>1. QueueInv => OneWriterPerOutput
  BY DEF QueueInv
<1> QED
  BY <1>1, Invariance, PTL

\* Who reports that it yielded uses nothing.
THEOREM YieldIsTrue == Spec => []YieldedUsesNothing
<1>1. QueueInv => YieldedUsesNothing
  BY DEF QueueInv
<1> QED
  BY <1>1, Invariance, PTL

=============================================================================
