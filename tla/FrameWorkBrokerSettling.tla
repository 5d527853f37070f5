----------------------- MODULE FrameWorkBrokerSettling -----------------------
(***************************************************************************)
(* Liveness of the Frame Work Broker.  The coordinators may stop asking at *)
(* any moment and for good: `quiet` is that moment.  Workers, completions  *)
(* and failures go on.                                                     *)
(***************************************************************************)
EXTENDS FrameWorkBrokerProperties

VARIABLE quiet  \* TRUE once no coordinator calls the broker any more

settlingVars == <<vars, quiet>>

SettlingInit == Init /\ quiet = FALSE

SettlingNext ==
    \/ ~quiet /\ CoordinatorStep /\ UNCHANGED quiet
    \/ CompletionStep /\ UNCHANGED quiet
    \/ WorkerStep /\ UNCHANGED quiet
    \/ \E l \in Leases : FailExecution(l) /\ UNCHANGED quiet
    \/ ~quiet /\ quiet' = TRUE /\ UNCHANGED vars

\* Every worker thread keeps running its receive loop: awake, it soon takes
\* work, parks or leaves.  Every execution returns and the pump resolves it.
\* Stated on states, because the bounded lease slots could disable a dequeue
\* the code would make.
WorkerMoves(lane) == worker[lane] # "Awake" \/ Running(inFlight, lane) # {}
LeaseEnds(l) == inFlight[l] = None

Fairness ==
    /\ \A lane \in Lanes : []<>WorkerMoves(lane)
    /\ \A l \in Leases : []<>LeaseEnds(l)

SettlingSpec == SettlingInit /\ [][SettlingNext]_settlingVars /\ Fairness

-----------------------------------------------------------------------------

\* Closing the broker reaches every worker, parked or running: each leaves
\* its receive loop, whatever completes, fails or is abandoned meanwhile.
CloseStopsEveryWorker ==
    closedAt # None ~> \A lane \in Lanes : worker[lane] = "Stopped"

\* Once the coordinators stop asking, everything they asked for is settled:
\* no queued payload is stranded on a lane nobody wakes, no binding waits for
\* a completion that went to a lease which lost the right to satisfy it.
AdmittedWorkSettles ==
    quiet ~> (queue = <<>> /\ PendingKeys(pending) = {})

=============================================================================
