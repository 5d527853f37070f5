-------------------------- MODULE MCFrameWorkBroker --------------------------
(***************************************************************************)
(* Small instances of the Frame Work Broker for TLC.                       *)
(***************************************************************************)
EXTENDS FrameWorkBrokerProperties, TLC

CONSTANTS s1, d1, d2

BaseRequest(k, g, priority, class) ==
    [key |-> k, generation |-> g, priority |-> priority, workClass |-> class,
     workerAffinity |-> None, resourceScope |-> s1, demandIdentity |-> None,
     deadline |-> None, inFlightDeadlinePolicy |-> "Cancel",
     executionCancellationBudget |-> None]

\* Every priority and class of work competing for the same capacity.
AdmissionRequests ==
    {BaseRequest(k, g, pc[1], pc[2]) :
        k \in Keys, g \in Generations,
        pc \in {<<"Prefetch", "Playback">>, <<"Current", "Playback">>,
                <<"Current", "Still">>}}

\* Demand-backed real-time work with a deadline and an execution budget that
\* keeps decoder locality, and Still work of the next generation that only the
\* generic watchdog and preemption bound.
AuthorityRequests ==
    {[BaseRequest(k, 0, "Current", "Playback") EXCEPT
        !.demandIdentity = d, !.deadline = 1,
        !.inFlightDeadlinePolicy = "FinishForLocality",
        !.executionCancellationBudget = 1] : k \in Keys, d \in Demands}
    \cup {BaseRequest(k, 1, "Current", "Still") : k \in Keys}

Symmetry == Permutations(Keys) \cup Permutations(Leases) \cup Permutations(Demands)

=============================================================================
