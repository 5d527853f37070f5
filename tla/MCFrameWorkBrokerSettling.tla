---------------------- MODULE MCFrameWorkBrokerSettling ----------------------
(***************************************************************************)
(* Two production lanes sharing one broker, for TLC.  No symmetry: the run *)
(* checks liveness.                                                        *)
(***************************************************************************)
EXTENDS FrameWorkBrokerSettling

CONSTANTS s1, PinnedKeys

BaseRequest(k, class) ==
    [key |-> k, generation |-> 0, priority |-> "Current", workClass |-> class,
     workerAffinity |-> None, resourceScope |-> s1, demandIdentity |-> None,
     deadline |-> None, inFlightDeadlinePolicy |-> "Cancel",
     executionCancellationBudget |-> None]

\* Work for both lanes, and for PinnedKeys also work its affinity pins to one.
WorkerRequests ==
    {BaseRequest(k, "Playback") : k \in Keys \ PinnedKeys}
    \cup {[BaseRequest(k, "Still") EXCEPT !.workerAffinity = a] :
            k \in PinnedKeys, a \in {None, "Playback"}}

=============================================================================
