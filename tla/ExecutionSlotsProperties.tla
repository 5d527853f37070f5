----------------------- MODULE ExecutionSlotsProperties -----------------------
(***************************************************************************)
(* What the dispatch slots promise the machine and the domains.            *)
(***************************************************************************)
EXTENDS ExecutionSlots

-----------------------------------------------------------------------------
\* Safety.

\* Types, and what ExecutionResourceSlotAllocator::update re-establishes
\* whatever it is told: grants fit the machine, a domain is granted or drains
\* but not both, and only a draining domain is acknowledged.
SlotsTypeOK ==
    /\ allocator.active \in Seq(Domains)
    /\ IsInjective(allocator.active)
    /\ Len(allocator.active) <= MachineSlots
    /\ allocator.draining \subseteq Domains \ Active(allocator)
    /\ allocator.acknowledged \subseteq allocator.draining
    /\ allocator.overdue \subseteq Active(allocator)
    /\ allocator.cursor \in Domains
    /\ demand \in [Domains -> Facts]
    /\ app \in [at : {"Idle", "Closing", "Opening"}, window : BOOLEAN]
    /\ seam \in [Domains -> BOOLEAN]

\* A dispatch seam is open only for a domain the allocator counts: granted, or
\* draining without an acknowledged close.  So an acknowledgement proves that
\* new starts are excluded, and keeps proving it, however the refreshes of the
\* App and of the Window follow one another.
SeamsFollowGrants ==
    \A d \in Domains :
        seam[d] => d \in Active(allocator) \cup (allocator.draining \ allocator.acknowledged)

AtWork(d) == domain[d].at \in {"Passed", "Running"}

\* Of the domains that start an attempt under the lock of their seam, no more
\* execute at a time than the machine has slots, although demand is sampled
\* before the seams close and attempts start in between.
AtomicStartsFit ==
    Cardinality({d \in Domains \ LateMarked : AtWork(d)}) <= MachineSlots

\* The comment on domains_to_open_after_close: a handoff never exceeds the
\* capacity of the machine, even transiently.
HandoffIsExclusive == Cardinality({d \in Domains : AtWork(d)}) <= MachineSlots

-----------------------------------------------------------------------------
\* Liveness.

\* The steps a window tick and the rest of a refresh are, by what they do to
\* the App thread.
TickBegins == app = Idle /\ app' = Doing("Closing", TRUE)
RefreshContinues == app # Idle /\ app' \in {Idle, Doing("Opening", app.window)}

\* The Window ticks at least once a second, though refreshes may come in
\* between; a refresh is sequential code; gates are polled and attempts end.
\* Requests, withdrawals, transport, memory and the grace get no fairness.
Fairness ==
    /\ SF_app(TickBegins)
    /\ WF_app(RefreshContinues)
    /\ \A d \in Domains : WF_vars(WorkerStep(d))

FairSpec == Spec /\ Fairness

\* Every close transition completes: the allocator does not wait for ever for
\* an acknowledgement or for a running == 0 sample.
DrainsEnd == allocator.draining # {} ~> allocator.draining = {}

\* Capacity is neither withdrawn by memory nor kept for the transport.
Dispatching == pressure # "Critical" /\ ~realtime

\* A late-marked worker that passed its gate meets a closed seam before it
\* reports that it runs.
GateOvertaken == \E d \in LateMarked : domain[d].at = "Passed" /\ ~seam[d]

\* Every domain with work a user waits for gets its seam opened, whatever the
\* automatic domains and the other explicit ones do with theirs, unless
\* dispatch is paused, the work is withdrawn, or closing seams overtake
\* late-marked workers again and again.  Without that last exception it does
\* not hold of two explicit domains: an attempt adopted late sends the cursor
\* back to the domain it has just passed.
WaitersAreServed ==
    \/ []<>GateOvertaken
    \/ \A d \in UserDomains :
        domain[d].queued > 0 ~>
            \/ seam[d] \/ domain[d].queued = 0
            \/ ~Dispatching

=============================================================================
