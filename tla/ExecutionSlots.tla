---------------------------- MODULE ExecutionSlots ----------------------------
(***************************************************************************)
(* Cross-domain dispatch slots: the allocator of                           *)
(* app/execution_resource_slots.rs, the App thread that samples the heavy  *)
(* execution domains, feeds it and projects its decision on their dispatch *)
(* seams (app/execution_resource_coordination.rs, app_ui/host.rs), and the *)
(* domains themselves, each a queue in front of one worker.                *)
(*                                                                         *)
(* The App thread does one thing at a time; the domains' workers run       *)
(* between any two of its calls.  A batch of its calls is one step where   *)
(* no worker can tell: it samples all domains before it writes anything    *)
(* they read, and closing or opening one seam says nothing to the others.  *)
(* Grant times are abstracted to "the grace of this grant is over", grant  *)
(* serials to the order of `active`.  The epoch that ties acknowledgements *)
(* to a decision is left out: one thread publishes, closes and             *)
(* acknowledges, always the decision it published last.                    *)
(***************************************************************************)
EXTENDS Integers, FiniteSets, Sequences, Functions

CONSTANTS
    DomainCount,   \* EXECUTION_RESOURCE_SLOT_DOMAIN_COUNT
    External,      \* owned by the Window: Thumbnail and Waveform
    Export,        \* the Export domain
    UserDomains,   \* those whose work a user command causes
    Yielding,      \* those whose running attempt gives way to a closed seam
    LateMarked,    \* those whose worker reports itself only after the gate
    MachineSlots,  \* slots of this machine class
    Pressures,     \* memory pressures the platform reports
    QueueLimit     \* bound: work a domain may have queued

Domains == 0 .. DomainCount - 1
Internal == Domains \ External

ASSUME SlotsAssumption ==
    /\ DomainCount \in Nat \ {0}
    /\ Export \in UserDomains \cap Internal
    /\ UserDomains \subseteq Domains
    /\ External \subseteq Domains
    /\ Yielding \subseteq Domains
    /\ LateMarked \subseteq Domains
    /\ MachineSlots \in 1 .. DomainCount
    /\ Pressures \subseteq {"Nominal", "Elevated", "Critical"}
    /\ QueueLimit \in Nat \ {0}

VARIABLES
    allocator,  \* ExecutionResourceSlotAllocator; its active and draining
                \* domains are the decision last published
    demand,     \* the demand last published to the coordinator
    pressure,   \* ExecutionResourcePressure
    realtime,   \* the transport plays
    app,        \* what the App thread is in the middle of
    seam,       \* whether a domain's dispatch seam is open
    domain      \* the queue and the worker of a domain

vars == <<allocator, demand, pressure, realtime, app, seam, domain>>

Facts == [queued : BOOLEAN, running : BOOLEAN]
Idle == [at |-> "Idle", window |-> FALSE]
Doing(at, window) == [at |-> at, window |-> window]

-----------------------------------------------------------------------------
\* The order of domains.

\* successor_index
Next1(d) == IF d + 1 = DomainCount THEN 0 ELSE d + 1

\* The members of S by their keys, which all differ.
Ordered(S, key) ==
    [n \in 1 .. Cardinality(S) |->
        CHOOSE d \in S : Cardinality({e \in S : key[e] <= key[d]}) = n]

\* How far round the circle of domains d is from the cursor.
Offset(cursor, d) == IF cursor <= d THEN d - cursor ELSE d + DomainCount - cursor

\* domains_from_cursor, restricted to S.
FromCursor(cursor, S) == Ordered(S, [d \in S |-> Offset(cursor, d)])

InOrder(S) == FromCursor(0, S)

FirstOf(s, n) == SubSeq(s, 1, IF n < Len(s) THEN n ELSE Len(s))

AtLeastZero(n) == IF n < 0 THEN 0 ELSE n

-----------------------------------------------------------------------------
\* The allocator.

HasWork(facts, d) == facts[d].queued \/ facts[d].running
\* user_initiated also counts imported work that awaits publication, neither
\* queued nor running; that changes only the order of the victims below.
HasExplicitWork(facts, d) == d \in UserDomains /\ HasWork(facts, d)

Active(a) == Range(a.active)
Position(a, d) == CHOOSE i \in DOMAIN a.active : a.active[i] = d
Outside(a, d) == d \notin Active(a) /\ d \notin a.draining

\* grant, for each domain of a sequence in turn.
Grant(a, s) ==
    [a EXCEPT !.active = @ \o s,
              !.overdue = @ \ Range(s),
              !.cursor = IF s = <<>> THEN @ ELSE Next1(s[Len(s)])]

\* revoke, for each domain of a sequence in turn: whatever the observation
\* said of it, it drains.
Revoke(a, s) ==
    LET kept == Active(a) \ Range(s)
    IN [a EXCEPT !.active = Ordered(kept, [d \in kept |-> Position(a, d)]),
                 !.overdue = @ \ Range(s),
                 !.draining = @ \cup Range(s),
                 !.cursor = IF s = <<>> THEN @ ELSE Next1(s[Len(s)])]

\* finish_acknowledged_draining_domains
Finished(a, facts, fresh) ==
    LET left == {d \in a.draining :
                    d \notin a.acknowledged \/ d \notin fresh \/ facts[d].running}
    IN [a EXCEPT !.draining = left,
                 !.acknowledged = @ \cap left]

\* adopt_untracked_running_domains
Adopted(a, facts, allowed) ==
    LET untracked == {d \in Domains : facts[d].running /\ Outside(a, d)} IN
    IF allowed /\ a.draining = {}
    THEN Grant(a, InOrder(untracked))
    ELSE [a EXCEPT !.draining = @ \cup untracked]

\* The key of revoke_for_capacity: idle before running, automatic before
\* explicit, the latest grant first.
VictimKey(a, facts, d) ==
    (IF facts[d].running THEN 2 * DomainCount ELSE 0)
    + (IF HasExplicitWork(facts, d) THEN DomainCount ELSE 0)
    + Len(a.active) - Position(a, d)

\* Seeded fault: an attempt that runs keeps its grant.
FittedUnlessRunning(a, facts, capacity) ==
    LET victims == InOrder({d \in Active(a) : ~facts[d].running})
    IN Revoke(a, FirstOf(victims, AtLeastZero(Len(a.active) - capacity)))

\* revoke_for_capacity
FittedTo(a, facts, capacity) ==
    LET victims == Ordered(Active(a), [d \in Active(a) |-> VictimKey(a, facts, d)])
    IN Revoke(a, FirstOf(victims, AtLeastZero(Len(a.active) - capacity)))

\* Grants of this very update are withdrawn while anything drains.
Withheld(a, granted) ==
    IF a.draining = {} THEN a ELSE Revoke(a, InOrder(Active(a) \ granted))

\* revoke_idle_domains
WithoutIdle(a, facts) == Revoke(a, InOrder({d \in Active(a) : ~HasWork(facts, d)}))

\* One grant is given up for every waiter no free slot is left for.
GivenUpFor(a, waiters, eligible, capacity) ==
    LET free == AtLeastZero(capacity - Len(a.active))
        needed == AtLeastZero(Cardinality(waiters) - free)
    IN Revoke(a, FirstOf(FromCursor(a.cursor, eligible), needed))

\* preempt_automatic_grants_for_explicit_work
Preempted(a, facts, capacity) ==
    GivenUpFor(a,
        {d \in Domains : facts[d].queued /\ HasExplicitWork(facts, d) /\ Outside(a, d)},
        {d \in Active(a) : ~facts[d].running /\ ~HasExplicitWork(facts, d)},
        capacity)

\* Seeded fault: only a grant that was never used is rotated.
RotatedWhenStalled(a, facts, capacity, ended) ==
    GivenUpFor(a,
        {d \in Domains : facts[d].queued /\ Outside(a, d)},
        {d \in Active(a) : ~facts[d].running /\ d \in a.overdue},
        capacity)

\* rotate_completed_or_stalled_grants
Rotated(a, facts, capacity, ended) ==
    GivenUpFor(a,
        {d \in Domains : facts[d].queued /\ Outside(a, d)},
        {d \in Active(a) : d \in ended \/ (~facts[d].running /\ d \in a.overdue)},
        capacity)

\* refresh_continuing_grants
Refreshed(a, ended) == [a EXCEPT !.overdue = @ \ ended]

\* fill_available_slots: explicit work first, each from the cursor on.
Filled(a, facts, capacity) ==
    LET Fill(b, explicit) ==
            Grant(b, FirstOf(FromCursor(b.cursor,
                        {d \in Domains : /\ facts[d].queued
                                         /\ HasExplicitWork(facts, d) = explicit
                                         /\ Outside(b, d)}),
                     AtLeastZero(capacity - Len(b.active))))
    IN Fill(Fill(a, TRUE), FALSE)

\* Seeded fault: free slots are filled while others still drain.
FilledUnlessPaused(a, facts, capacity) ==
    IF capacity = 0 THEN a ELSE Filled(a, facts, capacity)

FilledAfterDrain(a, facts, capacity) ==
    IF capacity = 0 \/ a.draining # {} THEN a ELSE Filled(a, facts, capacity)

\* begin_close_transition: one more revocation voids the acknowledgements of
\* the smaller close set.
CloseBegun(a, before) ==
    IF a.draining \subseteq before THEN a ELSE [a EXCEPT !.acknowledged = {}]

\* ExecutionResourceSlotAllocator::update
Updated(a, facts, fresh, ended, capacity) ==
    LET observed == Finished(a, facts, fresh)
        fitted == FittedTo(Adopted(observed, facts, capacity > 0), facts, capacity)
        withheld == Withheld(fitted, Active(a))
        rotated == Refreshed(
                       Rotated(Preempted(WithoutIdle(withheld, facts), facts, capacity),
                               facts, capacity, ended),
                       ended)
        settled == IF capacity = 0 THEN withheld ELSE rotated
    IN CloseBegun(FilledAfterDrain(settled, facts, capacity), observed.draining)

\* Seeded fault: the Window closes its domains and does not say so.
AcknowledgedByApp(a, closed) ==
    [a EXCEPT !.acknowledged = @ \cup (closed \cap a.draining \cap Internal)]

\* acknowledge_close, for each of a set of domains.
Acknowledged(a, closed) ==
    [a EXCEPT !.acknowledged = @ \cup (closed \cap a.draining)]

-----------------------------------------------------------------------------
\* The coordinator.

\* heavy_slot_capacity
Capacity(stress, playing, facts) ==
    CASE stress = "Critical"  -> 0
      [] stress # "Critical" /\ playing -> IF HasExplicitWork(facts, Export) THEN 1 ELSE 0
      [] stress = "Elevated" /\ ~playing -> 1
      [] stress = "Nominal" /\ ~playing -> MachineSlots

\* refresh_heavy_slots, with the facts of `fresh` domains sampled just now.
RefreshedSlots(a, facts, stress, playing, fresh, ended) ==
    Updated(a, facts, fresh, ended, Capacity(stress, playing, facts))

\* A window tick samples all domains, any other refresh the App's own.
Scope(window) == IF window THEN Domains ELSE Internal

Diagnostics(d) == [queued |-> domain[d].queued > 0, running |-> domain[d].at = "Running"]

\* update_execution_resource_demand, on an allocator that is `a` by then.
UpdateDemand(a, window, stress, playing) ==
    LET sampled == [d \in Domains |->
                        IF d \in Scope(window) THEN Diagnostics(d) ELSE demand[d]]
        ended == {d \in Scope(window) : domain[d].ended}
    IN /\ demand' = sampled
       /\ pressure' = stress
       /\ realtime' = playing
       /\ allocator' = RefreshedSlots(a, sampled, stress, playing, Scope(window), ended)
       /\ domain' = [d \in Domains |-> [domain[d] EXCEPT !.ended = @ /\ d \notin ended]]
       /\ app' = Doing("Closing", window)
       /\ UNCHANGED seam

WindowTick == app = Idle /\ UpdateDemand(allocator, TRUE, pressure, realtime)

\* Something the App did, or a terminal it saw, asks for a refresh.
InternalRefresh == app = Idle /\ UpdateDemand(allocator, FALSE, pressure, realtime)

\* Play and pause refresh at once.
ToggleTransport == app = Idle /\ UpdateDemand(allocator, FALSE, pressure, ~realtime)

\* The slots recomputed from the demand last published: nothing is fresh.
Recomputed(stress) == RefreshedSlots(allocator, demand, stress, realtime, {}, {})

\* A memory observation recomputes the slots, and a refresh follows.
ObservePressure(stress, window) ==
    /\ app = Idle
    /\ UpdateDemand(Recomputed(stress), window, stress, realtime)

\* After an observation of the Viewer's device none does.
ObserveViewer ==
    /\ app = Idle
    /\ allocator' = Recomputed(pressure)
    /\ UNCHANGED <<demand, pressure, realtime, app, seam, domain>>

\* The seams of draining domains are closed, and the closes acknowledged.
CloseSeams ==
    /\ app.at = "Closing"
    /\ LET closing == allocator.draining \cap Scope(app.window) IN
       /\ seam' = [d \in Domains |-> seam[d] /\ d \notin closing]
       /\ allocator' = Acknowledged(allocator, closing)
    /\ app' = Doing("Opening", app.window)
    /\ UNCHANGED <<demand, pressure, realtime, domain>>

\* Seeded fault: a domain that drains is opened again with the others.
ApplyWhileDraining ==
    /\ app.at = "Opening"
    /\ seam' = [d \in Domains |->
                   IF d \in Scope(app.window)
                   THEN d \in Active(allocator) \cup allocator.draining ELSE seam[d]]
    /\ app' = Idle
    /\ UNCHANGED <<allocator, demand, pressure, realtime, domain>>

\* The decision is applied to every domain of the refresh.
ApplyDecision ==
    /\ app.at = "Opening"
    /\ seam' = [d \in Domains |->
                   IF d \in Scope(app.window) THEN d \in Active(allocator) ELSE seam[d]]
    /\ app' = Idle
    /\ UNCHANGED <<allocator, demand, pressure, realtime, domain>>

\* The no-start grace of a grant runs out.
GraceExpires(d) ==
    /\ d \in Active(allocator) \ allocator.overdue
    /\ allocator' = [allocator EXCEPT !.overdue = @ \cup {d}]
    /\ UNCHANGED <<demand, pressure, realtime, app, seam, domain>>

-----------------------------------------------------------------------------
\* The domains.

Works(d, at, queued, ended) ==
    /\ domain' = [domain EXCEPT ![d] = [at |-> at, queued |-> queued, ended |-> ended]]
    /\ UNCHANGED <<allocator, demand, pressure, realtime, app, seam>>

Submit(d) ==
    /\ domain[d].queued < QueueLimit
    /\ Works(d, domain[d].at, domain[d].queued + 1, domain[d].ended)

\* A queued request is cancelled or superseded: a terminal without an attempt.
Withdraw(d) ==
    /\ domain[d].queued > IF domain[d].at = "Passed" THEN 1 ELSE 0
    /\ Works(d, domain[d].at, domain[d].queued - 1, TRUE)

\* The worker takes work under the lock its seam is under.
Start(d) ==
    /\ d \notin LateMarked
    /\ domain[d].at = "Idle"
    /\ domain[d].queued > 0
    /\ seam[d]
    /\ Works(d, "Running", domain[d].queued - 1, domain[d].ended)

\* A thumbnail or waveform worker passes its gate, and only then reports that
\* it runs: until then its job counts as queued.
PassGate(d) ==
    /\ d \in LateMarked
    /\ domain[d].at = "Idle"
    /\ domain[d].queued > 0
    /\ seam[d]
    /\ Works(d, "Passed", domain[d].queued, domain[d].ended)

MarkRunning(d) ==
    /\ domain[d].at = "Passed"
    /\ Works(d, "Running", domain[d].queued - 1, domain[d].ended)

\* The running attempt gives way to a closed seam, and waits again.
Yield(d) ==
    /\ d \in Yielding
    /\ domain[d].at = "Running"
    /\ ~seam[d]
    /\ Works(d, "Idle", domain[d].queued + 1, domain[d].ended)

\* An export that publishes no longer counts as running, and cannot be stopped.
Commit ==
    /\ domain[Export].at = "Running"
    /\ Works(Export, "Committing", domain[Export].queued, domain[Export].ended)

Finish(d) ==
    /\ domain[d].at \in {"Running", "Committing"}
    /\ Works(d, "Idle", domain[d].queued, TRUE)

-----------------------------------------------------------------------------

\* The Window has applied a first decision, over empty queues.
Init ==
    /\ allocator = [active |-> <<>>, draining |-> {}, acknowledged |-> {}, overdue |-> {},
                    cursor |-> 0]
    /\ demand = [d \in Domains |-> [queued |-> FALSE, running |-> FALSE]]
    /\ pressure = "Nominal"
    /\ realtime = FALSE
    /\ app = Idle
    /\ seam = [d \in Domains |-> FALSE]
    /\ domain = [d \in Domains |-> [at |-> "Idle", queued |-> 0, ended |-> FALSE]]

AppStep == CloseSeams \/ ApplyDecision

Observation ==
    \/ InternalRefresh
    \/ ToggleTransport
    \/ ObserveViewer
    \/ \E stress \in Pressures, window \in BOOLEAN : ObservePressure(stress, window)

WorkerStep(d) == Start(d) \/ PassGate(d) \/ MarkRunning(d) \/ Yield(d) \/ Finish(d)

Next ==
    \/ WindowTick
    \/ AppStep
    \/ Observation
    \/ Commit
    \/ \E d \in Domains :
           GraceExpires(d) \/ Submit(d) \/ Withdraw(d) \/ WorkerStep(d)

Spec == Init /\ [][Next]_vars

=============================================================================
