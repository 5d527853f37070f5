# Mondrian verification project

TLA+ modules, TLC configurations and machine-checked proofs about Mondrian, the
Rust video editor of this repository. Paths below are relative to the
repository's root; `PROJECT.json` maps every definition to the lines it models.

## 1. The system

| Component | Code | State it keeps | Operations | What is hard |
|---|---|---|---|---|
| Frame Work Broker | `crates/mondrian-playback/src/work_broker.rs` | latest generation, active Playback demand, pending bindings, bounded queue, execution leases, close and lifecycle stamps | submit, bind, dequeue per lane, stop stamps, resolve, fail, abandon, three generation rotations, cancellations, expiry, close | worker threads and observers on one condition variable; completions that race rebinding; budgets under eviction; clocks that step back |
| Preview request scheduler | `crates/mondrian-app/src/app/preview_runtime/` | demand book, representation choice | decides what to submit to the broker | its answers are stale by the time they arrive |
| Preview workers | `preview_*.rs`, `owned_worker_lifecycle.rs`, thumbnail, waveform and proxy services | decode sessions | take work of a lane, decode, complete | cooperative stop, decoder locality, joins with a deadline |
| Project persistence | `crates/mondrian-app/src/app/project_persistence.rs` | session admissions, bounded queue, create-new bindings, pause ticket, completions | submit, pause, resume, retire, poll, shutdown; a worker that publishes files | a pause barrier against queued writes; ambiguous publication; panicking worker |
| Project lifecycle | `crates/mondrian-app/src/app/project_lifecycle.rs` | open project, close in progress, in-flight autosave, faults | create, open, save, autosave, close, apply completions | completions applied after the session moved on; failed handoffs |
| Project recovery | `crates/mondrian-app/src/app/project_recovery.rs` | journal of recovery points per project | publish a point, discover, reconcile, retain | which point a restart offers |
| Authoring session, history | `crates/mondrian-editor-state/src/` | document versions, undo and redo stacks, save baselines | transact, undo, redo, mark saved | dirtiness against saved versions |
| Export render queue | `crates/mondrian-export/src/queue/` | entries with status, publication and yield, dispatch flag, shutdown, the worker's handle and receipt facts | enqueue, cancel, clear history, pause dispatch, shut down, drop; a worker that takes, gates, executes and publishes | cancellation against the publication gate; one condition variable; partial publication and panics; a receipt that stays true |
| Execution resource slots | `crates/mondrian-app/src/app/execution_resource_slots.rs`, `execution_resource_coordination.rs` | grants, draining domains, acknowledgements, cursor; demand, pressure, transport; one dispatch seam per domain | refresh from Window or App, observe pressure, acknowledge, apply; domains submit, start, yield, finish | demand sampled before seams close; two refresh scopes; fairness of the rotation |
| Render cache | `crates/mondrian-render-cache/src/` | entries, bytes in use | reserve, publish, evict | eviction budget |
| Audio processor isolation | `crates/mondrian-audio/src/processor_isolation/` | plug-in process state | start, heartbeat, restart | supervisor timeouts |
| Media process supervisor | `crates/mondrian-media/src/process_supervisor.rs` | FFmpeg children | spawn, bound output, kill | operating-system I/O |
| Reference output | `crates/mondrian-reference-output/` | device session | configure, schedule, stop | vendor SDK timing |
| Core events and cancellation | `crates/mondrian-core/src/` | flags and event types | raise, observe | nothing of its own |
| Storage | `crates/mondrian-storage/` | none | atomic replacement | operating-system I/O |
| Formats, timeline, assets, effects, UI, renderer, AI, broadcast | the other crates | documents, GPU resources | data conversion and drawing | not concurrent, or not data a checker can enumerate |

All frame-producing work of a preview passes through the broker: coordinators (the
Playback engine, the preview scheduler, stills) submit requests and rotate
generations; worker threads dequeue leases; a completion pump resolves them; only
what the broker resolves as `Current` is shown. That is why it is modelled first.

All durable work of the editor passes through the persistence service: the event
loop captures snapshots and submits them, one worker thread publishes files and
recovery manifests in order, and its completions move the save baselines of
the open session. A lifecycle handler that replaces or closes the Project first puts
a barrier behind everything it has submitted. Service and lifecycle are
modelled together with the part of recovery that decides what a restart offers.

The export queue runs one durable attempt at a time. It is one of the seven heavy
domains (proxy, thumbnail, waveform, audio warm-up, media import, asset mutation, export) whose
dispatch seams the resource coordinator opens and closes so that the machine's few slots are shared:
`set_dispatch_enabled` of the queue is that seam, and the `yielded` flag of an entry is
what the coordinator reads as "does not run". The two are modelled apart. What joins
them is stated on both sides: `YieldedUsesNothing` is what the slots assume of a
domain whose attempt gave way.

The other components are in `PROJECT.json` with the reason they are left out.

## 2. The Frame Work Broker: modules and code

| Module | Content |
|---|---|
| `FrameWorkBroker` | state, one action per public method, workers and observers as threads on the condition variable, two specifications |
| `FrameWorkBrokerProperties` | type invariant, safety invariants, action properties |
| `FrameWorkBrokerSettling` | the broker whose coordinators fall silent, fairness, liveness |
| `MCFrameWorkBroker*` | request sets and symmetry for TLC |
| `FrameWorkBrokerProofs` | typing of every helper and action, `TypeCorrect`; the inductive safety invariant and the publication theorems |
| `FrameWorkBrokerAdmissionProofs` | stamps, wake-ups, the agreement of pending map, queue and leases, the order of evictions |

Each public method runs under one mutex, so it is one action, and everything it
calls before it unlocks (`refresh_in_flight_invalidations_locked`, the orphan
sweep, the notification) is part of that action. `pending`, `queue`, `inFlight`,
`latestGeneration`, `activePlaybackDemand`, `lastObservedAt` and `closedAt` are
the fields of `BrokerState`. `worker`, `wakeAt`, `observedRevision` and
`observing` are what the threads hold while they wait: a wait unlocks the
mutex, so `Park` and the wake-ups are separate actions. `clock` is what the clock
Adapter answers; it may step back, and `Now` clamps it as `observe_now_locked`
does. `resolution` is the value a completion call just returned.

Abstractions: payloads and resource estimates are dropped; a lease identity is a
slot that becomes free when the lease is gone (the code's 64-bit identities are
never reused and every method ignores one that is gone); times are small
naturals; counters kept for diagnostics and the dispatch-wait evidence are left
out. Work whose completion arrives without a lease (`ResolveUnleased`) is kept,
because the code accepts it.

## 3. Project persistence and lifecycle: modules and code

| Module | Content |
|---|---|
| `ProjectPersistence` | the service, its worker thread and the disk: the methods of `ProjectPersistenceService` as operators, the worker's steps as actions |
| `ProjectLifecycle` | the handlers of the main thread composed from those operators, the user, other programs, the specifications |
| `ProjectLifecycleProperties` | type invariant, safety, action and liveness properties |
| `MCProjectLifecycle` | symmetry for TLC |
| `ProjectLifecycleProofs` | the inductive invariant of service, worker and handlers; types, counters, quiescence |
| `ProjectRevisionProofs` | the order of reservations and versions; document revisions only increase |
| `ProjectDestinationProofs` | the order of requests, the paths create lineages own, what is saved; create-only saves, applied saves, save-then-close |
| `ProjectRecoveryProofs` | what autosaves have made durable and what takes it away; autosaved work is preserved |

The main thread and the worker share a FIFO channel of requests and barriers, two
counters, a channel of completions and one acknowledgement for each barrier. The
service has no thread of its own, so a handler calls its operators inside its own
action, and a handler that never waits is one action (`RequestSave`,
`RequestAutosave`, `PollCompletion`). A handler that blocks the main thread is
split exactly where it waits: `task` says which handler is running, at which stage
and with which pause token, and while it is set no other handler starts.

| Code | Model |
|---|---|
| `pause_and_quiesce` of open, recover, create | `BeginHandoff`, then `HandoffQuiesced` or `HandoffTimesOut`, `Drain` |
| the rest of those handlers | `InstallOpened`, `InstallRecovered`, `CreateSubmits`, `CreateAppliesOther`, `InstallCreated`, and `CreateFails`, `HandoffFails` for every early return after the pause; `BeginDiscard` .. `EndDiscard` retire a session that was never installed |
| `begin_project_close_with_requirement`, `poll_project_close` | `BeginClose`, `PollCloseQuiesced`, `Drain`, `FinishClose` or `RejectClose`, `PollCloseFaults`; the ticket is `close`, so edits stop but the event loop goes on |
| `force_close_project_after_fault` | `ForceClose` |
| `persistence_worker` | `TakeRequest`, then `PublishManual`, `RejectManual` or `PublishAutosave`; `ServeBarrier`; `WorkerPanics` |

`admission`, `nextRequestId`, `queued`, `pending` are fields of the service;
`createBindings` and `lastSuccessful` are the worker's local maps; `authoring`,
`destination`, `applied`, `autosaveInFlight`, `close` and `fault` are fields of
`AppState`. `files` and `recovery` are what the disk holds. A publication ends in one of
the outcomes the archive seam reports: nothing published, durable, visible
without proof of durability, or unknown, in which case the file may hold either content.

Abstractions: the author state of a snapshot (author generation, Asset Library
revision) is one version, fresh at every edit. A file holds who wrote it, the
version and the document revision. Archive bytes, hashes, timestamps and the
library generations are left out. Of the runtime leases only `TargetFree` is
kept: a path another open Project or a queued request holds is refused. An error
of the code that depends on nothing modelled (a path that can not be examined, an
archive that does not parse) is an alternative the action may always take.

## 4. The export queue: modules and code

| Module | Content |
|---|---|
| `ExportAttempts` | the abstract specification: what became of each submission, which cancellations were accepted, which files were named |
| `RenderQueue` | the queue: callers, shutdown and the worker's handle, the worker loop, the gate, the executor reduced to what the queue and the disk see |
| `RenderQueueProperties` | type invariant, safety, the refinement mapping `AttemptOf`, liveness |
| `MCRenderQueue` | submissions, outputs and policies for TLC |
| `RenderQueueProofs` | the inductive invariant, the refinement, receipts and wake-ups |

A method holds the mutex from its first read to its last write, so it is one action.
`enqueue` asks the file system about the route before it locks: `InspectRoute`, then
`Admit` or `RejectLocked`. `jobs` is `ExportQueueState.jobs` by submission identity
(a `RenderJob` is consumed by `enqueue`), with the admission generation that orders
them. `worker` is the thread: where it stands, whose attempt it holds, and the outcome
it carries to `publish_terminal`. `owner` is the `RenderQueue` value: serving, joining in
`shutdown_until`, retired, dropped; `receipt` is the last `all_resources_released` it
was told. `named` and `durable` are the submissions whose bytes got their final name
and whose name is proven, `vacant` the routes without a file, which other programs change.

`publish_terminal` reports on the entry while the executor's result was decided much
earlier: `Verdict` is its table. A publication is `GateOpens` at Publishing, which
commits under the lock; `PlaceOutput`, the rename or link; and `ConfirmDurability`, with
a failure or a panic possible after each. `CloseExecution` is the audio source's closure,
which turns a cancellation into a failure when the source is not released.

Left out: the payload of a pending entry (always there), counters and revision tokens,
`ExportExecutionResourcePolicy`. Rendering, encoding, packaging and
validating are one phase, since the queue tells none of them apart.

The refinement. `Attempts == INSTANCE ExportAttempts WITH attempt <- ...` maps an entry
to what its submitter may know: `Running` and `Cancelling` are both "Executing" until
the entry commits, an entry trimmed from the history is "Forgotten". The contract says
what no single method shows: one attempt at a time, two in flight never share a route, an
accepted cancellation never commits, only a committed attempt names its file and a
create-only one never replaces, and each verdict agrees with what happened to the name.

## 5. The dispatch slots: modules and code

| Module | Content |
|---|---|
| `ExecutionSlots` | the allocator as operators on a record, the App thread's refreshes, the domains |
| `ExecutionSlotsProperties` | types, seams against grants, capacity, the fairness and the two liveness properties |
| `MCExecutionSlots` | the instance |
| `ExecutionSlotsProofs` | types, seams against grants, capacity |

`Updated` is `ExecutionResourceSlotAllocator::update`, one operator per private method
in the order the code calls them. Its three orders (from the cursor on, by seniority, and
victims by protection) are one operator `Ordered(S, key)` with `Offset`, `Position` and
`VictimKey` as keys. A refresh is three steps of the App thread: sample
and update (`WindowTick`, `InternalRefresh`, `ToggleTransport`, `ObservePressure`), `CloseSeams`
with the acknowledgements, `ApplyDecision`. Between them workers start and end. Within
one of them they may too, in the code; a batch is still one step because nothing a worker
does depends on two seams, so each of its moves commutes to one side of the batch, and
sampling one domain earlier than another is the same as its worker having moved later.

`seam[d]` is the domain's own dispatch flag. Two kinds of start are told apart. Export,
proxy and the audio warm-up start an attempt under the lock their seam is under
(`Start`); thumbnail and waveform workers pass their gate and only then mark themselves
running (`PassGate`, `MarkRunning`; `analysis.rs:51-52` of either service). A committing
export counts as not running (`diagnostics`), so `Commit` takes it out of the allocator's sight; a
yielded one counts as queued again. Window-owned domains (`External`) are sampled, closed
and opened only by a window tick, so their terminal generations wait (`ended`).

Abstractions: a grant's time is the fact that its grace is over; the serial of a grant
is its place in `active`; the epoch is left out, since one thread publishes a
decision, closes and acknowledges before it publishes the next. Left out: the second close
the audio warm-up performs at play and pause, proxy parallelism, and that a proxy queue
may hold both automatic and explicit work (a domain is one or the other for a run). Media import and
asset mutation also count work that only awaits publication as `user_initiated`; `HasExplicitWork` asks for
queued or running work. The difference shows in the order of victims of `revoke_for_capacity` alone:
every other reader asks for waiting work as well, or comes after idle domains were revoked.

## 6. Runs

| Run | What it asks | Bounds, and why they suffice |
|---|---|---|
| `admission` | do the pending map, the queue and the leases stay one consistent admission under pressure, and are victims taken in the documented order? | three keys for two pending slots, one queue slot and two leases: every eviction kind, a fallback behind a running lease and a full queue all occur. `SpecWithoutFailure`, because of the first finding |
| `authority` | is a completion shown only if it satisfies the exact latest binding and its lease then stands unpreempted, in authority and within its latest budget; does a lease keep its identity, completion stamp and preemption? | one key with two demands, Still work of the next generation, two generations, two leases; clock 0..1 with backward steps, the deadline and the budgets inside that range: the smallest instance where two leases of one key race each other, a rotation and an expiry |
| `workers` | does no worker sleep over work, does close reach everybody, does admitted work settle? | the two production lanes, a pinned and an unpinned key, an observer, one lifecycle interrupt; no clock, because these properties do not need one |
| `failure_overflow` | a comment's budget that the code does not keep | three keys, one pending slot, two queue slots |
| `lifecycle` | do the counters, quiescence, document revisions, create-only targets, applied saves, recoverability and save-then-close survive every interleaving of handlers, worker, failures and other programs? | two successive sessions, two paths of which one exists at the start, a queue of one, two requests, two edits, one resumption: a save behind a running autosave, a full queue, a Save As over a path that appeared meanwhile, a retry of an unproven publication, a completion for a session that is gone |
| `lifecycle_settling` | is the autosave slot freed, and does every close end? | one session, two requests, a queue of two; the worker may panic and the barrier may time out |
| `failed_handoff` | a comment and a document that the code does not keep | the smallest instance that shows it |
| `reopened_copy` | a glossary and a comment that the code does not keep | three requests, for the path takes a Save As, a save and an autosave; `Uneventful` leaves only behaviours where nothing fails and no other program writes |
| `export_queue` | are verdicts, cancellations, yields and receipts true, is no wake-up lost, and does the queue implement its contract? | two submissions of one output, one create-only, room for both and a history of one: they compete for the route, one waits behind the other, one is trimmed while the worker holds the other |
| `export_queue_settling` | do cancelled attempts end, does shutdown end the worker, is a pending attempt taken? | two submissions of two outputs, room for one |
| `resource_slots` | do open seams follow grants, do atomic starts fit the machine, does every drain end, are several explicit domains served in turn? | three domains for one slot: one automatic, owned by the Window, that marks itself late, and two explicit ones, one queued request each; Nominal memory and a transport that starts and stops, so capacity is 0 and 1 |
| `slot_overlap` | a comment about handoffs that the code does not keep | the same instance with one explicit domain |

The export queue's runs bound nothing but the number of submissions and the two capacities, which
are the code's constants made small. Of the slots `QueueLimit` bounds what a domain has
queued; one request is enough, because the allocator reads only whether there is any. Memory stays
Nominal: Elevated and Critical act through the same capacity as the transport, 1 and 0.

The lifecycle's counters are bounded by `MaxRequests` (requests admitted),
`MaxVersion` (edits) and `MaxGeneration` (times a session is resumed). Two requests
let every pair of neighbours of the FIFO meet; that longer queues
bring nothing new is what the theorems of section 7 show for each of the invariants
and action properties. Sessions are symmetric in `lifecycle`, which states no liveness.
Its deadlock check is off because the user may do nothing and the bounds end.

`MaxGeneration`, `MaxRevision` and `MaxTime` of the broker bound counters that the code never
bounds; `ClockAdvances`, the rotations and `InterruptWorkerWaits` carry them as
guards. Symmetry is used on keys and leases only in runs without liveness.
Deadlock is not checked: a broker that is closed, with every worker gone, has
nothing left to do.

Every property has a mutant: an operator with one plausible fault (a missing
sweep, a clock that is not clamped, a budget compared with `<` for `<=`, a lost
notification) that makes TLC find the property violated under the same bounds.

### Fairness

`workers` assumes `[]<>WorkerMoves(lane)`: a worker thread that is awake
eventually takes work, parks or leaves, which is its receive loop; and
`[]<>LeaseEnds(l)`: an execution eventually returns and the completion pump
resolves, fails or abandons it. Parked workers get no fairness: they move only
when notified, which is what the run is about. Timed wake-ups get none either.
The fairness is stated on states because the small number of lease slots of an instance could
disable a dequeue that the code would make.

`lifecycle_settling` assumes weak fairness of the worker's step while it lives, of
`PollCompletion` and the close polls, which the event loop runs at every wake-up
(every 16 ms while a ticket is pending), and of the handler that is
running, which is sequential code. The user, the timers, the panic and the other programs get none:
a timeout may always happen instead of the acknowledgement.

`export_queue_settling` assumes weak fairness of the worker's step: an executor reaches its
next gate, fails or returns, which is what its code does unless the operating system hangs. A
sleeping or parked worker has no step, so only a notification moves it. Callers, the
coordinator that pauses dispatch and the owner get none. What the owner does after it
began the shutdown changes nothing the worker reads, so it is left out of that
specification (`SettlingNext`).

`resource_slots` assumes strong fairness of a window tick, because the Window includes the
coordinator's one-second deadline in its `WaitUntil`
(`docs/architecture/execution-resource-coordination.md:192-197`) while App refreshes may come in between;
weak fairness of the rest of a refresh, which is sequential code; and weak fairness of each
domain's worker, whose gate is polled and whose attempts end. Submissions, withdrawals,
transport, memory and the grace get none.

### What the runs found

Shown by a run:

1. `failure_overflow`: `fail_execution` takes the binding of a failed lease and leaves a
   fallback of the same key in the queue. Evicting that orphan is later counted as
   freeing a pending slot, so the pending map exceeds `max_pending`.
2. `failed_handoff`: `begin_project_session_handoff` returns the error of a barrier that
   timed out with the session poisoned and keeps no `ProjectCloseFault`. The Project stays
   open for edits, while every save, autosave, close and forced close is refused. The
   comments and `docs/architecture/persistence-and-recovery.md:192` say it is frozen.
3. `slot_overlap`: a thumbnail or waveform worker that passed its gate is not yet marked
   running when its seam is closed, acknowledged and sampled again, so its domain is retired and
   another one opened; both then execute on a machine with one slot.
4. `reopened_copy`: `publish_recovery_point` keeps the canonical file an existing manifest names, and
   opening a Project does not rebind it. After a Save As to a copy, a session that opens the
   original again autosaves into a manifest that names the copy. Discovery compares
   the points with the copy's document revision, which is higher, and hides them; a point that did pass would
   be recovered with the copy's path as its canonical file. Nothing failed on the way.

Seen on counterexamples of earlier instances or while modelling, no longer run:

* A NonPlayback worker that parks before the Playback worker dequeues keeps its outer
  timeout: creating the lease that gives it a failover deadline notifies nobody.
* `cancel_key` on a key without binding stamps its running lease invalidated and notifies
  nobody, so a parked observer sleeps until its timeout.
* A lease detached by stalled-demand expiration regains authority when its key is
  submitted again for the next demand of the same generation, and its completion is then shown as Current:
  `restore_same_generation_playback_demand_binding_locked` tells it from a lease that a demand change
  detached by the demand identity alone, which differs in both cases once the next demand is active. The
  comments at `work_broker.rs:435` and `:1977` and `docs/architecture/playback-engine.md:1662` exclude
  it. `OnlyAuthorityIsShown` therefore speaks of the instant of the resolution and not of what was lost before.
* The worker raises `last_successful_manual_revision` only for a durable manual save. After
  a save that is visible without proof of durability, later autosaves, though newer and durable, carry
  a lower revision than the file and discovery hides them; a late save of a force-closed session does the
  same to its successor. `NewerWorkIsRecoverable` therefore speaks of the states where session and worker
  know the revision of the file the manifest names (`ManifestIsCurrent`), and `AutosaveIsOffered`, which
  `reopened_copy` refutes, of those where they know the revision of the open session's own file (`LedgerIsCurrent`).
* While the transport plays, the comment in `heavy_slot_capacity` and the coordination document
  (lines 532-536) give the one slot to a user's Export. The allocator is not told: the
  export's demand opens a slot that any waiting explicit domain may take or an automatic incumbent keeps.
* `WaitersAreServed` does not hold without its first disjunct. An attempt that passed its gate before the
  seam was closed, and is seen running only after its slot went to an explicit domain, is adopted, and that
  domain's seam is revoked before it started. Both revocations move the round-robin cursor, which ends where it was: the
  same explicit domain is granted again, and a second one waits for as long as the race repeats, without any grace
  running out. With one explicit domain, or several and no late marking, each is served without that exception
  (both were checked). `docs/architecture/execution-resource-coordination.md:151-153` makes no exception.
* Terminal history is trimmed by admission, so a job admitted first and ended last leaves at
  once when the history is full. After a worker panic, pending jobs stay pending until cancelled or shut down.

## 7. Proofs

Assumptions: the four named `ASSUME`s of `FrameWorkBroker` (positive budgets,
natural bounds, `None` outside the values it is compared with, finite keys and
leases, requests of the right type); `PersistenceAssumption`, `NoneAssumption`,
`LifecycleAssumption`, `NoManifestAssumption`, `NoDestinationAssumption` and `NoSessionAssumption` of the
lifecycle (a positive queue capacity, natural bounds, `None` neither a session identity, a path, a request,
a content, a binding state, a manifest, a destination nor an open session: each is an `Option` in the code); and
`QueueAssumption` of `RenderQueue` (routes and policies of
the right type, finitely many submissions, positive capacities). TLC evaluates them in every run.

Of the broker:

* `TypeCorrect`: `Spec => []TypeOK` for any keys, requests, lanes and budgets, one
  lemma per helper (`KeepAt` on queues, `Refreshed` on leases, the eviction
  plans) and one step per action.
* `QueueBudgetHolds`, `LatestWins`, `CloseIsSilent`: none of them is inductive
  alone. A submission pushes only if the broker is open and the request is not
  older than the latest generation; whether the queue has room was decided on a
  plan computed earlier. The invariant `SafetyInvariant` joins `TypeOK`,
  `QueueWithinBudget`, `BindingsAreLatest` and `ClosedBrokerIsSilent`. Its proof
  sorts the actions: those that only *retain* parts of the pending map and the queue
  (most of them), the *rotations*, which raise the generation and drop what
  is older, and the *admissions*, where the eviction plan is shown to leave room.
* `PublicationAuthority` and `ShownWorkHasAuthority`: the action properties, from
  the same invariant. Only `ResolveExecution` and `ResolveUnleased` produce a
  `Current` resolution, and both look the binding up again under the same lock. The second speaks of the
  instant of the resolution: authority and budget may have been lost before and restored by a rebinding
  (section 6).
* `LeaseEvidenceHolds`: identity and completion stamp of a live lease never change and a preemption is never
  withdrawn or postponed (invalidation, deadlines and detachment may be: a rebinding resets them). Each helper that rewrites leases
  `Sticks` for every lease it keeps; a slot is reused only after its lease was resolved.
* `NoWakeupIsLost`: relative to the types, for work of a lane's own class or affinity, interrupts and close; what a lane
  may only borrow or take over later is outside the statement. For each lane, an action after which new work
  is there for a parked worker also notifies it; every other action only takes work away.
* `PendingMirrorsQueue`, `BindingsHaveWork`, `PendingBudgetHolds`, `EvictionsRespectPriority`: under
  `SpecWithoutFailure`, since `fail_execution` leaves queued payloads without their binding (the
  first finding). They need one invariant, `Agreement`: a queued entry carries its key's pending binding, a binding has a queued payload or a lease (the lease in authority, unless it was
  detached), and no key is queued twice. An eviction of queued work therefore frees exactly the pending slots its plan
  counted, which is the budget, and a victim's priority in the queue is the one its pending
  entry was ranked by, which is the order. `PendingBinding` must not contain `None`, and an `ASSUME` says so.

Of the lifecycle, for any sessions, paths, queue capacity and bounds:

* `LifecycleInvariance`: `SafetySpec => []LifecycleInv`. That a paused session is idle is not
  inductive: it follows from the place of the barrier in the channel. `BarriersInOrder` says that
  nothing of a session stands behind a barrier of its current generation and that the session neither
  submits nor is paused yet, `AcknowledgedAreIdle` that an answered barrier leaves nothing of
  the session outstanding, `OutstandingAdmitted` and `FinishDrained` what completing the pause
  and the drain conclude from that. `Shaped` is what a handler carries while it waits: which session it
  paused, with a generation left to resume it in, and during a creation a second session.
  One lemma per operation of the service shows what it keeps (`SubmitService`,
  `BeginPauseService`, `TakeService`, ...); one lemma per handler cites the service's and shows the main
  thread's half.
* `LifecycleTypeCorrect`, `CountersAreTrue`, `QuiescedAreIdle` follow from it. The counters need the
  cardinality of the requests in a channel that grows and shrinks (`WorkAppend`, `WorkTail`).
* `RevisionsOnlyIncrease`: `SafetySpec => ManualRevisionsIncrease`, relative to `LifecycleInv`.
  `ReservationInv` orders the saves of a session from their reservation to the disk: those in
  the channel among themselves, the running one below them, the disk below both, all of them below
  `lastReserved`. `VersionInv` says that no version is newer than the last edit, that the open
  session and a candidate are the newest state of their sessions, and that a session that never
  existed has written nothing. Steps that submit nothing are covered by
  `SilentKeeps` and `QuietKeeps`; a submission reserves above everything of its session (`SubmitReserves`).
* `AppliedIsOnDisk`, `CreateNewReplacesOnlyItsOwn`, `CloseKeepsTheNewest`: the theorems about what is on disk.
  They share `DestinationInv`, relative to the two invariants above. Its parts:
  `QueueOrdered` (identities are the order of the FIFO and the worker has the smallest), `OrderInv` (behind a request
  of a live session stand only requests of that session, so a candidate's save is alone of its session),
  `LineageInv` (along the FIFO a session's lineages only go up, one lineage has one path and one publication, and the
  worker's map knows no lineage beyond the one the session reached), `OwnerInv` (an established lineage still has its
  content at its path, and no save before its last one goes there from elsewhere), `SavedInv` (a successful completion that
  nobody has received yet is `Secured`: its path holds that version or a newer one, and every save still on its way
  there is of the same session; so is the baseline of the open session once it is applied) and
  `RequiredCovered` (the save a close waits for has the open session's version, since edits stop with the
  ticket). What is secured stays so, because behind a save of a live session stand only saves of that
  session, and those are ordered by version (`DoneOrdered`): nothing foreign and nothing older follows. The steps are sorted by what they do to requests:
  most submit and receive nothing (`QuietStep`), the worker completes one (`CompletesStep`), the event loop or a
  handler applies one, a submission appends one, a handler installs a session.
* `AutosavedWorkIsPreserved`: `SafetySpec => []NewerWorkIsRecoverable`. The property is about three things
  that different steps change: the session's baselines, the files and the manifest. `RecoveryInv`
  says of every version the open session has autosaved, or will have when a completion arrives, that it is `Kept`:
  `Secured` in a file, or covered by a point of the session's manifest that neither the session's revision nor
  the worker's ledger has passed (`Offered`). The rest of it is what keeps that so. `LedgerCounted`: the ledger
  is below every save still to come and counts every successful save nobody has received. `RequestsFollow`
  and `VersionsFollow`: the session's requests go to its own manifest, and versions never fall along the FIFO, so
  the point an autosave leaves is the newest when retention drops the others. `OwnAutosaves`: once a
  session has autosaved, no autosave of another session is on its way, so nothing else rewrites the manifest. `BaselineKnown`: the baseline
  is on disk, or older than every autosave; from it follows that an open session that is clean is on disk
  (`CleanIsOnDisk`), which is the condition under which reconciliation withdraws points
  (`ReconciledKeeps`). A manual save that passes the points' revision has itself secured a version at least as new
  (`ManualRecovery`). Three frames carry it through everything else: steps that leave the
  records alone (`FrameRecovery`), the worker's (`WorkerRecovery`), and the receipt of completions (`ApplyRecovery`).

Of the export queue:

* `Invariance`: `Spec => []QueueInv`, for any submissions, routes and capacities. None of the invariants
  is inductive alone: that an accepted cancellation holds needs that its entry is
  cancelled or ended, that an entry which is not committing has no name on disk, and that the
  worker holds the running entry. `QueueInv` joins these facts with the types. The steps
  are sorted by what they touch: callers that leave the held entry's place alone
  (`CallerKeepsInv`), steps of the executor on the one entry it holds
  (`ExecutorKeepsInv`), and admission, taking and terminal publication on their own.
* `WorkerOwnsAttempt`, `VerdictsAreTrue`, `CancellationsAreFinal`, `OutputsAreExclusive`,
  `YieldIsTrue`, `QueueTypeCorrect` follow from it.
* `QueueKeepsContract`: `Spec => ImplementsAttempts`. `InitRefines` and `StepRefines`, which maps each
  action to a step of the contract or a stutter; shutdown, trimming and terminal
  publication are `Settle`, because they may end or forget several attempts at once.
* `NoWakeupIsLost`: `NoMissedWakeup` relative to `QueueInv`: every action that changes what the
  worker waits for also notifies it.
* `ReceiptsAreTrue`: with `ReceiptInv`, which says that a stamped worker does nothing more and that
  after shutdown nothing becomes active (`ActiveOnlyByAdmission`).

Of the slots, for any domains, queue limit and machine:

* `SlotsTypeCorrect` and `OpenSeamsAreCounted`: `Spec => []SlotsTypeOK` and `[]SeamsFollowGrants`. What
  matters of an update is little: every stage that revokes is `Narrowed` (grants become drains, a
  drain ends only for a domain reported idle), every stage that opens is `Widened` (only idle domains
  that drain nowhere, and only below capacity), and `Updates` is what the seven
  stages make together. The order in which a stage visits domains never matters to
  these, so nothing has to be known of the sorted sequences except their members (`Ordered` is a
  choice, and its members are those of the set).
* `StartsFitTheMachine`: `Spec => AtomicStartsFit`. The invariant says that a domain whose
  attempts start under its seam, and which runs or was sampled running, is granted or drains, and
  that such domains are at most the machine's slots, also between the sample, the closing of
  seams and the opening. A seam opens only for what the decision grants, and a domain at work is
  never retired, because the sample that would retire it saw it working. Late-marked domains are outside this theorem and
  must be: `slot_overlap` refutes the statement for them.

Every invariant and every action property a passing run checks is stated by a theorem. Model-checked
only are the liveness properties: `CloseStopsEveryWorker` and `AdmittedWorkSettles` of the broker, `AutosaveRetries`
and `CloseSettles` of the lifecycle, `CancellationsEnd`, `ShutdownEndsWorker` and `PendingIsTaken` of the export
queue, `DrainsEnd` and `WaitersAreServed` of the slots. Liveness under fairness and `ENABLED`
are out of the prover's reach, and so is induction over recursive data. The runs that end in a
counterexample have nothing to prove.

## 8. Not modelled, and why

* Of the broker: payload types, telemetry, metric snapshots.
* Of persistence: `Shutdown` and the endurance controls (nothing is submitted after
  the one; the others only measure), the synchronous save helpers that Headless
  callers and tests use, library generations and the runtime leases' ownership records.
* A crash of the process is not an action: `Recoverable` is what a restart would
  be offered, and `NewerWorkIsRecoverable` asks for it in every state, which is every
  instant a crash can happen. A crash that loses unproven data is not modelled.
* Of recovery: hashing and validation of archives, owner metadata, staging
  cleanup; they are sequential file checks whose results the discovery filter uses.
* Of the export: everything between two gates (rendering, encoding, packaging, validation, quality
  control), which is computation on frames and files; the endurance counters.
* Of the resource coordination: the memory probe's thread and its hysteresis, the budgets of caches and
  GPU, the audio warm-up's own scheduling.
* Undo/redo, render cache, request scheduler, audio isolation: candidates, below.
* Formats, timeline arithmetic, renderer, UI, reference output and platform
  adapters: data conversion, drawing, or devices whose behaviour the source does not define.

## 9. Plan

1. `RenderCache`: reservation, publication and eviction (`crates/mondrian-render-cache/src/service.rs`, `store.rs`).
2. The preview request scheduler as a client of the broker, and `FramePublication`: what a
   preview promises its viewer, with both shown to implement it.
3. `ProjectRecovery`: manifests, retention and discovery with crashes between their file
   operations, refined by what `ProjectPersistence` uses of it.
4. `AuthoringHistory`: undo and redo against a reference definition.
