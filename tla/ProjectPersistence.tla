-------------------------- MODULE ProjectPersistence --------------------------
(***************************************************************************)
(* The project persistence service of                                      *)
(* crates/mondrian-app/src/app/project_persistence.rs, its single worker   *)
(* thread, and the disk they share: the canonical Project files and the    *)
(* recovery manifests of project_recovery.rs.                              *)
(*                                                                         *)
(* The service has no thread of its own: its methods run on the            *)
(* application's main thread and are operators here, which ProjectLifecycle*)
(* composes into the handlers that call them.  The worker's steps are      *)
(* actions.  The two communicate through a FIFO channel of requests and    *)
(* barriers, two counters, a channel of completions and one acknowledgement*)
(* per barrier.                                                            *)
(*                                                                         *)
(* Abstractions.  The author state of a snapshot (author generation and    *)
(* Asset Library revision) is one version, fresh at every edit.  A file    *)
(* holds who wrote it, its version and its document revision.  The         *)
(* library and the archive bytes are left out, and of the runtime lease    *)
(* only TargetFree is kept: what else may hold a target (a retired library *)
(* generation, another process) makes a call fail, as any call may.  A     *)
(* failure inside the worker is the outcome of the publication it leads to.*)
(***************************************************************************)
EXTENDS Integers, Sequences, FiniteSets

CONSTANTS
    Sessions,        \* authoring-session identities
    FirstProject,    \* the Project that exists before the application starts
    Files,           \* canonical Project paths
    QueueCapacity,   \* PERSISTENCE_QUEUE_CAPACITY
    MaxRequests,     \* bound: requests admitted
    MaxVersion,      \* bound: author versions
    None             \* Option::None

ASSUME PersistenceAssumption ==
    /\ QueueCapacity \in Nat \ {0}
    /\ MaxRequests \in Nat
    /\ MaxVersion \in Nat
    /\ None \notin Nat \cup Sessions \cup {FirstProject} \cup Files

VARIABLES
    admission,        \* session_admission, Open for a session never seen
    nextRequestId,    \* next_request_id
    queued,           \* requests waiting in the channel, as counted
    pending,          \* requests admitted and not completed, as counted
    channel,          \* worker_tx: requests and barriers, oldest first
    acknowledged,     \* barrier acknowledgements nobody has received yet
    completions,      \* completion_rx
    workerLive,       \* FALSE once the worker thread has panicked
    running,          \* the request the worker executes, or None
    createBindings,   \* create_bindings of the worker
    lastSuccessful,   \* last_successful_manual_revision of the worker
    files,            \* what each canonical path names
    recovery          \* the recovery manifest of each runtime root

clientVars == <<admission, nextRequestId>>
queueVars == <<queued, pending, channel>>
workerVars == <<workerLive, running, createBindings, lastSuccessful>>
diskVars == <<files, recovery>>
persistenceVars ==
    <<clientVars, queueVars, acknowledged, completions, workerVars, diskVars>>

Option(S) == S \cup {None}
Projects == Sessions \cup {FirstProject}  \* a session names what it creates
Phases == {"Open", "Pausing", "Paused", "Retired", "Poisoned"}
Publications == {"CreateNew", "ReplaceExisting"}
BindingStates == {"Established", "Poisoned"}
RequestIds == 1 .. MaxRequests
Versions == 0 .. MaxVersion

RequestRecord ==
    [id : RequestIds, session : Sessions, generation : Nat,
     kind : {"Manual", "Autosave"}, project : Projects, root : Files,
     version : Versions, file : Files, lineage : Option(Nat),
     publication : Publications, revision : Nat]

Barrier == [kind : {"Barrier"}, session : Sessions, generation : Nat]

Completion == [request : RequestRecord, ok : BOOLEAN, revision : Nat]

Content ==
    [session : Option(Sessions), lineage : Option(Nat),
     project : Option(Projects), version : Versions, revision : Nat]

ASSUME NoneAssumption == None \notin RequestRecord \cup Content \cup BindingStates

Manifest ==
    [file : Files, points : SUBSET [version : Versions, revision : Nat]]

ASSUME NoManifestAssumption == None \notin Manifest

-----------------------------------------------------------------------------
(* The service, on the main thread.                                        *)

\* The requests the worker has not completed.
Outstanding ==
    {channel[i] : i \in {j \in DOMAIN channel : channel[j].kind # "Barrier"}}
    \cup ({running} \ {None})

\* retain_publication_target: the runtime lease of another Project holds the
\* target as long as a request of it is outstanding.
TargetFree(file, project) ==
    \A r \in Outstanding : r.file = file => r.project = project

\* The document revision a manual save reserves before it is queued.
\* Seeded fault: reserved above the snapshot only.
ReservedAboveSnapshot(s, documentRevision) == documentRevision + 1

ReservedRevision(s, documentRevision) ==
    LET last == admission[s].lastReserved IN
    IF last # None /\ last > documentRevision THEN last + 1
    ELSE documentRevision + 1

\* submit(..) is Ok
CanSubmit(s) ==
    /\ admission[s].phase = "Open"
    /\ queued < QueueCapacity
    /\ workerLive
    /\ nextRequestId <= MaxRequests

\* submit: the revision is reserved, the slot counted, the request sent.
Submit(r) ==
    /\ nextRequestId' = nextRequestId + 1
    /\ queued' = queued + 1
    /\ pending' = pending + 1
    /\ channel' = Append(channel, r)
    /\ admission' = IF r.kind = "Manual"
                    THEN [admission EXCEPT ![r.session].lastReserved = r.revision]
                    ELSE admission
    /\ UNCHANGED <<acknowledged, completions, workerVars, diskVars>>

ManualRequest(s, project, root, version, documentRevision, destination) ==
    [id |-> nextRequestId, session |-> s, generation |-> admission[s].generation,
     kind |-> "Manual", project |-> project, root |-> root, version |-> version,
     file |-> destination.file, lineage |-> destination.revision,
     publication |-> destination.publication,
     revision |-> ReservedRevision(s, documentRevision)]

AutosaveRequest(s, project, root, version, documentRevision, locator) ==
    [id |-> nextRequestId, session |-> s, generation |-> admission[s].generation,
     kind |-> "Autosave", project |-> project, root |-> root, version |-> version,
     file |-> locator, lineage |-> None, publication |-> "CreateNew",
     revision |-> documentRevision]

\* begin_pause_and_quiesce: admission closes before the barrier is sent; a
\* worker that is gone poisons the session at once.
BeginPause(s) ==
    /\ admission' = [admission EXCEPT ![s].phase =
                        IF workerLive THEN "Pausing" ELSE "Poisoned"]
    /\ channel' = IF workerLive
                  THEN Append(channel, [kind |-> "Barrier", session |-> s,
                                        generation |-> admission[s].generation])
                  ELSE channel
    /\ UNCHANGED <<nextRequestId, queued, pending, acknowledged, completions,
                   workerVars, diskVars>>

PauseAcknowledged(s) == <<s, admission[s].generation>> \in acknowledged

\* complete_pause
CompletePause(s) ==
    /\ admission[s].phase = "Pausing"
    /\ PauseAcknowledged(s)
    /\ admission' = [admission EXCEPT ![s].phase = "Paused"]
    /\ acknowledged' = acknowledged \ {<<s, admission[s].generation>>}
    /\ UNCHANGED <<nextRequestId, queueVars, completions, workerVars, diskVars>>

\* poison_pausing_session: the wait timed out or the worker is gone.
PoisonPause(s) ==
    /\ admission[s].phase = "Pausing"
    /\ ~PauseAcknowledged(s)
    /\ admission' = [admission EXCEPT ![s].phase = "Poisoned"]
    /\ UNCHANGED <<nextRequestId, queueVars, acknowledged, completions,
                   workerVars, diskVars>>

\* What admission becomes when the session of a handoff is resumed or
\* retired; a handoff that found no session open paused nothing.
Resumed(adm, s) ==
    IF s = None THEN adm
    ELSE [adm EXCEPT ![s].phase = "Open", ![s].generation = @ + 1]

Retired(adm, s) ==
    IF s = None THEN adm ELSE [adm EXCEPT ![s].phase = "Retired"]

\* resume, retire and abandon_session touch nothing but admission.
OnlyAdmission(new) ==
    /\ admission' = new
    /\ UNCHANGED <<nextRequestId, queueVars, acknowledged, completions,
                   workerVars, diskVars>>

\* accepts_completion
AcceptsCompletion(c) ==
    LET a == admission[c.request.session] IN
    /\ a.generation = c.request.generation
    /\ a.phase \in {"Open", "Pausing", "Paused"}

-----------------------------------------------------------------------------
(* The worker: persistence_worker.                                         *)

\* Seeded fault: the waiting slot is not given back.
TakeRequestKeepingSlot ==
    /\ workerLive /\ running = None /\ channel # <<>>
    /\ Head(channel).kind # "Barrier"
    /\ running' = Head(channel)
    /\ channel' = Tail(channel)
    /\ UNCHANGED <<queued, pending, clientVars, acknowledged, completions, workerLive,
                   createBindings, lastSuccessful, diskVars>>

TakeRequest ==
    /\ workerLive /\ running = None /\ channel # <<>>
    /\ Head(channel).kind # "Barrier"
    /\ running' = Head(channel)
    /\ channel' = Tail(channel)
    /\ queued' = queued - 1
    /\ UNCHANGED <<clientVars, pending, acknowledged, completions, workerLive,
                   createBindings, lastSuccessful, diskVars>>

\* Seeded fault: the barrier is answered while a request is executed.
ServeBarrierEarly ==
    /\ workerLive /\ channel # <<>>
    /\ Head(channel).kind = "Barrier"
    /\ acknowledged' = acknowledged \cup
                        {<<Head(channel).session, Head(channel).generation>>}
    /\ channel' = Tail(channel)
    /\ UNCHANGED <<clientVars, queued, pending, completions, workerVars, diskVars>>

\* Seeded fault: a barrier gives back a slot it never took.
ServeBarrierReleasingSlot ==
    /\ workerLive /\ running = None /\ channel # <<>>
    /\ Head(channel).kind = "Barrier"
    /\ acknowledged' = acknowledged \cup
                        {<<Head(channel).session, Head(channel).generation>>}
    /\ channel' = Tail(channel)
    /\ queued' = queued - 1
    /\ UNCHANGED <<clientVars, pending, completions, workerVars, diskVars>>

\* The acknowledgement is sent whether or not anybody still waits for it.
ServeBarrier ==
    /\ workerLive /\ running = None /\ channel # <<>>
    /\ Head(channel).kind = "Barrier"
    /\ acknowledged' = acknowledged \cup
                        {<<Head(channel).session, Head(channel).generation>>}
    /\ channel' = Tail(channel)
    /\ UNCHANGED <<clientVars, queued, pending, completions, workerVars, diskVars>>

\* The end of every request: counted, then reported.
Complete(ok, revision) ==
    /\ pending' = pending - 1
    /\ completions' = Append(completions,
            [request |-> running, ok |-> ok, revision |-> revision])
    /\ running' = None
    /\ UNCHANGED <<clientVars, queued, channel, acknowledged, workerLive>>

\* What the worker knows of the create lineage of a request.
BindingOf(r) ==
    IF r.kind = "Manual" /\ r.publication = "CreateNew"
    THEN createBindings[r.session][r.lineage]
    ELSE None

\* A create lineage that has not published yet may not replace anything.
CreatesOnly(r) == r.publication = "CreateNew" /\ BindingOf(r) # "Established"

Outcomes == {"NotPublished", "Durable", "DurabilityUnconfirmed",
             "IndeterminateVisible", "IndeterminateLost"}

Visible == {"Durable", "DurabilityUnconfirmed", "IndeterminateVisible"}

\* Seeded fault: an indeterminate create counts as established.
EstablishedAnyway(outcome) ==
    IF outcome = "NotPublished" THEN None ELSE "Established"

\* update_worker_publication_state for a create lineage
BindingAfter(outcome) ==
    CASE outcome \in {"Durable", "DurabilityUnconfirmed"} -> "Established"
      [] outcome \in {"IndeterminateVisible", "IndeterminateLost"} -> "Poisoned"
      [] OTHER -> None

\* execute_persistence_request of a manual save
PublishManual(outcome) ==
    LET r == running IN
    /\ r # None
    /\ r.kind = "Manual"
    /\ BindingOf(r) # "Poisoned"
    /\ CreatesOnly(r) /\ files[r.file] # None => outcome = "NotPublished"
    /\ files' = IF outcome \in Visible
                THEN [files EXCEPT ![r.file] =
                        [session |-> r.session, lineage |-> r.lineage,
                         project |-> r.project, version |-> r.version,
                         revision |-> r.revision]]
                ELSE files
    /\ createBindings' =
            IF r.publication = "CreateNew" /\ BindingAfter(outcome) # None
            THEN [createBindings EXCEPT ![r.session][r.lineage] = BindingAfter(outcome)]
            ELSE createBindings
    /\ lastSuccessful' = IF outcome = "Durable"
                         THEN [lastSuccessful EXCEPT ![r.session] = r.revision]
                         ELSE lastSuccessful
    /\ Complete(outcome = "Durable", r.revision)
    /\ UNCHANGED recovery

\* reject_persistence_request: the lineage's namespace is indeterminate.
RejectManual ==
    /\ running # None
    /\ BindingOf(running) = "Poisoned"
    /\ Complete(FALSE, running.revision)
    /\ UNCHANGED <<createBindings, lastSuccessful, diskVars>>

\* Seeded fault: an autosave keeps the revision it was queued with.
QueuedRevision(r) == r.revision

\* An autosave is at least as new as the last manual save of its session.
AutosaveRevision(r) ==
    IF lastSuccessful[r.session] # None /\ lastSuccessful[r.session] > r.revision
    THEN lastSuccessful[r.session] ELSE r.revision

\* The points the manifest of the running request already authorises.
RetainablePoints ==
    IF running = None \/ recovery[running.project][running.root] = None THEN {}
    ELSE recovery[running.project][running.root].points

\* execute_persistence_request of an autosave, with publish_recovery_point:
\* retention keeps any part of the older points and never drops the new one.
\* The manifest may be visible without proof that it is durable.
PublishAutosave(outcome, kept) ==
    LET r == running
        old == recovery[r.project][r.root]
        point == [version |-> r.version, revision |-> AutosaveRevision(r)]
    IN  /\ r # None
        /\ r.kind = "Autosave"
        /\ outcome \in {"NotPublished", "Durable", "DurabilityUnconfirmed"}
        /\ outcome = "NotPublished" => kept = {}
        /\ recovery' =
            IF outcome = "NotPublished" THEN recovery
            ELSE [recovery EXCEPT ![r.project][r.root] =
                    [file |-> IF old = None THEN r.file ELSE old.file,
                     points |-> kept \cup {point}]]
        /\ Complete(outcome = "Durable", AutosaveRevision(r))
        /\ UNCHANGED <<createBindings, lastSuccessful, files>>

\* A panic takes the request and everything behind it along; both counters
\* keep counting them.
WorkerPanics ==
    /\ running # None
    /\ workerLive' = FALSE
    /\ running' = None
    /\ channel' = <<>>
    /\ UNCHANGED <<clientVars, queued, pending, acknowledged, completions,
                   createBindings, lastSuccessful, diskVars>>

WorkerStep ==
    \/ TakeRequest
    \/ ServeBarrier
    \/ \E outcome \in Outcomes : PublishManual(outcome)
    \/ RejectManual
    \/ \E outcome \in Outcomes, kept \in SUBSET RetainablePoints :
        PublishAutosave(outcome, kept)

PersistenceInit ==
    /\ admission = [s \in Sessions |->
            [phase |-> "Open", generation |-> 0, lastReserved |-> None]]
    /\ nextRequestId = 1
    /\ queued = 0
    /\ pending = 0
    /\ channel = <<>>
    /\ acknowledged = {}
    /\ completions = <<>>
    /\ workerLive = TRUE
    /\ running = None
    /\ createBindings = [s \in Sessions |-> [n \in RequestIds |-> None]]
    /\ lastSuccessful = [s \in Sessions |-> None]

=============================================================================
