---------------------- MODULE ProjectLifecycleProperties ----------------------
(***************************************************************************)
(* What the Project lifecycle and its persistence service promise.         *)
(***************************************************************************)
EXTENDS ProjectLifecycle

\* The types of the service's variables and of the main thread's.
ServiceTyped ==
    /\ admission \in [Sessions -> [phase : Phases, generation : 0 .. MaxGeneration,
                                   lastReserved : Option(Nat)]]
    /\ nextRequestId \in 1 .. MaxRequests + 1
    /\ queued \in Nat
    /\ pending \in Nat
    /\ channel \in Seq(RequestRecord \cup Barrier)
    /\ acknowledged \subseteq Sessions \X Nat
    /\ completions \in Seq(Completion)
    /\ workerLive \in BOOLEAN
    /\ running \in Option(RequestRecord)
    /\ createBindings \in [Sessions -> [RequestIds -> Option(BindingStates)]]
    /\ lastSuccessful \in [Sessions -> Option(Nat)]
    /\ files \in [Files -> Option(Content)]
    /\ recovery \in [Projects -> [Files -> Option(Manifest)]]

MainTyped ==
    /\ authoring \in Option(AuthoringSession)
    /\ destination \in Option(ManualProjectFileDestination)
    /\ applied \in Option(AppliedRequest)
    /\ autosaveInFlight \in Option(RequestIds)
    /\ close \in Option([session : Sessions, required : Option(RequestIds)])
    /\ fault \in Option(Sessions)
    /\ task \in Option(Task)
    /\ used \subseteq Sessions
    /\ lastVersion \in Versions

\* Every variable has the shape its comment gives it.
LifecycleTypeOK == ServiceTyped /\ MainTyped

\* The two counters of the service (project_persistence.rs:1218) say how much
\* work there is: `queued` never exceeds the queue's capacity, counts exactly
\* the requests that wait, and `pending` counts the one that runs as well.  A
\* slot counted twice or never given back would refuse every later save.
CountersMatchWork ==
    workerLive =>
        /\ queued = Cardinality({i \in DOMAIN channel : channel[i].kind # "Barrier"})
        /\ queued <= QueueCapacity
        /\ pending = queued + (IF running = None THEN 0 ELSE 1)

\* A session that is paused has nothing on its way to the disk, a handler that
\* has drained has nothing left to apply to it, and what is on its way for any
\* other live session was admitted in its current generation
\* (pause_and_quiesce, project_persistence.rs:704): a lifecycle step that
\* retires or resumes it therefore orphans no save.
QuiescedSessionsAreIdle ==
    /\ \A r \in Outstanding :
        LET a == admission[r.session] IN
        /\ a.phase # "Paused"
        /\ a.phase \in {"Open", "Pausing"} => r.generation = a.generation
    /\ task # None /\ task.stage = "Finish" =>
        \A i \in DOMAIN completions :
            completions[i].request.session # task.token

\* A session that writes over a file of its own always raises the document
\* revision and never goes back to an older author version, however many
\* saves, retries and changes of destination are queued
\* (reserved before queue admission, project_persistence.rs:645).
ManualRevisionsIncrease ==
    [][\A f \in Files :
        LET old == files[f] new == files'[f] IN
        old # new /\ old # None /\ old.session = new.session =>
            /\ new.revision > old.revision
            /\ new.version >= old.version]_vars

\* A save whose target was absent when the user chose it replaces nothing but
\* what that very choice has published, whatever appeared at the path since
\* (request_project_save_as, project_lifecycle.rs:914).
CreateNewNeverOverwrites ==
    [][\A f \in Files :
        /\ files'[f] # files[f]
        /\ files[f] # None
        /\ running # None
        /\ running.publication = "CreateNew"
        => /\ files[f].session = running.session
           /\ files[f].lineage = running.lineage]_vars

\* What the application shows as saved is on disk: while a save of the current
\* destination is applied, the canonical path holds this session's work, at
\* least as new as the durable baseline
\* (apply_persistence_completion, project_lifecycle.rs:1087).
AppliedSaveIsOnDisk ==
    applied # None =>
        LET content == files[authoring.file] IN
        /\ applied.destination = destination
        /\ authoring.file = destination.file
        /\ content # None
        /\ content.session = authoring.session
        /\ content.version >= authoring.saved

\* A close that was asked to save first ends with the newest author version in
\* the canonical file (poll_project_close, project_lifecycle.rs:544).
CloseAfterSaveLosesNothing ==
    [][task # None /\ task.op = "Close" /\ task.request # None
            /\ authoring # None /\ authoring' = None =>
        LET content == files[authoring.file] IN
        /\ content # None
        /\ content.session = authoring.session
        /\ content.version = authoring.version]_vars

\* The autosave slot is always freed: by the completion, successful or not, or
\* by the end of the session (project_lifecycle.rs:1091).  Otherwise no
\* autosave would ever be requested again.  A worker that panics keeps it.
AutosaveRetries ==
    autosaveInFlight # None ~> autosaveInFlight = None \/ ~workerLive

\* A close that was begun ends: the Project is closed, reopened for edits, or
\* faulted, even when the worker is gone (project_lifecycle.rs:520).
CloseSettles == close # None ~> close = None /\ task = None

\* "Retained fail-closed authority after Project Session Handoff failure"
\* (project_lifecycle.rs:160) and "keeps it fail-closed instead of resuming
\* edits against poisoned persistence admission"
\* (docs/architecture/persistence-and-recovery.md:192) "mutation and further
\* persistence remain disabled because worker ownership is unproven"
\* (app/mod.rs:414): a Project whose session is poisoned takes no Action.
PoisonedSessionIsFrozen ==
    authoring # None /\ admission[authoring.session].phase = "Poisoned"
        => ~Idle

\* No document revision on disk is above what the open session and the worker
\* know of: nothing became visible there without proof of durability, or from
\* a session that was closed by force.
LedgerIsCurrent(a) ==
    LET onDisk == files[a.file]
        ledger == lastSuccessful[a.session]
    IN onDisk # None =>
        \/ onDisk.revision <= a.revision
        \/ ledger # None /\ onDisk.revision <= ledger

\* The file that the recovery manifest of session a names is still its Project,
\* at a revision known to the session or to the worker: it is not a copy that
\* another session saved further, and nothing became visible there without
\* proof of durability.
ManifestIsCurrent(a) ==
    LET manifest == recovery[a.project][a.root]
        onDisk == files[manifest.file]
        ledger == lastSuccessful[a.session]
    IN  manifest # None /\ onDisk # None =>
            /\ onDisk.project = a.project
            /\ \/ onDisk.revision <= a.revision
               \/ ledger # None /\ onDisk.revision <= ledger

\* Version v of session a, or a newer one, is in a Project file it has written
\* or offered for recovery.
IsPreserved(a, v) ==
    \/ \E f \in Files :
           files[f] # None /\ files[f].session = a.session /\ files[f].version >= v
    \/ \E p \in Recoverable(a.project, a.root) : p.version >= v

\* Once an autosave has made a version of the open session durable, that work
\* is preserved through every later save, Save As, autosave, failure and
\* reconciliation (reconcile_recovery_after_manual_save,
\* project_recovery.rs:943), as long as the manifest is current.
NewerWorkIsRecoverable ==
    authoring # None /\ authoring.autosaved # None /\ ManifestIsCurrent(authoring)
        => IsPreserved(authoring, authoring.autosaved)

\* "Only a current covering manual Project publication may first retire" the
\* "right of an exact validated autosave archive ... to be offered"
\* (CONTEXT.md:932) and "newer author state must remain recoverable"
\* (project_recovery.rs:941): autosaved work of an open session whose own file
\* is at a revision it knows is preserved, whatever the manifest names.
AutosaveIsOffered ==
    authoring # None /\ authoring.autosaved # None /\ LedgerIsCurrent(authoring)
        => IsPreserved(authoring, authoring.autosaved)

=============================================================================
