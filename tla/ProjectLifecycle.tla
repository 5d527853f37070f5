--------------------------- MODULE ProjectLifecycle ---------------------------
(***************************************************************************)
(* The Project lifecycle of the application's main thread:                 *)
(* crates/mondrian-app/src/app/project_lifecycle.rs over the persistence   *)
(* service.  Create, open, recover, edit, save, Save As, autosave, close,  *)
(* and the completions the event loop applies.                             *)
(*                                                                         *)
(* The main thread runs one handler at a time.  A handler that waits for   *)
(* the worker is split where it waits; `task` is the handler that is not   *)
(* finished, and nothing else runs on the main thread until it is.         *)
(* Completions are applied one at a time: a poll that finds one only is    *)
(* always possible, so batches add no behaviour.  An error return that     *)
(* leaves every field as it was is a stuttering step.                      *)
(***************************************************************************)
EXTENDS ProjectPersistence

CONSTANTS
    Existing,          \* the paths that hold FirstProject at the start
    MaxGeneration      \* bound: persistence generations of a session

ASSUME LifecycleAssumption ==
    /\ Existing \subseteq Files
    /\ MaxGeneration \in Nat

VARIABLES
    authoring,         \* AppState.authoring, None without an open Project
    destination,       \* AppState.manual_project_file_destination
    applied,           \* AppState.manual_project_file_applied_request
    autosaveInFlight,  \* AppState.autosave_in_flight_request
    close,             \* AppState.pending_project_close
    fault,             \* AppState.project_close_fault: its session
    task,              \* the handler the main thread is in, None between two
    used,              \* sessions that have existed
    lastVersion        \* the last author version an edit produced

openVars == <<authoring, destination, applied, autosaveInFlight>>
closeVars == <<close, fault>>
mainVars == <<openVars, closeVars, task, used, lastVersion>>
vars == <<persistenceVars, mainVars>>

AuthoringSession ==
    [session : Sessions, project : Projects, root : Files, file : Files,
     version : Versions, revision : Nat, saved : Option(Versions),
     autosaved : Option(Versions)]

ManualProjectFileDestination ==
    [revision : Nat, file : Files, publication : Publications]

ASSUME NoDestinationAssumption ==
    None \notin [revision : Option(Nat), file : Files, publication : Publications]

ASSUME NoSessionAssumption == None \notin AuthoringSession

AppliedRequest ==
    [destination : ManualProjectFileDestination, request : RequestIds]

Handlers == {"Open", "Recover", "Create", "CloseNow", "Close", "SaveThenClose"}
Stages == {"Quiesce", "Drain", "Finish", "Publish", "BeginDiscard", "Discard",
           "EndDiscard", "BeginClose"}

Task ==
    [op : Handlers, stage : Stages, token : Option(Sessions),
     request : Option(RequestIds), file : Option(Files),
     candidate : Option(AuthoringSession)]

IsDirty(a) == a.saved # a.version

\* project_close_blocks_actions
CloseBlocksActions == close # None \/ fault # None

\* An Action is dispatched only then.
Idle == task = None /\ ~CloseBlocksActions

Fresh == Sessions \ used

\* begin_pause admits an Open session only.
CanPause(s) ==
    /\ admission[s].phase = "Open"
    /\ admission[s].generation < MaxGeneration

-----------------------------------------------------------------------------
(* apply_persistence_completion                                            *)

\* snapshot_is_newer decides whether a baseline moves.
Newest(baseline, version) ==
    IF baseline # None /\ baseline > version THEN baseline ELSE version

\* Seeded fault: a completion moves the baseline to the current state.
MarkSavedAsCurrent(a, c) ==
    [a EXCEPT !.revision = IF @ > c.revision THEN @ ELSE c.revision,
              !.saved = a.version, !.file = c.request.file]

MarkSaved(a, c) ==
    [a EXCEPT !.revision = IF @ > c.revision THEN @ ELSE c.revision,
              !.saved = Newest(@, c.request.version), !.file = c.request.file]

MarkAutosaved(a, c) ==
    [a EXCEPT !.autosaved = Newest(@, c.request.version)]

DestinationOf(r) ==
    [revision |-> r.lineage, file |-> r.file, publication |-> r.publication]

\* A completion a newer publication to the same destination has satisfied.
Covered(c) ==
    /\ applied # None
    /\ applied.destination = DestinationOf(c.request)
    /\ applied.request >= c.request.id
    /\ authoring.file = c.request.file
    /\ authoring.saved # None /\ authoring.saved >= c.request.version

BelongsToOpenSession(c) ==
    /\ AcceptsCompletion(c)
    /\ authoring # None
    /\ authoring.session = c.request.session

ForCurrentDestination(c) ==
    /\ c.request.kind = "Manual"
    /\ destination = DestinationOf(c.request)

\* reconcile_recovery_after_manual_save of the open session a
Reconciled(a) ==
    LET manifest == recovery[a.project][a.root] IN
    IF manifest = None THEN recovery
    ELSE [recovery EXCEPT ![a.project][a.root] =
            [file |-> a.file,
             points |-> IF IsDirty(a) THEN manifest.points ELSE {}]]

\* Seeded fault: a failed autosave keeps the slot.
AutosaveSlotAfterSuccess(c) ==
    IF autosaveInFlight = c.request.id /\ c.ok THEN None ELSE autosaveInFlight

AutosaveSlotAfter(c) ==
    IF autosaveInFlight = c.request.id THEN None ELSE autosaveInFlight

\* The reconciliation at the end may fail and is then reported only.
ApplyCompletion(reconciles) ==
    LET c == Head(completions)
        mine == BelongsToOpenSession(c)
        covered == mine /\ ForCurrentDestination(c) /\ Covered(c)
        saves == mine /\ ForCurrentDestination(c) /\ ~covered /\ c.ok
        autosaves == mine /\ c.request.kind = "Autosave" /\ c.ok
        after == IF saves THEN MarkSaved(authoring, c)
                 ELSE IF autosaves THEN MarkAutosaved(authoring, c)
                 ELSE authoring
    IN  /\ completions # <<>>
        /\ completions' = Tail(completions)
        /\ autosaveInFlight' = AutosaveSlotAfter(c)
        /\ authoring' = after
        /\ applied' = IF saves
                      THEN [destination |-> destination, request |-> c.request.id]
                      ELSE applied
        /\ \/ /\ reconciles
              /\ \/ covered \/ saves
                 \/ autosaves /\ after.saved # None /\ ~IsDirty(after)
              /\ recovery' = Reconciled(after)
           \/ /\ ~reconciles
              /\ recovery' = recovery
        /\ UNCHANGED <<destination, closeVars, used, lastVersion, clientVars,
                       queueVars, acknowledged, workerVars, files>>

\* poll_project_persistence
PollCompletion ==
    /\ task = None
    /\ \E reconciles \in BOOLEAN : ApplyCompletion(reconciles)
    /\ UNCHANGED task

-----------------------------------------------------------------------------
(* Editing and saving.                                                     *)

Edit ==
    /\ Idle
    /\ authoring # None
    /\ lastVersion < MaxVersion
    /\ lastVersion' = lastVersion + 1
    /\ authoring' = [authoring EXCEPT !.version = lastVersion + 1]
    /\ UNCHANGED <<destination, applied, autosaveInFlight, closeVars, task,
                   used, persistenceVars>>

\* request_project_save_as: what the path names when the user confirms it
PublicationTo(file) ==
    IF files[file] = None THEN "CreateNew" ELSE "ReplaceExisting"

\* ManualProjectFileDestination::retarget, initial, initial_create
Retargeted(target) ==
    LET publication == IF target = None THEN "ReplaceExisting"
                       ELSE PublicationTo(target)
    IN  IF destination = None
        THEN [revision |-> 1,
              file |-> IF target = None THEN authoring.file ELSE target,
              publication |-> publication]
        ELSE IF \/ target = None
                \/ /\ destination.file = target
                   /\ destination.publication = publication
        THEN destination
        ELSE [revision |-> destination.revision + 1, file |-> target,
              publication |-> publication]

\* submit_project_save, admitted: the destination becomes current only then.
SubmitSave(target) ==
    LET new == Retargeted(target) IN
    /\ Idle
    /\ authoring # None
    /\ CanSubmit(authoring.session)
    /\ TargetFree(new.file, authoring.project)
    /\ Submit(ManualRequest(authoring.session, authoring.project,
                            authoring.root, authoring.version,
                            authoring.revision, new))
    /\ destination' = new
    /\ applied' = IF destination = new THEN applied ELSE None
    /\ UNCHANGED <<authoring, autosaveInFlight, closeVars, used, lastVersion>>

\* request_project_save, request_project_save_as
RequestSave(target) == SubmitSave(target) /\ UNCHANGED task

\* maybe_request_autosave, submit_autosave
RequestAutosave ==
    /\ Idle
    /\ authoring # None
    /\ IsDirty(authoring)
    /\ authoring.autosaved # authoring.version
    /\ autosaveInFlight = None
    /\ CanSubmit(authoring.session)
    /\ Submit(AutosaveRequest(authoring.session, authoring.project,
                              authoring.root, authoring.version,
                              authoring.revision, authoring.file))
    /\ autosaveInFlight' = nextRequestId
    /\ UNCHANGED <<authoring, destination, applied, closeVars, task, used,
                   lastVersion>>

-----------------------------------------------------------------------------
(* Closing behind a FIFO barrier, without waiting for it.                  *)

NewTask(op, stage) ==
    [op |-> op, stage |-> stage, token |-> None, request |-> None,
     file |-> None, candidate |-> None]

\* The close guard's Save: the save is admitted, then the close begins.
SaveThenClose ==
    /\ SubmitSave(None)
    /\ CanPause(authoring.session)
    /\ task' = [NewTask("SaveThenClose", "BeginClose") EXCEPT !.request = nextRequestId]

\* begin_project_close_with_requirement.  A worker that is gone poisons the
\* session and the error returns before a close is pending.
BeginClose ==
    /\ authoring # None
    /\ ~CloseBlocksActions
    /\ CanPause(authoring.session)
    /\ \/ task = None
       \/ task # None /\ task.stage = "BeginClose"
    /\ BeginPause(authoring.session)
    /\ close' = IF workerLive
                THEN [session |-> authoring.session,
                      required |-> IF task = None THEN None ELSE task.request]
                ELSE None
    /\ task' = None
    /\ UNCHANGED <<openVars, fault, used, lastVersion>>

\* poll_project_close, acknowledged: the completions are drained next.
PollCloseQuiesced ==
    /\ task = None
    /\ close # None
    /\ CompletePause(close.session)
    /\ close' = None
    /\ task' = [NewTask("Close", "Drain") EXCEPT !.token = close.session,
                                                !.request = close.required]
    /\ UNCHANGED <<openVars, fault, used, lastVersion>>

\* Seeded fault: a close whose worker is gone is polled for ever.
PollCloseTimesOutOnly ==
    /\ task = None
    /\ close # None
    /\ workerLive
    /\ PoisonPause(close.session)
    /\ fault' = close.session
    /\ close' = None
    /\ UNCHANGED <<openVars, task, used, lastVersion>>

\* poll_project_close, timed out or disconnected
PollCloseFaults ==
    /\ task = None
    /\ close # None
    /\ PoisonPause(close.session)
    /\ fault' = close.session
    /\ close' = None
    /\ UNCHANGED <<openVars, task, used, lastVersion>>

\* finalize_project_close_state
Finalize ==
    /\ authoring' = None
    /\ destination' = None
    /\ applied' = None
    /\ autosaveInFlight' = None
    /\ fault' = None
    /\ UNCHANGED close

\* Seeded fault: a drained close does not look for its save.
SaveIsNotRequired == task.op \in {"Close", "CloseNow"}

RequiredSaveIsApplied ==
    \/ task.request = None
    \/ applied # None /\ applied.request = task.request

\* The end of poll_project_close and of close_project: retire, finalize.
FinishClose ==
    /\ task # None
    /\ task.op \in {"Close", "CloseNow"}
    /\ task.stage = "Finish"
    /\ RequiredSaveIsApplied
    /\ OnlyAdmission(Retired(admission, task.token))
    /\ Finalize
    /\ task' = None
    /\ UNCHANGED <<used, lastVersion>>

\* The required save did not become the baseline: the Project stays open.
RejectClose ==
    /\ task # None
    /\ task.op = "Close"
    /\ task.stage = "Finish"
    /\ ~RequiredSaveIsApplied
    /\ OnlyAdmission(Resumed(admission, task.token))
    /\ task' = None
    /\ UNCHANGED <<openVars, closeVars, used, lastVersion>>

\* force_close_project_after_fault
ForceClose ==
    /\ task = None
    /\ fault # None
    /\ OnlyAdmission(Retired(admission, fault))
    /\ Finalize
    /\ UNCHANGED <<task, used, lastVersion>>

-----------------------------------------------------------------------------
(* Handoffs that wait: open, recover, create, close_project.               *)

\* begin_project_session_handoff
BeginHandoff(op, file) ==
    LET new == [NewTask(op, "Finish") EXCEPT !.file = file] IN
    /\ Idle
    /\ UNCHANGED <<openVars, closeVars, used, lastVersion>>
    /\ \/ /\ authoring = None
          /\ op # "CloseNow"
          /\ task' = new
          /\ UNCHANGED persistenceVars
       \/ /\ authoring # None
          /\ CanPause(authoring.session)
          /\ BeginPause(authoring.session)
          /\ task' = IF workerLive
                     THEN [new EXCEPT !.stage = "Quiesce",
                                      !.token = authoring.session]
                     ELSE None

HandoffQuiesced ==
    /\ task # None
    /\ task.stage = "Quiesce"
    /\ CompletePause(task.token)
    /\ task' = [task EXCEPT !.stage = "Drain"]
    /\ UNCHANGED <<openVars, closeVars, used, lastVersion>>

HandoffTimesOut ==
    /\ task # None
    /\ task.stage = "Quiesce"
    /\ PoisonPause(task.token)
    /\ task' = None
    /\ UNCHANGED <<openVars, closeVars, used, lastVersion>>

\* drain_quiesced_project_persistence_completions
Drain ==
    /\ task # None
    /\ task.stage = "Drain"
    /\ \/ /\ \E reconciles \in BOOLEAN : ApplyCompletion(reconciles)
          /\ UNCHANGED task
       \/ /\ completions = <<>>
          /\ task' = [task EXCEPT !.stage = "Finish"]
          /\ UNCHANGED <<openVars, closeVars, used, lastVersion, persistenceVars>>

\* The candidate becomes the open session, the previous one is retired.
Install(a) ==
    /\ authoring' = a
    /\ destination' = None
    /\ applied' = None
    /\ autosaveInFlight' = None
    /\ used' = used \cup {a.session}
    /\ OnlyAdmission(Retired(admission, task.token))
    /\ task' = None
    /\ UNCHANGED <<closeVars, lastVersion>>

\* open_project_archive
InstallOpened(s) ==
    /\ task # None
    /\ task.op = "Open"
    /\ task.stage = "Finish"
    /\ LET content == files[task.file] IN
       /\ content # None
       /\ content.project # None
       /\ TargetFree(task.file, content.project)
       /\ Install([session |-> s, project |-> content.project,
                   root |-> task.file, file |-> task.file,
                   version |-> content.version, revision |-> content.revision,
                   saved |-> content.version, autosaved |-> None])

\* discover_crash_recovery_candidates: what the manifest of a runtime root
\* still offers beside the canonical Project.
Recoverable(project, root) ==
    LET manifest == recovery[project][root] IN
    IF manifest = None THEN {}
    ELSE LET canonical == files[manifest.file] IN
         {p \in manifest.points :
            \/ canonical = None
            \/ canonical.project = project /\ p.revision >= canonical.revision}

\* open_project_from_autosave_snapshot_in_handoff
InstallRecovered(s) ==
    /\ task # None
    /\ task.op = "Recover"
    /\ task.stage = "Finish"
    /\ \E project \in Projects : \E p \in Recoverable(project, task.file) :
        LET file == recovery[project][task.file].file IN
        /\ TargetFree(file, project)
        /\ Install([session |-> s, project |-> project, root |-> task.file,
                    file |-> file, version |-> p.version,
                    revision |-> p.revision, saved |-> None,
                    autosaved |-> None])

\* resume_handoff_after_error: the candidate failed for any reason.
HandoffFails ==
    /\ task # None
    /\ task.op \in {"Open", "Recover", "Create"}
    /\ task.stage = "Finish"
    /\ OnlyAdmission(Resumed(admission, task.token))
    /\ task' = None
    /\ UNCHANGED <<openVars, closeVars, used, lastVersion>>

\* create_new_project_with_settings_at_in_handoff, up to its first save.  A
\* candidate whose submission fails ends like HandoffFails.
CreateSubmits(s) ==
    LET d == [revision |-> 1, file |-> task.file, publication |-> "CreateNew"]
        new == [session |-> s, project |-> s, root |-> task.file,
                file |-> task.file, version |-> lastVersion + 1, revision |-> 1,
                saved |-> None, autosaved |-> None]
    IN  /\ task # None
        /\ task.op = "Create"
        /\ task.stage = "Finish"
        /\ files[task.file] = None
        /\ CanSubmit(s)
        /\ TargetFree(task.file, s)
        /\ lastVersion < MaxVersion
        /\ Submit(ManualRequest(s, s, new.root, new.version, new.revision, d))
        /\ lastVersion' = new.version
        /\ used' = used \cup {s}
        /\ task' = [task EXCEPT !.stage = "Publish", !.request = nextRequestId,
                                !.candidate = new]
        /\ UNCHANGED <<openVars, closeVars>>

\* The initial publication established the candidate's baseline.
CreatedDurably(c) == c.ok /\ AcceptsCompletion(c)

\* wait_for_persistence_completion: what is not its own is applied.
CreateAppliesOther ==
    /\ task # None
    /\ task.stage = "Publish"
    /\ completions # <<>>
    /\ Head(completions).request.id # task.request
    /\ \E reconciles \in BOOLEAN : ApplyCompletion(reconciles)
    /\ UNCHANGED task

\* ... its own, durable: the candidate is installed with a binding that
\* replaces from now on.
InstallCreated ==
    LET c == Head(completions)
        d == [revision |-> 1, file |-> task.file, publication |-> "ReplaceExisting"]
    IN  /\ task # None
        /\ task.stage = "Publish"
        /\ completions # <<>>
        /\ c.request.id = task.request
        /\ CreatedDurably(c)
        /\ completions' = Tail(completions)
        /\ authoring' = MarkSaved(task.candidate, c)
        /\ destination' = d
        /\ applied' = [destination |-> d, request |-> task.request]
        /\ autosaveInFlight' = None
        /\ admission' = Retired(admission, task.token)
        /\ task' = None
        /\ UNCHANGED <<closeVars, used, lastVersion, nextRequestId, queueVars,
                       acknowledged, workerVars, diskVars>>

\* ... its own, failed; or the wait timed out.
CreateFails ==
    /\ task # None
    /\ task.stage = "Publish"
    /\ \/ /\ completions # <<>>
          /\ Head(completions).request.id = task.request
          /\ ~CreatedDurably(Head(completions))
          /\ completions' = Tail(completions)
       \/ /\ \A i \in DOMAIN completions : completions[i].request.id # task.request
          /\ UNCHANGED completions
    /\ task' = [task EXCEPT !.stage = "BeginDiscard"]
    /\ UNCHANGED <<openVars, closeVars, used, lastVersion, clientVars, queueVars,
                   acknowledged, workerVars, diskVars>>

\* retire_uninstalled_project_session: the candidate is quiesced in turn,
BeginDiscard ==
    /\ task # None
    /\ task.stage = "BeginDiscard"
    /\ BeginPause(task.candidate.session)
    /\ task' = [task EXCEPT !.stage = IF workerLive THEN "Discard" ELSE "EndDiscard"]
    /\ UNCHANGED <<openVars, closeVars, used, lastVersion>>

Discard ==
    /\ task # None
    /\ task.stage = "Discard"
    /\ \/ CompletePause(task.candidate.session)
       \/ PoisonPause(task.candidate.session)
    /\ task' = [task EXCEPT !.stage = "EndDiscard"]
    /\ UNCHANGED <<openVars, closeVars, used, lastVersion>>

\* ... retired if that succeeded, and the previous session is resumed.
EndDiscard ==
    LET s == task.candidate.session
        discarded == IF admission[s].phase = "Paused"
                     THEN Retired(admission, s) ELSE admission
    IN  /\ task # None
        /\ task.stage = "EndDiscard"
        /\ OnlyAdmission(Resumed(discarded, task.token))
        /\ task' = None
        /\ UNCHANGED <<openVars, closeVars, used, lastVersion>>

-----------------------------------------------------------------------------

\* Another program creates a file at an absent path.
ExternalCreates(file) ==
    /\ files[file] = None
    /\ files' = [files EXCEPT ![file] =
            [session |-> None, lineage |-> None, project |-> None,
             version |-> 0, revision |-> 0]]
    /\ UNCHANGED <<clientVars, queueVars, acknowledged, completions, workerVars,
                   recovery, mainVars>>

ProjectFile(project) ==
    [session |-> None, lineage |-> None, project |-> project,
     version |-> 0, revision |-> 1]

\* The application starts beside the files in Existing.
Init ==
    /\ PersistenceInit
    /\ files = [f \in Files |->
            IF f \in Existing THEN ProjectFile(FirstProject) ELSE None]
    /\ recovery = [p \in Projects |-> [f \in Files |-> None]]
    /\ authoring = None
    /\ destination = None
    /\ applied = None
    /\ autosaveInFlight = None
    /\ close = None
    /\ fault = None
    /\ task = None
    /\ used = {}
    /\ lastVersion = 0

\* The worker thread runs beside the main thread.
Worker == WorkerStep /\ UNCHANGED mainVars

Panic == WorkerPanics /\ UNCHANGED mainVars

\* The rest of a handler that waits.
HandlerStep ==
    \/ task # None /\ BeginClose
    \/ HandoffQuiesced
    \/ HandoffTimesOut
    \/ Drain
    \/ \E s \in Fresh : InstallOpened(s) \/ InstallRecovered(s) \/ CreateSubmits(s)
    \/ HandoffFails
    \/ CreateAppliesOther
    \/ InstallCreated
    \/ CreateFails
    \/ BeginDiscard
    \/ Discard
    \/ EndDiscard
    \/ FinishClose
    \/ RejectClose

\* What the user, or the autosave timer, starts.
UserStep ==
    \/ Edit
    \/ \E target \in Option(Files) : RequestSave(target)
    \/ RequestAutosave
    \/ SaveThenClose
    \/ task = None /\ BeginClose
    \/ ForceClose
    \/ \E op \in {"Open", "Recover", "Create"}, f \in Files : BeginHandoff(op, f)
    \/ BeginHandoff("CloseNow", None)

Next ==
    \/ Worker
    \/ Panic
    \/ PollCompletion
    \/ PollCloseQuiesced
    \/ PollCloseFaults
    \/ HandlerStep
    \/ UserStep
    \/ \E f \in Files : ExternalCreates(f)

\* The worker takes what is in its channel, the event loop polls, and a
\* handler that waits goes on: the answer arrives or the wait times out.
\* Nothing is assumed of the user, the timer or other programs.
Fairness ==
    /\ WF_vars(Worker)
    /\ WF_vars(PollCompletion)
    /\ WF_vars(PollCloseQuiesced \/ PollCloseFaults)
    /\ WF_vars(HandlerStep)

SafetySpec == Init /\ [][Next]_vars

Spec == SafetySpec /\ Fairness

=============================================================================
