------------------------ MODULE ProjectDestinationProofs ------------------------
(***************************************************************************)
(* Proofs that a create-only save replaces nothing of others, that what is *)
(* shown as saved is on disk, and that a close that saves loses nothing,   *)
(* for every set of sessions and paths, every queue capacity and bound.    *)
(*                                                                         *)
(* The argument is about the order of requests.  Their identities are      *)
(* their order in the FIFO, the worker has the smallest, and behind a      *)
(* request of a live session stand only requests of the same session.      *)
(***************************************************************************)
EXTENDS ProjectRevisionProofs

Saves == {r \in Outstanding : r.kind = "Manual"}

\* The requests whose completions nobody has received yet.
Done == {completions[i].request : i \in DOMAIN completions}

\* The sessions that may still submit or install: the open one, and the
\* candidate whose first save is awaited.
Publishing == task # None /\ task.stage = "Publish"

IsOpen(s) == authoring # None /\ authoring.session = s

IsCandidate(s) == Publishing /\ task.candidate.session = s

Live(s) == IsOpen(s) \/ IsCandidate(s)

\* The create lineage a live session has reached.
LineageOf(s) ==
    IF IsCandidate(s) THEN 1
    ELSE IF destination = None THEN 0
    ELSE destination.revision

-----------------------------------------------------------------------------
\* The invariant: the order of requests.

QueueOrdered ==
    /\ \A i, j \in DOMAIN channel :
           i < j /\ channel[i].kind # "Barrier" /\ channel[j].kind # "Barrier" =>
               channel[i].id < channel[j].id
    /\ \A i \in DOMAIN channel :
           running # None /\ channel[i].kind # "Barrier" => running.id < channel[i].id

IdsIssued ==
    /\ \A r \in Outstanding \cup Done : r.id < nextRequestId
    /\ applied # None => applied.request < nextRequestId
    /\ \A r \in Outstanding, d \in Done : r.id # d.id

\* Behind a request of a live session stand only its own.
LiveLast ==
    \A r, q \in Outstanding :
        Live(r.session) /\ r.id < q.id => q.session = r.session

\* The requests of a session stand next to each other.
Contiguous ==
    \A p, q, r \in Outstanding :
        p.id < q.id /\ q.id < r.id /\ p.session = r.session => q.session = p.session

\* A candidate has submitted its first save and nothing else.
CandidateAlone ==
    Publishing =>
        /\ task.op = "Create"
        /\ task.candidate.saved = None
        /\ \A r \in Outstanding \cup Done :
            /\ r.session = task.candidate.session <=> r.id = task.request
            /\ r.id = task.request =>
                  /\ r.kind = "Manual" /\ r.version = task.candidate.version
                  /\ r.file = task.file

\* A handoff paused the open session, only a close that saves waits to begin,
\* and a close that faulted is not pending.
HandoffHolds ==
    /\ task # None /\ task.op \in {"Open", "Recover", "Create"} /\ authoring # None =>
           task.token = authoring.session
    /\ task # None /\ task.stage = "BeginClose" => task.op = "SaveThenClose"
    /\ close = None \/ fault = None

OrderInv == IdsIssued /\ LiveLast /\ Contiguous /\ CandidateAlone

-----------------------------------------------------------------------------
\* The invariant: lineages and the paths they own.

LineagesInOrder ==
    \A r \in Saves :
        /\ r.lineage \in 1 .. r.id
        /\ Live(r.session) => r.lineage <= LineageOf(r.session)
        /\ \A q \in Saves :
            q.session = r.session =>
                /\ q.id < r.id => q.lineage <= r.lineage
                /\ q.lineage = r.lineage =>
                       q.file = r.file /\ q.publication = r.publication

BindingsKnown ==
    \A s \in Sessions, l \in RequestIds :
        createBindings[s][l] # None =>
            /\ s \in used
            /\ Live(s) => l <= LineageOf(s)

\* The open session's requests of its current lineage have its destination.
DestinationShared ==
    destination # None =>
        /\ destination.revision \in 1 .. nextRequestId - 1
        /\ \A r \in Saves :
               IsOpen(r.session) /\ r.lineage = destination.revision =>
                   r.file = destination.file /\ r.publication = destination.publication

LineageInv == LineagesInOrder /\ BindingsKnown /\ DestinationShared

Claimed(f, s, l) == files[f] # None /\ files[f].session = s /\ files[f].lineage = l

\* A save that goes to f is of lineage l of session s.
Own(q, f, s, l) == q.file = f => q.session = s /\ q.lineage = l

\* An established lineage owns its path from now to its last request.
SavesOwn ==
    \A r \in Saves :
        BindingOf(r) = "Established" =>
            /\ Claimed(r.file, r.session, r.lineage)
            /\ \A q \in Saves : q.id < r.id => Own(q, r.file, r.session, r.lineage)

DestinationOwns ==
    \A s \in Sessions :
        /\ IsOpen(s)
        /\ destination # None
        /\ destination.publication = "CreateNew"
        /\ createBindings[s][destination.revision] = "Established"
        => /\ Claimed(destination.file, s, destination.revision)
           /\ \A q \in Saves : Own(q, destination.file, s, destination.revision)

OwnerInv == SavesOwn /\ DestinationOwns

-----------------------------------------------------------------------------
\* The invariant: what is saved.

\* Path f holds version v of session s or a newer one, and so it will.
Secured(s, f, v) ==
    /\ files[f] # None /\ files[f].session = s /\ files[f].version >= v
    /\ \A r \in Saves : r.file = f => r.session = s

DoneSecured ==
    \A i \in DOMAIN completions :
        LET c == completions[i] IN
        c.ok /\ c.request.kind = "Manual" /\ Live(c.request.session) =>
            Secured(c.request.session, c.request.file, c.request.version)

DoneOrdered ==
    /\ \A i, j \in DOMAIN completions :
        LET c == completions[i].request
            d == completions[j].request
        IN  i < j /\ c.kind = "Manual" /\ SavesOf(d, c.session) => c.version <= d.version
    /\ \A c \in Done :
        /\ c.session \in used
        /\ c.kind = "Manual" =>
               /\ \A r \in Saves : r.session = c.session => c.version <= r.version
               /\ IsOpen(c.session) => c.version <= authoring.version

SavedBelow ==
    authoring # None /\ authoring.saved # None =>
        /\ authoring.saved <= authoring.version
        /\ \A r \in Saves \cup Done :
            SavesOf(r, authoring.session) => authoring.saved <= r.version

AppliedSecured ==
    applied # None =>
        /\ authoring # None
        /\ destination # None
        /\ applied.destination = destination
        /\ authoring.file = destination.file
        /\ authoring.saved # None
        /\ Secured(authoring.session, authoring.file, authoring.saved)

\* The saves a close was asked to wait for.
Required ==
    {k \in RequestIds :
        \/ task # None /\ task.op \in {"SaveThenClose", "Close"} /\ task.request = k
        \/ close # None /\ close.required = k}

RequiredCovered ==
    \A k \in Required :
        /\ k < nextRequestId
        /\ authoring # None
        /\ \A r \in Outstanding \cup Done : r.id = k => r.version = authoring.version
        /\ applied # None /\ applied.request = k => authoring.saved = authoring.version

SavedInv == DoneSecured /\ DoneOrdered /\ SavedBelow /\ AppliedSecured

DestinationInv ==
    /\ QueueOrdered
    /\ HandoffHolds
    /\ OrderInv
    /\ LineageInv
    /\ OwnerInv
    /\ SavedInv
    /\ RequiredCovered

-----------------------------------------------------------------------------
\* Requests and their identities.

LEMMA Requests ==
    ASSUME ServiceTyped
    PROVE  /\ nextRequestId \in Nat
           /\ \A r \in Outstanding \cup Done :
                  /\ r \in RequestRecord
                  /\ r.id \in RequestIds /\ r.id \in Nat
                  /\ r.session \in Sessions /\ r.file \in Files
                  /\ r.version \in Nat /\ r.kind \in {"Manual", "Autosave"}
                  /\ r.publication \in Publications
           /\ \A i \in DOMAIN completions :
                  /\ completions[i] \in Completion
                  /\ completions[i].request \in Done
           /\ Saves \subseteq Outstanding
<1>1. nextRequestId \in Nat /\ RequestIds \subseteq Nat /\ Versions \subseteq Nat
  BY PersistenceAssumption DEF ServiceTyped, RequestIds, Versions
<1>2. \A r \in RequestRecord :
          /\ r.id \in RequestIds /\ r.session \in Sessions /\ r.file \in Files
          /\ r.version \in Versions /\ r.kind \in {"Manual", "Autosave"}
          /\ r.publication \in Publications
  BY DEF RequestRecord
<1>3. \A i \in DOMAIN completions :
          /\ completions[i] \in Completion
          /\ completions[i].request \in RequestRecord
          /\ completions[i].request \in Done
  <2>1. \A c \in Completion : c.request \in RequestRecord
    BY DEF Completion
  <2>2. \A i \in DOMAIN completions : completions[i] \in Completion
    BY DEF ServiceTyped
  <2> QED
    BY <2>1, <2>2 DEF Done
<1>4. Done \subseteq RequestRecord
  BY <1>3 DEF Done
<1>5. Outstanding \subseteq RequestRecord
  BY OutstandingFacts
<1> QED
  BY <1>1, <1>2, <1>3, <1>4, <1>5 DEF Saves

\* The worker has the oldest request (project_persistence.rs:1328).
LEMMA RunningIsOldest ==
    ASSUME ServiceTyped, QueueOrdered, running # None
    PROVE  /\ running \in Outstanding
           /\ \A r \in Outstanding : r = running \/ running.id < r.id
<1>1. running \in Outstanding
  BY OutstandingFacts
<1>2. \A r \in Outstanding : r = running \/ running.id < r.id
  BY OutstandingFacts DEF QueueOrdered
<1> QED
  BY <1>1, <1>2

LEMMA IdentitiesDiffer ==
    ASSUME ServiceTyped, QueueOrdered, NEW r \in Outstanding, NEW q \in Outstanding,
           r.id = q.id
    PROVE  r = q
<1>1. r.id \in Nat /\ q.id \in Nat
  BY Requests
<1>2. CASE r = running \/ q = running
  <2>1. running # None
    BY <1>2, OutstandingFacts, NoneFacts
  <2> QED
    BY <1>1, <1>2, <2>1, RunningIsOldest
<1>3. CASE r # running /\ q # running
  <2>1. PICK i \in DOMAIN channel : channel[i] = r /\ r.kind # "Barrier"
    BY <1>3, OutstandingFacts
  <2>2. PICK j \in DOMAIN channel : channel[j] = q /\ q.kind # "Barrier"
    BY <1>3, OutstandingFacts
  <2>3. i \in Nat /\ j \in Nat
    BY <2>1, <2>2 DEF ServiceTyped
  <2>4. ~(i < j) /\ ~(j < i)
    BY <1>1, <2>1, <2>2 DEF QueueOrdered
  <2> QED
    BY <2>1, <2>2, <2>3, <2>4
<1> QED
  BY <1>2, <1>3

-----------------------------------------------------------------------------
\* The channel: what each of its changes does to the order.

LEMMA QueueFrame ==
    ASSUME QueueOrdered, UNCHANGED channel, running' = running \/ running' = None
    PROVE  QueueOrdered' /\ Outstanding' \subseteq Outstanding
BY DEF QueueOrdered, Outstanding

LEMMA QueueShortens ==
    ASSUME ServiceTyped, QueueOrdered, TakeRequest \/ ServeBarrier
    PROVE  QueueOrdered' /\ Outstanding' \subseteq Outstanding
<1>1. channel # <<>> /\ running = None /\ channel' = Tail(channel)
  BY DEF TakeRequest, ServeBarrier
<1>2. channel \in Seq(RequestRecord \cup Barrier)
  BY DEF ServiceTyped
<1>3. /\ 1 \in DOMAIN channel /\ Head(channel) = channel[1]
      /\ DOMAIN channel \subseteq Nat
      /\ \A i \in DOMAIN channel' : i + 1 \in DOMAIN channel /\ channel'[i] = channel[i + 1]
  BY <1>1, <1>2, TailFacts
<1>4. DOMAIN channel' \subseteq Nat
  <2>1. Tail(channel) \in Seq(RequestRecord \cup Barrier)
    BY <1>1, <1>2, TailFacts
  <2> QED
    BY <1>1, <2>1
<1>5. \/ running' = None
      \/ running' = channel[1] /\ channel[1].kind # "Barrier"
  BY <1>1, <1>3 DEF TakeRequest, ServeBarrier, workerVars
<1>6. QueueOrdered'
  <2>1. \A i, j \in DOMAIN channel' :
            i < j /\ channel'[i].kind # "Barrier" /\ channel'[j].kind # "Barrier" =>
                channel'[i].id < channel'[j].id
    <3> TAKE i, j \in DOMAIN channel'
    <3>1. i \in Nat /\ j \in Nat /\ (i < j => i + 1 < j + 1)
      BY <1>4
    <3> QED
      BY <1>3, <3>1 DEF QueueOrdered
  <2>2. \A i \in DOMAIN channel' :
            running' # None /\ channel'[i].kind # "Barrier" => running'.id < channel'[i].id
    <3> TAKE i \in DOMAIN channel'
    <3>1. i \in Nat /\ 1 < i + 1
      <4>1. i + 1 \in DOMAIN channel /\ i \in Nat
        BY <1>3, <1>4
      <4>2. i # 0
        BY <1>1, <1>2, TailFacts
      <4> QED
        BY <4>1, <4>2
    <3> QED
      BY <1>3, <1>5, <3>1 DEF QueueOrdered
  <2> QED
    BY <2>1, <2>2 DEF QueueOrdered
<1>7. Outstanding' \subseteq Outstanding
  <2>1. \A x \in Outstanding' :
            \/ \E i \in DOMAIN channel' : channel'[i] = x /\ x.kind # "Barrier"
            \/ x = running' /\ running' # None
    BY DEF Outstanding
  <2>2. \A x \in Outstanding' : \E i \in DOMAIN channel : channel[i] = x /\ x.kind # "Barrier"
    BY <1>3, <1>5, <2>1
  <2> QED
    BY <2>2 DEF Outstanding
<1> QED
  BY <1>6, <1>7

\* What is appended stands behind everything issued before.
LEMMA QueueGrows ==
    ASSUME ServiceTyped, QueueOrdered, \A r \in Outstanding : r.id < nextRequestId,
           NEW e \in RequestRecord \cup Barrier, channel' = Append(channel, e),
           UNCHANGED running, e.kind # "Barrier" => e.id = nextRequestId
    PROVE  /\ QueueOrdered'
           /\ e.kind # "Barrier" => Outstanding' = Outstanding \cup {e}
           /\ e.kind = "Barrier" => Outstanding' = Outstanding
<1>1. channel \in Seq(RequestRecord \cup Barrier)
  BY DEF ServiceTyped
<1>2. /\ DOMAIN channel' = DOMAIN channel \cup {Len(channel) + 1}
      /\ DOMAIN channel \subseteq Nat /\ Len(channel) + 1 \in Nat
      /\ \A i \in DOMAIN channel : channel'[i] = channel[i] /\ i < Len(channel) + 1
      /\ channel'[Len(channel) + 1] = e
  <2>1. Len(channel) \in Nat
    BY <1>1
  <2> QED
    BY <1>1, <2>1, AppendFacts
<1>3. \A i \in DOMAIN channel : channel[i].kind # "Barrier" => channel[i].id < nextRequestId
  BY OutstandingFacts
<1>4. running # None => running.id < nextRequestId
  BY OutstandingFacts
<1>5. QueueOrdered'
  <2>1. \A i, j \in DOMAIN channel' :
            i < j /\ channel'[i].kind # "Barrier" /\ channel'[j].kind # "Barrier" =>
                channel'[i].id < channel'[j].id
    <3> SUFFICES ASSUME NEW i \in DOMAIN channel', NEW j \in DOMAIN channel', i < j,
                        channel'[i].kind # "Barrier", channel'[j].kind # "Barrier"
                 PROVE  channel'[i].id < channel'[j].id
      OBVIOUS
    <3>1. i \in DOMAIN channel
      BY <1>2
    <3>2. CASE j \in DOMAIN channel
      BY <1>2, <3>1, <3>2 DEF QueueOrdered
    <3>3. CASE j = Len(channel) + 1
      BY <1>2, <1>3, <3>1, <3>3
    <3> QED
      BY <1>2, <3>2, <3>3
  <2>2. \A i \in DOMAIN channel' :
            running' # None /\ channel'[i].kind # "Barrier" => running'.id < channel'[i].id
    BY <1>2, <1>4 DEF QueueOrdered
  <2> QED
    BY <2>1, <2>2 DEF QueueOrdered
<1>6. \A x : x \in Outstanding' <=>
          \/ \E i \in DOMAIN channel' : channel'[i] = x /\ x.kind # "Barrier"
          \/ x = running /\ running # None
  BY DEF Outstanding
<1>7. \A x : x \in Outstanding' <=> x \in Outstanding \/ (x = e /\ e.kind # "Barrier")
  <2>1. \A x : (\E i \in DOMAIN channel' : channel'[i] = x /\ x.kind # "Barrier") <=>
            \/ \E i \in DOMAIN channel : channel[i] = x /\ x.kind # "Barrier"
            \/ x = e /\ e.kind # "Barrier"
    BY <1>2
  <2> QED
    BY <1>6, <2>1, OutstandingFacts
<1> QED
  BY <1>5, <1>7

-----------------------------------------------------------------------------
\* Steps that neither submit, publish, apply nor install.

QuietStep ==
    /\ QueueOrdered' /\ HandoffHolds'
    /\ Outstanding' \subseteq Outstanding
    /\ \/ completions' = completions
       \/ completions # <<>> /\ completions' = Tail(completions)
    /\ UNCHANGED <<files, createBindings, nextRequestId, used>>
    /\ \/ UNCHANGED <<authoring, destination, applied>>
       \/ authoring' = None /\ destination' = None /\ applied' = None
    /\ task' # None /\ task'.stage = "Publish" => task' = task
    /\ Required' \subseteq Required
    /\ authoring' = authoring \/ Required' = {}

\* What the main thread holds behind a step of its own.
MainQuiet ==
    /\ HandoffHolds'
    /\ task' # None /\ task'.stage = "Publish" => task' = task
    /\ Required' \subseteq Required

LEMMA SameTask ==
    ASSUME HandoffHolds, UNCHANGED <<task, close, fault, authoring>>
    PROVE  MainQuiet
BY DEF MainQuiet, HandoffHolds, Required

LEMMA TaskEnds ==
    ASSUME HandoffHolds, task' = None, close' = close \/ close' = None,
           close' = None \/ fault' = None
    PROVE  MainQuiet
BY DEF MainQuiet, HandoffHolds, Required

LEMMA TaskGoesOn ==
    ASSUME HandoffHolds, task # None, task \in Task, NEW stage \in Stages,
           stage \notin {"Publish", "BeginClose"},
           task' = [task EXCEPT !.stage = stage], UNCHANGED <<close, fault, authoring>>
    PROVE  MainQuiet
<1>1. /\ task'.stage = stage /\ task'.op = task.op
      /\ task'.token = task.token /\ task'.request = task.request
  BY DEF Task
<1> QED
  BY <1>1 DEF MainQuiet, HandoffHolds, Required

\* The service's half: nothing enters the channel but barriers.
ServiceQuiet ==
    /\ QueueOrdered'
    /\ Outstanding' \subseteq Outstanding
    /\ UNCHANGED <<completions, files, createBindings, nextRequestId>>

LEMMA AdmissionQuiet ==
    ASSUME QueueOrdered, NEW adm,
           OnlyAdmission(adm)
    PROVE  ServiceQuiet
<1>1. /\ UNCHANGED <<channel, running, completions, files, createBindings, nextRequestId>>
  BY DEF OnlyAdmission, queueVars, workerVars, diskVars
<1> QED
  BY <1>1, QueueFrame DEF ServiceQuiet

LEMMA PauseQuiet ==
    ASSUME QueueOrdered, NEW s, CompletePause(s) \/ PoisonPause(s)
    PROVE  ServiceQuiet
<1>1. /\ UNCHANGED <<channel, running, completions, files, createBindings, nextRequestId>>
  BY DEF CompletePause, PoisonPause, queueVars, workerVars, diskVars
<1> QED
  BY <1>1, QueueFrame DEF ServiceQuiet

LEMMA BeginPauseQuiet ==
    ASSUME ServiceTyped, QueueOrdered, IdsIssued, NEW s \in Sessions, BeginPause(s)
    PROVE  ServiceQuiet
<1>1. UNCHANGED <<running, completions, files, createBindings, nextRequestId>>
  BY DEF BeginPause, workerVars, diskVars
<1>2. CASE channel' = channel
  BY <1>1, <1>2, QueueFrame DEF ServiceQuiet
<1>3. CASE channel' # channel
  <2>1. PICK e : e = [kind |-> "Barrier", session |-> s, generation |-> admission[s].generation]
    OBVIOUS
  <2>2. e \in Barrier /\ e.kind = "Barrier"
    BY <2>1, AdmissionFacts DEF Barrier, Generation
  <2>3. channel' = Append(channel, e)
    BY <1>3, <2>1 DEF BeginPause
  <2>4. QueueOrdered' /\ Outstanding' = Outstanding
    BY <1>1, <2>2, <2>3, QueueGrows DEF IdsIssued
  <2> QED
    BY <1>1, <2>4 DEF ServiceQuiet
<1> QED
  BY <1>2, <1>3

LEMMA QuietPair ==
    ASSUME ServiceQuiet, MainQuiet, UNCHANGED used,
           \/ UNCHANGED <<authoring, destination, applied>>
           \/ authoring' = None /\ destination' = None /\ applied' = None /\ Required' = {}
    PROVE  QuietStep
BY DEF QuietStep, ServiceQuiet, MainQuiet

LEMMA WorkerMovesQuiet ==
    ASSUME ServiceTyped, QueueOrdered, HandoffHolds, TakeRequest \/ ServeBarrier, UNCHANGED mainVars
    PROVE  QuietStep
<1>1. UNCHANGED <<completions, files, createBindings, nextRequestId>>
  BY DEF TakeRequest, ServeBarrier, clientVars, workerVars, diskVars
<1>2. ServiceQuiet
  BY <1>1, QueueShortens DEF ServiceQuiet
<1>3. UNCHANGED <<task, close, fault, authoring, destination, applied, used>>
  BY DEF mainVars, openVars, closeVars
<1> QED
  BY <1>2, <1>3, SameTask, QuietPair

LEMMA PanicQuiet ==
    ASSUME QueueOrdered, HandoffHolds, Panic
    PROVE  QuietStep
<1>1. /\ running' = None /\ channel' = <<>> /\ DOMAIN channel' = {}
      /\ UNCHANGED <<completions, files, createBindings, nextRequestId>>
  BY DEF Panic, WorkerPanics, clientVars, diskVars
<1>2. Outstanding' = {} /\ QueueOrdered'
  BY <1>1 DEF Outstanding, QueueOrdered
<1>3. UNCHANGED <<task, close, fault, authoring, destination, applied, used>>
  BY DEF Panic, mainVars, openVars, closeVars
<1> QED
  BY <1>1, <1>2, <1>3, SameTask, QuietPair DEF ServiceQuiet

LEMMA PollCloseQuiet ==
    ASSUME QueueOrdered, HandoffHolds, PollCloseQuiesced \/ PollCloseFaults
    PROVE  QuietStep
<1>1. /\ CompletePause(close.session) \/ PoisonPause(close.session)
      /\ UNCHANGED <<authoring, destination, applied, used>>
      /\ close' = None
  BY DEF PollCloseQuiesced, PollCloseFaults, openVars
<1>2. ServiceQuiet
  BY <1>1, PauseQuiet
<1>3. CASE PollCloseFaults
  <2>1. task' = None
    BY <1>3 DEF PollCloseFaults
  <2> QED
    BY <1>1, <1>2, <2>1, TaskEnds, QuietPair
<1>4. CASE PollCloseQuiesced
  <2>1. /\ close # None
        /\ task' = [NewTask("Close", "Drain") EXCEPT !.token = close.session,
                                                    !.request = close.required]
    BY <1>4 DEF PollCloseQuiesced
  <2>2. task'.op = "Close" /\ task'.stage = "Drain" /\ task'.request = close.required
    BY <2>1 DEF NewTask
  <2>3. MainQuiet
    BY <1>1, <2>1, <2>2 DEF MainQuiet, HandoffHolds, Required
  <2> QED
    BY <1>1, <1>2, <2>3, QuietPair
<1> QED
  BY <1>3, <1>4

LEMMA BeginCloseQuiet ==
    ASSUME LifecycleInv, QueueOrdered, IdsIssued, HandoffHolds, BeginClose
    PROVE  QuietStep
<1>1. /\ authoring # None /\ BeginPause(authoring.session) /\ task' = None
      /\ ~CloseBlocksActions
      /\ task = None \/ (task # None /\ task.stage = "BeginClose")
      /\ close' = IF workerLive
                  THEN [session |-> authoring.session,
                        required |-> IF task = None THEN None ELSE task.request]
                  ELSE None
      /\ UNCHANGED <<authoring, destination, applied, used, fault>>
  BY DEF BeginClose, openVars
<1>2. authoring.session \in Sessions
  BY <1>1, MainNumbers
<1>3. ServiceQuiet
  BY <1>1, <1>2, BeginPauseQuiet DEF LifecycleInv, ServiceInv
<1>4. ASSUME NEW k \in RequestIds, close' # None, close'.required = k
      PROVE  k \in Required
  <2>1. k # None
    BY NoneFacts DEF RequestIds
  <2>2. task # None /\ task.request = k
    BY <1>1, <1>4, <2>1
  <2> QED
    BY <1>1, <2>2 DEF HandoffHolds, Required
<1>5. MainQuiet
  BY <1>1, <1>4 DEF MainQuiet, HandoffHolds, Required, CloseBlocksActions
<1> QED
  BY <1>1, <1>3, <1>5, QuietPair

LEMMA WaitQuiet ==
    ASSUME LifecycleInv, QueueOrdered, HandoffHolds,
           HandoffQuiesced \/ HandoffTimesOut \/ Discard
    PROVE  QuietStep
<1>1. PICK t : CompletePause(t) \/ PoisonPause(t)
  BY DEF HandoffQuiesced, HandoffTimesOut, Discard
<1>2. UNCHANGED <<authoring, destination, applied, used, close, fault>>
  BY DEF HandoffQuiesced, HandoffTimesOut, Discard, openVars, closeVars
<1>3. ServiceQuiet
  BY <1>1, PauseQuiet
<1>4. task # None /\ task \in Task /\ close = None
  BY TaskFacts DEF LifecycleInv, HandoffQuiesced, HandoffTimesOut, Discard
<1>5. CASE HandoffTimesOut
  BY <1>2, <1>3, <1>4, <1>5, TaskEnds, QuietPair DEF HandoffTimesOut
<1>6. CASE HandoffQuiesced
  <2>1. task' = [task EXCEPT !.stage = "Drain"] /\ "Drain" \in Stages
    BY <1>6 DEF HandoffQuiesced, Stages
  <2> QED
    BY <1>2, <1>3, <1>4, <2>1, TaskGoesOn, QuietPair
<1>7. CASE Discard
  <2>1. task' = [task EXCEPT !.stage = "EndDiscard"] /\ "EndDiscard" \in Stages
    BY <1>7 DEF Discard, Stages
  <2> QED
    BY <1>2, <1>3, <1>4, <2>1, TaskGoesOn, QuietPair
<1> QED
  BY <1>5, <1>6, <1>7

LEMMA DrainedQuiet ==
    ASSUME LifecycleInv, QueueOrdered, HandoffHolds, task # None,
           task' = [task EXCEPT !.stage = "Finish"],
           UNCHANGED <<openVars, closeVars, used, persistenceVars>>
    PROVE  QuietStep
<1>1. UNCHANGED <<authoring, destination, applied, close, fault, channel, running,
                  completions, files, createBindings, nextRequestId>>
  BY DEF openVars, closeVars, persistenceVars, clientVars, queueVars, workerVars, diskVars
<1>2. ServiceQuiet
  BY <1>1, QueueFrame DEF ServiceQuiet
<1>3. task \in Task /\ "Finish" \in Stages
  BY TaskFacts DEF LifecycleInv, Stages
<1> QED
  BY <1>1, <1>2, <1>3, TaskGoesOn, QuietPair

LEMMA EndQuiet ==
    ASSUME LifecycleInv, QueueOrdered, HandoffHolds,
           FinishClose \/ ForceClose \/ RejectClose \/ HandoffFails \/ EndDiscard
    PROVE  QuietStep
<1>1. PICK adm : OnlyAdmission(adm)
  BY DEF FinishClose, ForceClose, RejectClose, HandoffFails, EndDiscard
<1>2. ServiceQuiet
  BY <1>1, AdmissionQuiet
<1>3. CASE RejectClose \/ HandoffFails \/ EndDiscard
  <2>1. /\ task # None /\ task' = None
        /\ UNCHANGED <<authoring, destination, applied, close, fault, used>>
    BY <1>3 DEF RejectClose, HandoffFails, EndDiscard, openVars, closeVars
  <2>2. close' = None
    BY <2>1, TaskFacts DEF LifecycleInv
  <2> QED
    BY <1>2, <2>1, <2>2, TaskEnds, QuietPair
<1>4. CASE FinishClose \/ ForceClose
  <2>1. /\ authoring' = None /\ destination' = None /\ applied' = None
        /\ task' = None /\ UNCHANGED <<close, used>>
    BY <1>4 DEF FinishClose, ForceClose, Finalize
  <2>2. close = None
    BY <1>4, TaskFacts DEF FinishClose, ForceClose, HandoffHolds, LifecycleInv
  <2>3. Required' = {}
    BY <2>1, <2>2 DEF Required
  <2> QED
    BY <1>2, <2>1, <2>2, <2>3, TaskEnds, QuietPair
<1> QED
  BY <1>3, <1>4

LEMMA CreateFailsQuiet ==
    ASSUME LifecycleInv, QueueOrdered, HandoffHolds, CreateFails
    PROVE  QuietStep
<1>1. /\ task # None /\ task' = [task EXCEPT !.stage = "BeginDiscard"]
      /\ completions' = completions \/ (completions # <<>> /\ completions' = Tail(completions))
      /\ UNCHANGED <<authoring, destination, applied, close, fault, used, channel, running,
                     files, createBindings, nextRequestId>>
  BY DEF CreateFails, openVars, closeVars, clientVars, queueVars, workerVars, diskVars
<1>2. QueueOrdered' /\ Outstanding' \subseteq Outstanding
  BY <1>1, QueueFrame
<1>3. task \in Task /\ "BeginDiscard" \in Stages
  BY <1>1, TaskFacts DEF LifecycleInv, Stages
<1>4. MainQuiet
  BY <1>1, <1>3, TaskGoesOn
<1> QED
  BY <1>1, <1>2, <1>4 DEF QuietStep, MainQuiet

LEMMA BeginDiscardQuiet ==
    ASSUME LifecycleInv, QueueOrdered, IdsIssued, HandoffHolds, BeginDiscard
    PROVE  QuietStep
<1>1. /\ task # None /\ task.stage = "BeginDiscard"
      /\ BeginPause(task.candidate.session)
      /\ task' = [task EXCEPT !.stage = IF workerLive THEN "Discard" ELSE "EndDiscard"]
      /\ UNCHANGED <<authoring, destination, applied, close, fault, used>>
  BY DEF BeginDiscard, openVars, closeVars
<1>2. PICK s \in Sessions : s = task.candidate.session
  BY <1>1, TaskFacts DEF LifecycleInv, Shaped, Creating, AuthoringSession
<1>3. PICK stage \in {"Discard", "EndDiscard"} : task' = [task EXCEPT !.stage = stage]
  <2>1. CASE workerLive
    BY <1>1, <2>1
  <2>2. CASE ~workerLive
    BY <1>1, <2>2
  <2> QED
    BY <2>1, <2>2
<1>4. task \in Task /\ stage \in Stages /\ stage \notin {"Publish", "BeginClose"}
  BY <1>1, <1>3, TaskFacts DEF LifecycleInv, Stages
<1>5. ServiceQuiet
  BY <1>1, <1>2, BeginPauseQuiet DEF LifecycleInv, ServiceInv
<1> QED
  BY <1>1, <1>3, <1>4, <1>5, TaskGoesOn, QuietPair

LEMMA BeginHandoffQuiet ==
    ASSUME LifecycleInv, QueueOrdered, IdsIssued, HandoffHolds,
           NEW op \in {"Open", "Recover", "Create", "CloseNow"}, NEW file,
           BeginHandoff(op, file)
    PROVE  QuietStep
<1>1. /\ UNCHANGED <<authoring, destination, applied, close, fault, used>>
      /\ task = None /\ close = None
  BY DEF BeginHandoff, openVars, closeVars, Idle, CloseBlocksActions
<1>2. task' # None =>
          /\ task'.op = op /\ task'.stage \in {"Finish", "Quiesce"}
          /\ authoring # None => task'.token = authoring.session
  BY DEF BeginHandoff, NewTask
<1>3. MainQuiet
  BY <1>1, <1>2 DEF MainQuiet, HandoffHolds, Required
<1>4. CASE authoring = None
  <2>1. UNCHANGED <<channel, running, completions, files, createBindings, nextRequestId>>
    BY <1>4 DEF BeginHandoff, persistenceVars, clientVars, queueVars, workerVars, diskVars
  <2>2. ServiceQuiet
    BY <2>1, QueueFrame DEF ServiceQuiet
  <2> QED
    BY <1>1, <1>3, <2>2, QuietPair
<1>5. CASE authoring # None
  <2>1. BeginPause(authoring.session) /\ authoring.session \in Sessions
    BY <1>5, MainNumbers DEF BeginHandoff
  <2>2. ServiceQuiet
    BY <2>1, BeginPauseQuiet DEF LifecycleInv, ServiceInv
  <2> QED
    BY <1>1, <1>3, <2>2, QuietPair
<1> QED
  BY <1>4, <1>5

LEMMA StutterQuiet ==
    ASSUME QueueOrdered, HandoffHolds, UNCHANGED vars
    PROVE  QuietStep
<1>1. UNCHANGED <<authoring, destination, applied, close, fault, task, used, channel, running,
                  completions, files, createBindings, nextRequestId>>
  BY DEF vars, mainVars, openVars, closeVars, persistenceVars, clientVars, queueVars,
         workerVars, diskVars
<1>2. ServiceQuiet
  BY <1>1, QueueFrame DEF ServiceQuiet
<1> QED
  BY <1>1, <1>2, SameTask, QuietPair

-----------------------------------------------------------------------------
\* Steps that submit nothing: the order of requests and of lineages.

Calm ==
    /\ QueueOrdered'
    /\ Outstanding' \subseteq Outstanding
    /\ \A d \in Done' : d \in Done \/ (d \in Outstanding /\ d \notin Outstanding')
    /\ nextRequestId' = nextRequestId
    /\ used \subseteq used'
    /\ applied' # None => applied'.request < nextRequestId
    /\ Publishing' => task' = task
    /\ \A s \in Sessions :
           Live(s)' => \/ s \in Fresh
                       \/ Live(s) /\ LineageOf(s)' = LineageOf(s)

LEMMA FreshHasNothing ==
    ASSUME RevisionInv, NEW s \in Fresh
    PROVE  \A r \in Outstanding : r.session # s
BY DEF RevisionInv, VersionInv, FreshUnwritten

LEMMA CalmOrder ==
    ASSUME LifecycleInv, RevisionInv, QueueOrdered, OrderInv, Calm
    PROVE  OrderInv'
<1>1. ServiceTyped
  BY DEF LifecycleInv, ServiceInv
<1>2. \A r \in Outstanding : r.session \in Sessions /\ r.session \notin Fresh
  BY <1>1, Requests, FreshHasNothing
<1>3. \A r \in Outstanding' : Live(r.session)' => Live(r.session)
  BY <1>2 DEF Calm
<1>4. LiveLast'
  BY <1>3 DEF OrderInv, LiveLast, Calm
<1>5. Contiguous'
  BY DEF OrderInv, Contiguous, Calm
<1>6. Outstanding' \cup Done' \subseteq Outstanding \cup Done
  BY DEF Calm
<1>7. IdsIssued'
  <2>1. \A r \in Outstanding' \cup Done' : r.id < nextRequestId'
    BY <1>6 DEF OrderInv, IdsIssued, Calm
  <2>2. \A r \in Outstanding', d \in Done' : r.id # d.id
    <3> SUFFICES ASSUME NEW r \in Outstanding', NEW d \in Done', r.id = d.id
                 PROVE  FALSE
      OBVIOUS
    <3>1. r \in Outstanding /\ (d \in Outstanding => r = d)
      BY <1>1, IdentitiesDiffer DEF Calm
    <3> QED
      BY <3>1 DEF OrderInv, IdsIssued, Calm
  <2> QED
    BY <2>1, <2>2 DEF IdsIssued, Calm
<1>8. CandidateAlone'
  <2> SUFFICES ASSUME Publishing'
               PROVE  CandidateAlone'
    BY DEF CandidateAlone
  <2>1. task' = task /\ Publishing
    BY DEF Calm, Publishing
  <2> QED
    BY <1>6, <2>1 DEF OrderInv, CandidateAlone
<1> QED
  BY <1>4, <1>5, <1>7, <1>8 DEF OrderInv

LEMMA CalmLineages ==
    ASSUME LifecycleInv, RevisionInv, LineagesInOrder, Calm
    PROVE  LineagesInOrder'
<1>1. \A r \in Outstanding : r.session \in Sessions /\ r.session \notin Fresh
  BY Requests, FreshHasNothing DEF LifecycleInv, ServiceInv
<1>2. Saves' \subseteq Saves
  BY DEF Saves, Calm
<1>3. \A r \in Saves' : Live(r.session)' => Live(r.session) /\ LineageOf(r.session)' = LineageOf(r.session)
  BY <1>1, <1>2 DEF Calm, Saves
<1>4. \A r \in Saves' : Live(r.session)' => r.lineage <= LineageOf(r.session)'
  BY <1>2, <1>3 DEF LineagesInOrder
<1> QED
  BY <1>2, <1>4 DEF LineagesInOrder

LEMMA CalmBindings ==
    ASSUME BindingsKnown, Calm, UNCHANGED createBindings
    PROVE  BindingsKnown'
<1> SUFFICES ASSUME NEW s \in Sessions, NEW l \in RequestIds, createBindings[s][l] # None
             PROVE  s \in used' /\ (Live(s)' => l <= LineageOf(s)')
  BY DEF BindingsKnown
<1>1. s \in used /\ s \notin Fresh /\ (Live(s) => l <= LineageOf(s))
  BY DEF BindingsKnown, Fresh
<1> QED
  BY <1>1 DEF Calm

\* The destination stays, or nothing is said of it.
LEMMA CalmDestination ==
    ASSUME DestinationShared, Calm,
           destination' = None \/ destination' = destination,
           \A s \in Sessions : IsOpen(s)' => destination' = None \/ IsOpen(s),
           ServiceTyped
    PROVE  DestinationShared'
<1>1. Saves' \subseteq Saves /\ \A r \in Saves : r.session \in Sessions
  BY Requests DEF Saves, Calm
<1> SUFFICES ASSUME destination' # None
             PROVE  DestinationShared'
  BY DEF DestinationShared
<1>2. destination' = destination /\ nextRequestId' = nextRequestId
  BY DEF Calm
<1>3. \A r \in Saves' : IsOpen(r.session)' => IsOpen(r.session)
  BY <1>1
<1> QED
  BY <1>1, <1>2, <1>3 DEF DestinationShared

LEMMA CalmOwners ==
    ASSUME OwnerInv, Calm, UNCHANGED <<files, createBindings>>,
           destination' # None =>
               \/ destination'.publication # "CreateNew"
               \/ destination' = destination /\ \A s \in Sessions : IsOpen(s)' => IsOpen(s)
    PROVE  OwnerInv'
<1>1. Saves' \subseteq Saves
  BY DEF Saves, Calm
<1>2. \A r : BindingOf(r)' = BindingOf(r)
  BY DEF BindingOf
<1>3. \A f, s, l : Claimed(f, s, l)' <=> Claimed(f, s, l)
  BY DEF Claimed
<1>4. SavesOwn'
  BY <1>1, <1>2, <1>3 DEF OwnerInv, SavesOwn, Own
<1>5. DestinationOwns'
  <2>1. PICK d : d = destination'
    OBVIOUS
  <2>2. ASSUME NEW s \in Sessions, IsOpen(s)', d # None, d.publication = "CreateNew",
               createBindings[s][d.revision] = "Established"
        PROVE  /\ Claimed(d.file, s, d.revision)'
               /\ \A q \in Saves' : Own(q, d.file, s, d.revision)
    <3>1. destination = d /\ IsOpen(s)
      BY <2>1, <2>2
    <3>2. /\ Claimed(d.file, s, d.revision)
          /\ \A q \in Saves : Own(q, d.file, s, d.revision)
      BY <2>2, <3>1 DEF OwnerInv, DestinationOwns
    <3> QED
      BY <1>1, <1>3, <3>2
  <2> QED
    BY <2>1, <2>2 DEF DestinationOwns, Claimed, Own
<1> QED
  BY <1>4, <1>5 DEF OwnerInv

-----------------------------------------------------------------------------
\* What is saved stays saved.

\* A path that names something is written by a save to it, or left alone.
KeepsFiles ==
    \A f \in Files :
        files[f] # None =>
            \/ files'[f] = files[f]
            \/ \E r \in Saves : r.file = f /\ files'[f] = Published(r)

LEMMA SecuredStays ==
    ASSUME ServiceTyped, RevisionInv, KeepsFiles,
           NEW s \in Sessions, NEW f \in Files, NEW v \in Nat, Secured(s, f, v),
           \A r \in Saves' : r \in Saves \/ r.session = s \/ r.file # f
    PROVE  Secured(s, f, v)'
<1>1. /\ files[f] # None /\ files[f].session = s /\ files[f].version >= v
      /\ \A r \in Saves : r.file = f => r.session = s
      /\ files[f].version \in Nat
  BY Numbers DEF Secured
<1>2. \A r \in Saves' : r.file = f => r.session = s
  BY <1>1
<1>3. CASE files'[f] = files[f]
  BY <1>1, <1>2, <1>3 DEF Secured
<1>4. CASE \E r \in Saves : r.file = f /\ files'[f] = Published(r)
  <2>1. PICK r \in Saves : r.file = f /\ files'[f] = Published(r)
    BY <1>4
  <2>2. r \in Outstanding /\ r.kind = "Manual" /\ r.session = s /\ r.version \in Nat
    BY <1>1, <2>1, Requests DEF Saves
  <2>3. files[f].version <= r.version
    BY <1>1, <2>2 DEF RevisionInv, ReservationInv, DiskFirst, SavesOf, WrittenBy, Before
  <2>4. files'[f].session = s /\ files'[f].version = r.version
    BY <2>1, <2>2 DEF Published
  <2>5. files'[f] # None
    <3>1. Published(r) \in Content
      BY <2>2, Requests DEF Published, RequestRecord, Content, Option
    <3> QED
      BY <2>1, <3>1, NoneAssumption
  <2> QED
    BY <1>1, <1>2, <2>2, <2>3, <2>4, <2>5 DEF Secured
<1> QED
  BY <1>1, <1>3, <1>4 DEF KeepsFiles

\* The application receives completions in their order.
Received ==
    \/ completions' = completions
    \/ completions # <<>> /\ completions' = Tail(completions)

LEMMA ReceivedFacts ==
    ASSUME ServiceTyped, Received
    PROVE  /\ Done' \subseteq Done
           /\ \E k \in {0, 1} : \A i \in DOMAIN completions' :
                  /\ i \in Nat /\ i + k \in DOMAIN completions
                  /\ completions'[i] = completions[i + k]
<1>1. completions \in Seq(Completion)
  BY DEF ServiceTyped
<1>2. \E k \in {0, 1} : \A i \in DOMAIN completions' :
          /\ i \in Nat /\ i + k \in DOMAIN completions
          /\ completions'[i] = completions[i + k]
  <2>1. CASE completions' = completions
    <3>1. \A i \in DOMAIN completions' :
              i \in Nat /\ i + 0 \in DOMAIN completions /\ completions'[i] = completions[i + 0]
      BY <1>1, <2>1
    <3> QED
      BY <3>1
  <2>2. CASE completions # <<>> /\ completions' = Tail(completions)
    <3>1. Tail(completions) \in Seq(Completion)
      BY <1>1, <2>2, TailFacts
    <3>2. \A i \in DOMAIN completions' :
              i \in Nat /\ i + 1 \in DOMAIN completions /\ completions'[i] = completions[i + 1]
      BY <1>1, <2>2, <3>1, TailFacts
    <3> QED
      BY <3>2
  <2> QED
    BY <2>1, <2>2 DEF Received
<1> QED
  BY <1>2 DEF Done

LEMMA DoneSecuredFrame ==
    ASSUME ServiceTyped, RevisionInv, DoneSecured, DoneOrdered, KeepsFiles, Received,
           \A s \in Sessions : Live(s)' => s \in Fresh \/ Live(s),
           \A s \in Sessions, f \in Files : \A r \in Saves' :
               Live(s) /\ files[f] # None => r \in Saves \/ r.session = s \/ r.file # f
    PROVE  DoneSecured'
<1> SUFFICES ASSUME NEW i \in DOMAIN completions', NEW c, c = completions'[i],
                    c.ok, c.request.kind = "Manual", Live(c.request.session)'
             PROVE  Secured(c.request.session, c.request.file, c.request.version)'
  BY DEF DoneSecured
<1>1. PICK j \in DOMAIN completions : completions[j] = c
  BY ReceivedFacts
<1>2. /\ c.request \in Done /\ c.request.session \in Sessions
      /\ c.request.file \in Files /\ c.request.version \in Nat
  BY <1>1, Requests
<1>3. Live(c.request.session)
  BY <1>2 DEF DoneOrdered, Fresh
<1>4. Secured(c.request.session, c.request.file, c.request.version)
  BY <1>1, <1>3 DEF DoneSecured
<1>5. \A r \in Saves' :
          r \in Saves \/ r.session = c.request.session \/ r.file # c.request.file
  BY <1>2, <1>3, <1>4 DEF Secured
<1> QED
  BY <1>2, <1>4, <1>5, SecuredStays

LEMMA DoneOrderedFrame ==
    ASSUME ServiceTyped, DoneOrdered, Received, used \subseteq used',
           \A c \in Done, r \in Saves' :
               c.kind = "Manual" /\ r.session = c.session => r \in Saves \/ c.version <= r.version,
           \A c \in Done :
               c.kind = "Manual" /\ IsOpen(c.session)' => c.version <= authoring'.version
    PROVE  DoneOrdered'
<1>1. Done' \subseteq Done
  BY ReceivedFacts
<1>2. PICK k \in {0, 1} : \A i \in DOMAIN completions' :
          /\ i \in Nat /\ i + k \in DOMAIN completions
          /\ completions'[i] = completions[i + k]
  BY ReceivedFacts
<1>3. ASSUME NEW i \in DOMAIN completions', NEW j \in DOMAIN completions', i < j
      PROVE  i + k < j + k
  BY <1>2, <1>3
<1>4. \A i, j \in DOMAIN completions' :
          LET c == completions'[i].request
              d == completions'[j].request
          IN  i < j /\ c.kind = "Manual" /\ SavesOf(d, c.session) => c.version <= d.version
  BY <1>2, <1>3 DEF DoneOrdered
<1>5. \A c \in Done' : c.session \in used'
  BY <1>1 DEF DoneOrdered
<1>6. \A c \in Done' : c.kind = "Manual" =>
          \A r \in Saves' : r.session = c.session => c.version <= r.version
  BY <1>1 DEF DoneOrdered
<1> QED
  BY <1>1, <1>4, <1>5, <1>6 DEF DoneOrdered

LEMMA SavedBelowFrame ==
    ASSUME SavedBelow, authoring' = None \/ authoring' = authoring,
           \A r \in Saves' \cup Done' :
               authoring # None /\ SavesOf(r, authoring.session) =>
                   r \in Saves \cup Done \/ r.version = authoring.version
    PROVE  SavedBelow'
<1> SUFFICES ASSUME authoring' # None, authoring'.saved # None
             PROVE  SavedBelow'
  BY DEF SavedBelow
<1> QED
  BY DEF SavedBelow

LEMMA AppliedFrame ==
    ASSUME ServiceTyped, MainTyped, RevisionInv, AppliedSecured, KeepsFiles,
           applied' = None \/ UNCHANGED <<applied, authoring, destination>>,
           \A f \in Files : \A r \in Saves' :
               authoring # None /\ files[f] # None =>
                   r \in Saves \/ r.session = authoring.session \/ r.file # f
    PROVE  AppliedSecured'
<1> SUFFICES ASSUME applied' # None
             PROVE  AppliedSecured'
  BY DEF AppliedSecured
<1>1. /\ applied # None /\ authoring # None /\ destination # None
      /\ applied.destination = destination
      /\ authoring.file = destination.file /\ authoring.saved # None
      /\ Secured(authoring.session, authoring.file, authoring.saved)
      /\ UNCHANGED <<applied, authoring, destination>>
  BY DEF AppliedSecured
<1>2. PICK s, f, v : s = authoring.session /\ f = authoring.file /\ v = authoring.saved
  OBVIOUS
<1>3. s \in Sessions /\ f \in Files /\ v \in Nat
  <2>1. authoring \in AuthoringSession
    BY <1>1 DEF MainTyped, Option
  <2> QED
    BY <1>1, <1>2, <2>1, PersistenceAssumption DEF AuthoringSession, Option, Versions
<1>4. Secured(s, f, v)'
  <2>1. \A r \in Saves' : r \in Saves \/ r.session = s \/ r.file # f
    BY <1>1, <1>2, <1>3 DEF Secured
  <2> QED
    BY <1>1, <1>2, <1>3, <2>1, SecuredStays
<1>5. Secured(authoring.session, authoring.file, authoring.saved)'
  BY <1>1, <1>2, <1>4 DEF Secured
<1> QED
  BY <1>1, <1>5 DEF AppliedSecured

LEMMA RequiredFrame ==
    ASSUME RequiredCovered, nextRequestId' = nextRequestId, Required' \subseteq Required,
           UNCHANGED <<authoring, applied>> \/ Required' = {},
           Outstanding' \cup Done' \subseteq Outstanding \cup Done
    PROVE  RequiredCovered'
BY DEF RequiredCovered

-----------------------------------------------------------------------------
\* Quiet steps, other programs and edits.

LEMMA CandidateIsNotOpen ==
    ASSUME LifecycleInv, HandoffHolds, OrderInv, NEW s, IsCandidate(s)
    PROVE  ~IsOpen(s)
<1>1. task # None /\ task.stage = "Publish" /\ task.op = "Create" /\ task.candidate.session = s
  BY DEF IsCandidate, Publishing, OrderInv, CandidateAlone
<1>2. task.candidate.session # task.token
  BY <1>1, TaskFacts DEF LifecycleInv, Shaped, Creating
<1> QED
  BY <1>1, <1>2 DEF HandoffHolds, IsOpen

\* A step that changes neither the sessions' identities nor the destination.
SessionsStay ==
    /\ \/ authoring' = None
       \/ /\ authoring # None /\ authoring' # None
          /\ authoring'.session = authoring.session
          /\ destination' = destination
    /\ Publishing' => task' = task

LEMMA SessionsStayLive ==
    ASSUME LifecycleInv, HandoffHolds, OrderInv, SessionsStay
    PROVE  /\ \A s : IsOpen(s)' => IsOpen(s)
           /\ \A s : Live(s)' => Live(s) /\ LineageOf(s)' = LineageOf(s)
<1>1. \A s : IsOpen(s)' => IsOpen(s) /\ destination' = destination
  BY DEF SessionsStay, IsOpen
<1>2. \A s : IsCandidate(s)' => IsCandidate(s)
  BY DEF SessionsStay, IsCandidate, Publishing
<1>3. \A s : IsOpen(s) => ~IsCandidate(s)
  BY CandidateIsNotOpen
<1>4. ASSUME NEW s, Live(s)'
      PROVE  Live(s) /\ LineageOf(s)' = LineageOf(s)
  <2>1. CASE IsCandidate(s)'
    BY <1>2, <2>1 DEF Live, LineageOf
  <2>2. CASE ~IsCandidate(s)' /\ IsOpen(s)'
    BY <1>1, <1>3, <2>2 DEF Live, LineageOf
  <2> QED
    BY <1>4, <2>1, <2>2 DEF Live
<1> QED
  BY <1>1, <1>4

LEMMA QuietDestination ==
    ASSUME LifecycleInv, LifecycleInv', RevisionInv, DestinationInv, QuietStep
    PROVE  DestinationInv'
<1> USE DEF DestinationInv
<1>1. ServiceTyped /\ MainTyped
  BY DEF LifecycleInv, ServiceInv, MainInv
<1>2. SessionsStay
  BY DEF QuietStep, SessionsStay, Publishing
<1>3. Received /\ KeepsFiles
  BY DEF QuietStep, Received, KeepsFiles
<1>4. Done' \subseteq Done
  BY <1>1, <1>3, ReceivedFacts
<1>5. Saves' \subseteq Saves
  BY DEF QuietStep, Saves
<1>6. Calm
  BY <1>2, <1>4, SessionsStayLive DEF QuietStep, Calm, SessionsStay, OrderInv, IdsIssued
<1>7. OrderInv'
  BY <1>6, CalmOrder
<1>8. destination' = None \/ destination' = destination
  BY DEF QuietStep
<1>9. LineageInv'
  BY <1>1, <1>2, <1>6, <1>8, CalmLineages, CalmBindings, CalmDestination, SessionsStayLive
     DEF LineageInv, QuietStep
<1>10. OwnerInv'
  BY <1>2, <1>6, <1>8, CalmOwners, SessionsStayLive DEF QuietStep
<1>11. DoneSecured'
  BY <1>1, <1>2, <1>3, <1>5, SessionsStayLive, DoneSecuredFrame DEF SavedInv
<1>12. DoneOrdered'
  <2>1. used \subseteq used' /\ (authoring' = authoring \/ authoring' = None)
    BY DEF QuietStep
  <2>2. \A c \in Done : c.kind = "Manual" /\ IsOpen(c.session)' => c.version <= authoring'.version
    BY <1>2, <2>1, SessionsStayLive DEF SavedInv, DoneOrdered, IsOpen
  <2> QED
    BY <1>1, <1>3, <1>5, <2>1, <2>2, DoneOrderedFrame DEF SavedInv
<1>13. SavedBelow' /\ AppliedSecured'
  BY <1>1, <1>3, <1>4, <1>5, SavedBelowFrame, AppliedFrame DEF SavedInv, QuietStep
<1>14. RequiredCovered'
  <2>1. Outstanding' \cup Done' \subseteq Outstanding \cup Done
    BY <1>4 DEF QuietStep
  <2>2. UNCHANGED <<authoring, applied>> \/ Required' = {}
    BY DEF QuietStep, RequiredCovered
  <2> QED
    BY <2>1, <2>2, RequiredFrame DEF QuietStep
<1> QED
  BY <1>7, <1>9, <1>10, <1>11, <1>12, <1>13, <1>14 DEF SavedInv, QuietStep

LEMMA ExternalDestination ==
    ASSUME LifecycleInv, LifecycleInv', RevisionInv, DestinationInv,
           NEW g \in Files, ExternalCreates(g)
    PROVE  DestinationInv'
<1> USE DEF DestinationInv
<1>1. ServiceTyped /\ MainTyped
  BY DEF LifecycleInv, ServiceInv, MainInv
<1>2. /\ UNCHANGED <<task, close, fault, authoring, destination, applied, used, channel,
                     running, completions, createBindings, nextRequestId>>
      /\ files[g] = None /\ \A f \in Files : f # g => files'[f] = files[f]
  BY <1>1 DEF ExternalCreates, mainVars, openVars, closeVars, clientVars, queueVars, workerVars,
              ServiceTyped
<1>3. QueueOrdered' /\ Outstanding' = Outstanding /\ Done' = Done /\ Saves' = Saves
  BY <1>2 DEF QueueOrdered, Outstanding, Done, Saves
<1>4. /\ \A s : IsOpen(s)' <=> IsOpen(s)
      /\ \A s : IsCandidate(s)' <=> IsCandidate(s)
      /\ \A s : Live(s)' <=> Live(s)
      /\ \A s : LineageOf(s)' = LineageOf(s)
  BY <1>2 DEF IsOpen, IsCandidate, Live, LineageOf, Publishing
<1>5. Calm
  BY <1>2, <1>3, <1>4 DEF Calm, OrderInv, IdsIssued
<1>6. Received /\ KeepsFiles
  BY <1>2 DEF Received, KeepsFiles
<1>7. HandoffHolds' /\ Required' = Required
  BY <1>2 DEF HandoffHolds, Required
<1>8. OrderInv'
  BY <1>5, CalmOrder
<1>9. LineageInv'
  BY <1>1, <1>2, <1>4, <1>5, CalmLineages, CalmBindings, CalmDestination DEF LineageInv
<1>10. OwnerInv'
  <2>1. \A f \in Files : \A s, l : Claimed(f, s, l) => Claimed(f, s, l)'
    BY <1>2 DEF Claimed
  <2>2. \A r : BindingOf(r)' = BindingOf(r)
    BY <1>2 DEF BindingOf
  <2>3. \A r \in Saves : r.file \in Files
    BY <1>1, Requests
  <2>4. SavesOwn'
    BY <1>3, <2>1, <2>2, <2>3 DEF OwnerInv, SavesOwn, Own
  <2>5. destination # None => destination.file \in Files
    BY <1>1 DEF MainTyped, Option, ManualProjectFileDestination
  <2>6. DestinationOwns'
    BY <1>2, <1>3, <1>4, <2>1, <2>5 DEF OwnerInv, DestinationOwns, Own
  <2> QED
    BY <2>4, <2>6 DEF OwnerInv
<1>11. DoneSecured'
  BY <1>1, <1>3, <1>4, <1>6, DoneSecuredFrame DEF SavedInv
<1>12. DoneOrdered'
  BY <1>2, <1>3, <1>4 DEF SavedInv, DoneOrdered
<1>13. SavedBelow' /\ AppliedSecured'
  BY <1>1, <1>2, <1>3, <1>6, SavedBelowFrame, AppliedFrame DEF SavedInv
<1>14. RequiredCovered'
  BY <1>2, <1>3, <1>7, RequiredFrame
<1> QED
  BY <1>3, <1>7, <1>8, <1>9, <1>10, <1>11, <1>12, <1>13, <1>14 DEF SavedInv

LEMMA EditDestination ==
    ASSUME LifecycleInv, LifecycleInv', RevisionInv, DestinationInv, Edit
    PROVE  DestinationInv'
<1> USE DEF DestinationInv
<1>1. ServiceTyped /\ MainTyped
  BY DEF LifecycleInv, ServiceInv, MainInv
<1>2. /\ UNCHANGED <<task, close, fault, destination, applied, used, channel, files,
                     running, completions, createBindings, nextRequestId>>
      /\ task = None /\ close = None
      /\ authoring # None
      /\ authoring' = [authoring EXCEPT !.version = lastVersion + 1]
  BY DEF Edit, closeVars, persistenceVars, clientVars, queueVars, workerVars, diskVars, Idle,
         CloseBlocksActions
<1>3. PICK x \in AuthoringSession : x = authoring
  BY <1>1, <1>2 DEF MainTyped, Option
<1>4. x.version \in Nat /\ x.version <= lastVersion /\ lastVersion \in Nat
  BY <1>2, <1>3, MainNumbers DEF RevisionInv, VersionInv, SessionsNewest, IsNewest
<1>5. PICK y : y = authoring'
  OBVIOUS
<1>6. /\ y.session = x.session /\ y.file = x.file /\ y.saved = x.saved
      /\ y.version = lastVersion + 1 /\ x.version <= y.version
  BY <1>2, <1>3, <1>4, <1>5 DEF AuthoringSession
<1>7. y # None
  <2>1. lastVersion + 1 \in Versions
    BY <1>4, MainNumbers, PersistenceAssumption DEF Edit, Versions
  <2>2. y \in AuthoringSession
    BY <1>2, <1>3, <1>5, <2>1 DEF AuthoringSession
  <2> QED
    BY <2>2, NoSessionAssumption
<1>8. QueueOrdered' /\ Outstanding' = Outstanding /\ Done' = Done /\ Saves' = Saves
  BY <1>2 DEF QueueOrdered, Outstanding, Done, Saves
<1>9. SessionsStay
  BY <1>2, <1>3, <1>5, <1>6, <1>7 DEF SessionsStay
<1>10. Calm
  BY <1>2, <1>8, <1>9, SessionsStayLive DEF Calm, OrderInv, IdsIssued, SessionsStay
<1>11. Received /\ KeepsFiles
  BY <1>2 DEF Received, KeepsFiles
<1>12. HandoffHolds' /\ Required' = {}
  BY <1>2 DEF HandoffHolds, Required
<1>13. OrderInv'
  BY <1>10, CalmOrder
<1>14. LineageInv'
  BY <1>1, <1>2, <1>9, <1>10, CalmLineages, CalmBindings, CalmDestination, SessionsStayLive
     DEF LineageInv
<1>15. OwnerInv'
  BY <1>2, <1>9, <1>10, CalmOwners, SessionsStayLive
<1>16. DoneSecured'
  BY <1>1, <1>8, <1>9, <1>11, SessionsStayLive, DoneSecuredFrame DEF SavedInv
<1>17. DoneOrdered'
  <2>1. \A c \in Done : c.kind = "Manual" /\ IsOpen(c.session) => c.version <= y.version
    <3>1. \A c \in Done : c.version \in Nat
      BY <1>1, Requests
    <3>2. \A c \in Done : c.kind = "Manual" /\ IsOpen(c.session) => c.version <= x.version
      BY <1>3 DEF SavedInv, DoneOrdered
    <3> QED
      BY <1>4, <1>6, <3>1, <3>2
  <2>2. \A c \in Done : c.kind = "Manual" /\ IsOpen(c.session)' => c.version <= authoring'.version
    BY <1>5, <1>9, <2>1, SessionsStayLive
  <2> QED
    BY <1>1, <1>2, <1>8, <1>11, <2>2, DoneOrderedFrame DEF SavedInv
<1>18. SavedBelow'
  <2>1. x.saved # None => x.saved \in Nat /\ x.saved <= x.version
    BY <1>2, <1>3, PersistenceAssumption
       DEF SavedInv, SavedBelow, AuthoringSession, Option, Versions
  <2>2. x.saved # None => x.saved <= y.version
    BY <1>4, <1>6, <2>1
  <2>3. x.saved # None => \A r \in Saves \cup Done : SavesOf(r, x.session) => x.saved <= r.version
    BY <1>2, <1>3 DEF SavedInv, SavedBelow
  <2> QED
    BY <1>5, <1>6, <1>8, <2>2, <2>3 DEF SavedBelow
<1>19. AppliedSecured'
  <2>1. PICK s, f, v : s = x.session /\ f = x.file /\ v = x.saved
    OBVIOUS
  <2>2. applied # None => destination # None /\ applied.destination = destination
                          /\ f = destination.file /\ v # None /\ Secured(s, f, v)
    BY <1>3, <2>1 DEF SavedInv, AppliedSecured
  <2>3. Secured(s, f, v) => Secured(s, f, v)'
    BY <1>2, <1>8 DEF Secured
  <2> QED
    BY <1>2, <1>5, <1>6, <1>7, <2>1, <2>2, <2>3 DEF AppliedSecured, Secured
<1>20. RequiredCovered'
  BY <1>12 DEF RequiredCovered
<1> QED
  BY <1>8, <1>12, <1>13, <1>14, <1>15, <1>16, <1>17, <1>18, <1>19, <1>20 DEF SavedInv

-----------------------------------------------------------------------------
\* The worker completes a request.

\* The running save writes its file.
WritesFile == files' = [files EXCEPT ![running.file] = Published(running)]

\* The request goes from the worker to the completions; what it writes, and
\* what the worker learns of its lineage.
CompletesStep ==
    /\ running # None /\ running' = None
    /\ UNCHANGED <<mainVars, channel, nextRequestId>>
    /\ \E c \in Completion :
           /\ c.request = running
           /\ completions' = Append(completions, c)
           /\ c.ok /\ running.kind = "Manual" => WritesFile
    /\ \/ UNCHANGED files
       \/ /\ running.kind = "Manual" /\ WritesFile
          /\ running.publication = "CreateNew" /\ files[running.file] # None =>
                 BindingOf(running) = "Established"
    /\ \/ UNCHANGED createBindings
       \/ /\ running.kind = "Manual"
          /\ \E b \in BindingStates :
                 /\ createBindings' =
                        [createBindings EXCEPT ![running.session][running.lineage] = b]
                 /\ b = "Established" => WritesFile

LEMMA WorkerCompletes ==
    ASSUME LifecycleInv, QueueOrdered, HandoffHolds, Worker
    PROVE  QuietStep \/ CompletesStep
<1>1. ServiceTyped /\ WorkerStep /\ UNCHANGED mainVars
  BY DEF LifecycleInv, ServiceInv, Worker
<1>2. CASE TakeRequest \/ ServeBarrier
  BY <1>1, <1>2, WorkerMovesQuiet
<1>3. running # None => running \in RequestRecord /\ running.revision \in Nat
                        /\ running.session \in Sessions
  BY <1>1 DEF ServiceTyped, Option, RequestRecord
<1>4. ASSUME NEW ok \in BOOLEAN, NEW revision \in Nat, Complete(ok, revision), running # None,
             ok /\ running.kind = "Manual" => WritesFile
      PROVE  /\ running' = None
             /\ UNCHANGED <<channel, nextRequestId>>
             /\ \E c \in Completion :
                    /\ c.request = running
                    /\ completions' = Append(completions, c)
                    /\ c.ok /\ running.kind = "Manual" => WritesFile
  <2>1. PICK c : c = [request |-> running, ok |-> ok, revision |-> revision]
    OBVIOUS
  <2>2. c \in Completion /\ c.request = running /\ c.ok = ok
    BY <1>3, <1>4, <2>1 DEF Completion
  <2>3. completions' = Append(completions, c)
    BY <1>4, <2>1 DEF Complete
  <2> QED
    BY <1>4, <2>2, <2>3 DEF Complete, clientVars
<1>5. ASSUME NEW outcome \in Outcomes, PublishManual(outcome)
      PROVE  CompletesStep
  <2>1. /\ running # None /\ running.kind = "Manual"
        /\ CreatesOnly(running) /\ files[running.file] # None => outcome = "NotPublished"
        /\ Complete(outcome = "Durable", running.revision)
    BY <1>5 DEF PublishManual
  <2>2. outcome \in Visible => WritesFile
    BY <1>5 DEF PublishManual, WritesFile, Published
  <2>3. outcome \notin Visible => UNCHANGED files
    BY <1>5 DEF PublishManual
  <2>4. outcome = "Durable" => WritesFile
    BY <2>2 DEF Visible
  <2>5. \/ UNCHANGED files
        \/ /\ WritesFile
           /\ running.publication = "CreateNew" /\ files[running.file] # None =>
                  BindingOf(running) = "Established"
    BY <2>1, <2>2, <2>3 DEF CreatesOnly, Visible
  <2>6. BindingAfter(outcome) # None =>
            /\ BindingAfter(outcome) \in BindingStates
            /\ BindingAfter(outcome) = "Established" => outcome \in Visible
    BY DEF BindingAfter, BindingStates, Visible
  <2>7. \/ UNCHANGED createBindings
        \/ /\ BindingAfter(outcome) # None
           /\ createBindings' = [createBindings EXCEPT
                  ![running.session][running.lineage] = BindingAfter(outcome)]
    BY <1>5 DEF PublishManual
  <2>8. \/ UNCHANGED createBindings
        \/ \E b \in BindingStates :
               /\ createBindings' =
                      [createBindings EXCEPT ![running.session][running.lineage] = b]
               /\ b = "Established" => WritesFile
    BY <2>2, <2>6, <2>7
  <2>9. (outcome = "Durable") \in BOOLEAN /\ running.revision \in Nat
    BY <1>3, <2>1
  <2>10. /\ running' = None
         /\ UNCHANGED <<channel, nextRequestId>>
         /\ \E c \in Completion :
                /\ c.request = running
                /\ completions' = Append(completions, c)
                /\ c.ok /\ running.kind = "Manual" => WritesFile
    BY <1>4, <2>1, <2>4, <2>9
  <2> QED
    BY <1>1, <2>1, <2>5, <2>8, <2>10 DEF CompletesStep
<1>6. CASE RejectManual
  <2>1. running # None /\ Complete(FALSE, running.revision)
        /\ UNCHANGED <<files, createBindings>>
    BY <1>6 DEF RejectManual, diskVars
  <2> QED
    BY <1>1, <1>3, <1>4, <2>1 DEF CompletesStep
<1>7. ASSUME NEW outcome \in Outcomes, NEW kept \in SUBSET RetainablePoints,
             PublishAutosave(outcome, kept)
      PROVE  CompletesStep
  <2>1. /\ running # None /\ running.kind = "Autosave"
        /\ Complete(outcome = "Durable", AutosaveRevision(running))
        /\ UNCHANGED <<files, createBindings>>
    BY <1>7 DEF PublishAutosave
  <2>2. AutosaveRevision(running) \in Nat
    BY <1>1, <1>3, <2>1 DEF AutosaveRevision, ServiceTyped, Option
  <2>3. (outcome = "Durable") \in BOOLEAN
    OBVIOUS
  <2>4. /\ running' = None
        /\ UNCHANGED <<channel, nextRequestId>>
        /\ \E c \in Completion :
               /\ c.request = running
               /\ completions' = Append(completions, c)
               /\ c.ok /\ running.kind = "Manual" => WritesFile
    BY <1>4, <2>1, <2>2, <2>3
  <2> QED
    BY <1>1, <2>1, <2>4 DEF CompletesStep
<1> QED
  BY <1>1, <1>2, <1>5, <1>6, <1>7 DEF WorkerStep

\* The request that is completed stood before all others.
LEMMA CompletesCalm ==
    ASSUME LifecycleInv, LifecycleInv', RevisionInv, DestinationInv, CompletesStep
    PROVE  /\ Calm
           /\ running \in Outstanding
           /\ running.session \in Sessions /\ running.file \in Files
           /\ \A r \in Outstanding' : r \in Outstanding /\ running.id < r.id
           /\ \A s : IsOpen(s)' <=> IsOpen(s)
           /\ \A s : Live(s)' <=> Live(s)
           /\ \A s : LineageOf(s)' = LineageOf(s)
           /\ Done' = Done \cup {running}
<1> USE DEF DestinationInv
<1>1. ServiceTyped
  BY DEF LifecycleInv, ServiceInv
<1>2. /\ running # None /\ running' = None
      /\ UNCHANGED <<task, authoring, destination, applied, used, channel, nextRequestId>>
  BY DEF CompletesStep, mainVars, openVars
<1>3. /\ running \in Outstanding
      /\ running \in RequestRecord
      /\ running.session \in Sessions /\ running.file \in Files
      /\ \A r \in Outstanding : r = running \/ running.id < r.id
  BY <1>1, <1>2, RunningIsOldest, Requests
<1>4. QueueOrdered' /\ Outstanding' \subseteq Outstanding
  BY <1>2, QueueFrame
<1>5. running \notin Outstanding'
  <2>1. \A i \in DOMAIN channel : channel[i].kind # "Barrier" => channel[i] # running
    <3> SUFFICES ASSUME NEW i \in DOMAIN channel, channel[i].kind # "Barrier", channel[i] = running
                 PROVE  FALSE
      OBVIOUS
    <3>1. running.id < running.id /\ running.id \in Nat
      BY <1>1, <1>2, <1>3, Requests DEF QueueOrdered
    <3> QED
      BY <3>1
  <2> QED
    BY <1>2, <2>1 DEF Outstanding
<1>6. \A r \in Outstanding' : r \in Outstanding /\ running.id < r.id
  BY <1>3, <1>4, <1>5
<1>7. /\ \A s : IsOpen(s)' <=> IsOpen(s)
      /\ \A s : IsCandidate(s)' <=> IsCandidate(s)
      /\ \A s : Live(s)' <=> Live(s)
      /\ \A s : LineageOf(s)' = LineageOf(s)
  BY <1>2 DEF IsOpen, IsCandidate, Live, LineageOf, Publishing
<1>8. Done' = Done \cup {running}
  <2>1. PICK c \in Completion : c.request = running /\ completions' = Append(completions, c)
    BY DEF CompletesStep
  <2>2. completions \in Seq(Completion)
    BY <1>1 DEF ServiceTyped
  <2>3. /\ DOMAIN completions' = DOMAIN completions \cup {Len(completions) + 1}
        /\ \A i \in DOMAIN completions : completions'[i] = completions[i]
        /\ completions'[Len(completions) + 1] = c
    BY <2>1, <2>2, AppendFacts
  <2> QED
    BY <2>1, <2>3 DEF Done
<1>9. Calm
  BY <1>2, <1>3, <1>4, <1>5, <1>7, <1>8 DEF Calm, OrderInv, IdsIssued
<1> QED
  BY <1>3, <1>6, <1>7, <1>8, <1>9

\* The binding of a lineage changes with the running save of that lineage.
LEMMA BindingChange ==
    ASSUME LifecycleInv, DestinationInv, CompletesStep,
           NEW s \in Sessions, NEW l \in RequestIds,
           createBindings'[s][l] # createBindings[s][l]
    PROVE  /\ running \in Saves /\ running.session = s /\ running.lineage = l
           /\ createBindings'[s][l] = "Established" => WritesFile
<1>1. ServiceTyped /\ running # None
  BY DEF LifecycleInv, ServiceInv, CompletesStep
<1>2. PICK b \in BindingStates :
          /\ running.kind = "Manual"
          /\ createBindings' = [createBindings EXCEPT ![running.session][running.lineage] = b]
          /\ b = "Established" => WritesFile
  BY DEF CompletesStep
<1>3. createBindings \in [Sessions -> [RequestIds -> Option(BindingStates)]]
  BY <1>1 DEF ServiceTyped
<1>4. running.session = s /\ running.lineage = l /\ createBindings'[s][l] = b
  BY <1>2, <1>3
<1>5. running \in Saves
  BY <1>1, <1>2, OutstandingFacts DEF Saves
<1> QED
  BY <1>2, <1>4, <1>5

LEMMA CompletesBindings ==
    ASSUME LifecycleInv, LifecycleInv', RevisionInv, DestinationInv, CompletesStep
    PROVE  BindingsKnown'
<1> USE DEF DestinationInv, LineageInv
<1>1. /\ Calm /\ \A s : Live(s)' <=> Live(s)
      /\ \A s : LineageOf(s)' = LineageOf(s)
  BY CompletesCalm
<1> SUFFICES ASSUME NEW s \in Sessions, NEW l \in RequestIds, createBindings'[s][l] # None
             PROVE  s \in used' /\ (Live(s)' => l <= LineageOf(s)')
  BY DEF BindingsKnown
<1>2. CASE createBindings'[s][l] = createBindings[s][l]
  BY <1>1, <1>2 DEF BindingsKnown, Calm
<1>3. CASE createBindings'[s][l] # createBindings[s][l]
  <2>1. running \in Saves /\ running.session = s /\ running.lineage = l
    BY <1>3, BindingChange
  <2>2. s \in used
    BY <2>1, FreshHasNothing DEF Saves, Fresh
  <2>3. Live(s) => l <= LineageOf(s)
    BY <2>1 DEF LineagesInOrder
  <2> QED
    BY <1>1, <2>2, <2>3 DEF Calm
<1> QED
  BY <1>2, <1>3

\* What the running save writes.
LEMMA WrittenClaim ==
    ASSUME ServiceTyped, running \in Outstanding, WritesFile
    PROVE  \E r \in RequestRecord :
               /\ r = running /\ files'[r.file] # None
               /\ files'[r.file].session = r.session
               /\ files'[r.file].lineage = r.lineage
               /\ files'[r.file].version = r.version
               /\ \A f \in Files : f # r.file => files'[f] = files[f]
<1>1. PICK r : r = running
  OBVIOUS
<1>2. r \in RequestRecord /\ r.file \in Files
  BY <1>1, Requests
<1>3. PICK p : p = Published(r)
  OBVIOUS
<1>4. /\ p.session = r.session /\ p.lineage = r.lineage /\ p.version = r.version
      /\ p # None
  <2>1. p \in Content
    BY <1>2, <1>3 DEF Published, RequestRecord, Content, Option
  <2> QED
    BY <1>3, <2>1, NoneAssumption DEF Published
<1>5. files'[r.file] = p /\ \A f \in Files : f # r.file => files'[f] = files[f]
  BY <1>1, <1>2, <1>3 DEF WritesFile, ServiceTyped
<1> QED
  BY <1>1, <1>2, <1>4, <1>5

\* A claim that the running save respects outlives it.
LEMMA ClaimStays ==
    ASSUME ServiceTyped, running \in Outstanding, CompletesStep,
           NEW f \in Files, NEW s, NEW l, Claimed(f, s, l),
           running.kind = "Manual" => Own(running, f, s, l)
    PROVE  Claimed(f, s, l)'
<1>1. CASE UNCHANGED files
  BY <1>1 DEF Claimed
<1>2. CASE running.kind = "Manual" /\ WritesFile
  <2>1. PICK r \in RequestRecord :
            /\ r = running /\ files'[r.file] # None
            /\ files'[r.file].session = r.session
            /\ files'[r.file].lineage = r.lineage
            /\ \A g \in Files : g # r.file => files'[g] = files[g]
    BY <1>2, WrittenClaim
  <2>2. r.file = f => r.session = s /\ r.lineage = l
    BY <1>2, <2>1 DEF Own
  <2>3. files'[f] # None /\ files'[f].session = s /\ files'[f].lineage = l
    BY <2>1, <2>2 DEF Claimed
  <2> QED
    BY <2>3 DEF Claimed
<1> QED
  BY <1>1, <1>2 DEF CompletesStep

\* The save that establishes its lineage claims the path of the lineage.
LEMMA ClaimBegins ==
    ASSUME ServiceTyped, running \in Outstanding, WritesFile
    PROVE  \A f, s, l : Own(running, f, s, l) /\ running.file = f => Claimed(f, s, l)'
<1>1. PICK r \in RequestRecord :
          /\ r = running /\ files'[r.file] # None
          /\ files'[r.file].session = r.session
          /\ files'[r.file].lineage = r.lineage
  BY WrittenClaim
<1> QED
  BY <1>1 DEF Own, Claimed

\* Between two saves of one lineage stand only saves of it.
LEMMA SameLineage ==
    ASSUME ServiceTyped, Contiguous, LineagesInOrder,
           NEW p \in Saves, NEW q \in Saves, NEW r \in Saves,
           p.id < q.id, q.id < r.id, r.session = p.session, r.lineage = p.lineage
    PROVE  q.session = p.session /\ q.lineage = p.lineage
<1>1. p \in Outstanding /\ q \in Outstanding /\ r \in Outstanding
  BY DEF Saves
<1>2. q.session = p.session
  BY <1>1 DEF Contiguous
<1>3. p.lineage \in Nat /\ q.lineage \in Nat /\ r.lineage \in Nat
  <2>1. p.id \in Nat /\ q.id \in Nat /\ r.id \in Nat
    BY <1>1, Requests
  <2> QED
    BY <2>1 DEF LineagesInOrder
<1>4. p.lineage <= q.lineage /\ q.lineage <= r.lineage
  BY <1>2 DEF LineagesInOrder
<1> QED
  BY <1>2, <1>3, <1>4

LEMMA CompletesOwners ==
    ASSUME LifecycleInv, LifecycleInv', RevisionInv, DestinationInv, CompletesStep
    PROVE  OwnerInv'
<1> USE DEF DestinationInv, LineageInv, OrderInv, OwnerInv
<1>1. ServiceTyped
  BY DEF LifecycleInv, ServiceInv
<1>2. /\ running \in Outstanding
      /\ \A r \in Outstanding' : r \in Outstanding /\ running.id < r.id
      /\ \A s : IsOpen(s)' <=> IsOpen(s)
      /\ destination' = destination
  BY CompletesCalm DEF CompletesStep, mainVars, openVars
<1>3. \A r \in Saves' : r \in Saves /\ running.id < r.id
  BY <1>2 DEF Saves
<1>4. \A r \in Saves : r.session \in Sessions /\ r.lineage \in RequestIds /\ r.file \in Files
  <2> TAKE r \in Saves
  <2>1. r.session \in Sessions /\ r.file \in Files /\ r.id \in 1 .. MaxRequests
    BY <1>1, Requests DEF RequestIds
  <2>2. r.lineage \in 1 .. r.id
    BY DEF LineagesInOrder
  <2> QED
    BY <2>1, <2>2, PersistenceAssumption DEF RequestIds
<1>5. running.kind = "Manual" => running \in Saves
  BY <1>2 DEF Saves
<1>6. ASSUME NEW r \in Saves', BindingOf(r)' = "Established"
      PROVE  /\ Claimed(r.file, r.session, r.lineage)'
             /\ \A q \in Saves' : q.id < r.id => Own(q, r.file, r.session, r.lineage)
  <2>1. r \in Saves /\ running.id < r.id
    BY <1>3, <1>6
  <2>2. /\ r.publication = "CreateNew"
        /\ createBindings'[r.session][r.lineage] = "Established"
    BY <1>6, <2>1, NoneAssumption DEF BindingOf, BindingStates
  <2>3. CASE createBindings[r.session][r.lineage] = "Established"
    <3>1. BindingOf(r) = "Established"
      BY <2>1, <2>2, <2>3 DEF BindingOf, Saves
    <3>2. /\ Claimed(r.file, r.session, r.lineage)
          /\ \A q \in Saves : q.id < r.id => Own(q, r.file, r.session, r.lineage)
      BY <2>1, <3>1 DEF SavesOwn
    <3>3. Claimed(r.file, r.session, r.lineage)'
      BY <1>1, <1>2, <1>4, <1>5, <2>1, <3>2, ClaimStays
    <3> QED
      BY <1>3, <3>2, <3>3
  <2>4. CASE createBindings[r.session][r.lineage] # "Established"
    <3>1. /\ running \in Saves /\ running.session = r.session /\ running.lineage = r.lineage
          /\ WritesFile
      BY <1>4, <2>1, <2>2, <2>4, BindingChange
    <3>2. running.file = r.file
      BY <2>1, <3>1 DEF LineagesInOrder
    <3>3. Claimed(r.file, r.session, r.lineage)'
      <4>1. Own(running, r.file, r.session, r.lineage)
        BY <3>1 DEF Own
      <4> QED
        BY <1>1, <1>2, <3>1, <3>2, <4>1, ClaimBegins
    <3>4. ASSUME NEW q \in Saves', q.id < r.id
          PROVE  Own(q, r.file, r.session, r.lineage)
      <4>1. q.session = running.session /\ q.lineage = running.lineage
        BY <1>1, <1>3, <2>1, <3>1, <3>4, SameLineage
      <4> QED
        BY <3>1, <4>1 DEF Own
    <3> QED
      BY <3>3, <3>4
  <2> QED
    BY <2>3, <2>4
<1>7. ASSUME NEW s \in Sessions, NEW d, d = destination, IsOpen(s), d # None,
             d.publication = "CreateNew", createBindings'[s][d.revision] = "Established"
      PROVE  /\ Claimed(d.file, s, d.revision)'
             /\ \A q \in Saves' : Own(q, d.file, s, d.revision)
  <2>1. /\ d.revision \in RequestIds /\ d.file \in Files
        /\ \A r \in Saves : IsOpen(r.session) /\ r.lineage = d.revision => r.file = d.file
    <3>1. nextRequestId \in 1 .. MaxRequests + 1
      BY <1>1 DEF ServiceTyped
    <3>2. d.revision \in 1 .. nextRequestId - 1
      BY <1>7 DEF DestinationShared
    <3>3. d \in ManualProjectFileDestination
      BY <1>7 DEF LifecycleInv, MainInv, MainTyped, Option
    <3> QED
      BY <1>7, <3>1, <3>2, <3>3, PersistenceAssumption
         DEF RequestIds, DestinationShared, ManualProjectFileDestination
  <2>2. CASE createBindings[s][d.revision] = "Established"
    <3>1. /\ Claimed(d.file, s, d.revision)
          /\ \A q \in Saves : Own(q, d.file, s, d.revision)
      BY <1>7, <2>2 DEF DestinationOwns
    <3> QED
      BY <1>1, <1>2, <1>3, <1>5, <2>1, <3>1, ClaimStays
  <2>3. CASE createBindings[s][d.revision] # "Established"
    <3>1. /\ running \in Saves /\ running.session = s /\ running.lineage = d.revision
          /\ WritesFile
      BY <1>7, <2>1, <2>3, BindingChange
    <3>2. running.file = d.file /\ Own(running, d.file, s, d.revision)
      BY <1>7, <2>1, <3>1 DEF Own
    <3>3. Claimed(d.file, s, d.revision)'
      BY <1>1, <1>2, <3>1, <3>2, ClaimBegins
    <3>4. Live(s) /\ LineageOf(s) = d.revision
      BY <1>7, CandidateIsNotOpen DEF Live, LineageOf
    <3>5. ASSUME NEW q \in Saves'
          PROVE  Own(q, d.file, s, d.revision)
      <4>1. q \in Saves /\ running.id < q.id /\ q \in Outstanding
        BY <1>3, <3>5 DEF Saves
      <4>2. q.session = s
        BY <1>2, <3>1, <3>4, <4>1 DEF LiveLast
      <4>3. q.lineage <= d.revision /\ d.revision <= q.lineage
        BY <3>1, <3>4, <4>1, <4>2 DEF LineagesInOrder
      <4>4. q.lineage \in Nat /\ d.revision \in Nat
        BY <1>4, <2>1, <4>1 DEF RequestIds
      <4> QED
        BY <4>2, <4>3, <4>4 DEF Own
    <3> QED
      BY <3>3, <3>5
  <2> QED
    BY <2>2, <2>3
<1>8. SavesOwn'
  BY <1>6 DEF SavesOwn, Own
<1>9. DestinationOwns'
  <2>1. PICK d : d = destination'
    OBVIOUS
  <2> QED
    BY <1>2, <1>7, <2>1 DEF DestinationOwns, Claimed, Own
<1> QED
  BY <1>8, <1>9

LEMMA CompletesDone ==
    ASSUME LifecycleInv, LifecycleInv', RevisionInv, DestinationInv, CompletesStep
    PROVE  DoneSecured' /\ DoneOrdered' /\ KeepsFiles
<1> USE DEF DestinationInv, SavedInv, OrderInv
<1>1. ServiceTyped
  BY DEF LifecycleInv, ServiceInv
<1>2. /\ running \in Outstanding /\ running # None
      /\ running.session \in Sessions /\ running.file \in Files
      /\ \A r \in Outstanding' : r \in Outstanding /\ running.id < r.id
      /\ \A s : IsOpen(s)' <=> IsOpen(s)
      /\ \A s : Live(s)' <=> Live(s)
      /\ Done' = Done \cup {running}
      /\ UNCHANGED <<authoring, used, channel>>
      /\ running' = None
  BY CompletesCalm DEF CompletesStep, mainVars, openVars
<1>3. \A r \in Saves' : r \in Saves /\ running.id < r.id
  BY <1>2 DEF Saves
<1>4. KeepsFiles
  <2>1. CASE UNCHANGED files
    BY <2>1 DEF KeepsFiles
  <2>2. CASE running.kind = "Manual" /\ WritesFile
    <3>1. running \in Saves
      BY <1>2, <2>2 DEF Saves
    <3> QED
      BY <1>1, <1>2, <2>2, <3>1 DEF WritesFile, KeepsFiles, ServiceTyped
  <2> QED
    BY <2>1, <2>2 DEF CompletesStep
<1>5. PICK c \in Completion :
          /\ c.request = running
          /\ completions' = Append(completions, c)
          /\ c.ok /\ running.kind = "Manual" => WritesFile
  BY DEF CompletesStep
<1>6. /\ DOMAIN completions' = DOMAIN completions \cup {Len(completions) + 1}
      /\ \A i \in DOMAIN completions : completions'[i] = completions[i] /\ i <= Len(completions)
      /\ completions'[Len(completions) + 1] = c
      /\ DOMAIN completions \subseteq Nat /\ Len(completions) \in Nat
  <2>1. completions \in Seq(Completion)
    BY <1>1 DEF ServiceTyped
  <2> QED
    BY <1>5, <2>1, AppendFacts
<1>7. DoneSecured'
  <2> SUFFICES ASSUME NEW i \in DOMAIN completions', NEW d, d = completions'[i],
                      d.ok, d.request.kind = "Manual", Live(d.request.session)
               PROVE  Secured(d.request.session, d.request.file, d.request.version)'
    BY <1>2 DEF DoneSecured
  <2>1. CASE i \in DOMAIN completions
    <3>1. d = completions[i]
      BY <1>6, <2>1
    <3>2. /\ d.request.session \in Sessions /\ d.request.file \in Files
          /\ d.request.version \in Nat
      BY <1>1, <2>1, <3>1, Requests
    <3>3. Secured(d.request.session, d.request.file, d.request.version)
      BY <2>1, <3>1 DEF DoneSecured
    <3> QED
      BY <1>1, <1>3, <1>4, <3>2, <3>3, SecuredStays
  <2>2. CASE i = Len(completions) + 1
    <3>1. d = c /\ WritesFile
      BY <1>5, <1>6, <2>2
    <3>2. PICK r \in RequestRecord :
              /\ r = running /\ files'[r.file] # None
              /\ files'[r.file].session = r.session
              /\ files'[r.file].version = r.version
      BY <1>1, <1>2, <3>1, WrittenClaim
    <3>3. \A q \in Saves' : q.session = r.session
      BY <1>2, <1>3, <1>5, <3>1, <3>2 DEF LiveLast, Saves
    <3>4. r.version \in Nat
      BY <1>1, <1>2, <3>2, Requests
    <3>5. Secured(r.session, r.file, r.version)'
      BY <3>2, <3>3, <3>4 DEF Secured
    <3> QED
      BY <1>5, <3>1, <3>2, <3>5
  <2> QED
    BY <1>6, <2>1, <2>2
<1>8. \A i, j \in DOMAIN completions' :
          LET x == completions'[i].request
              y == completions'[j].request
          IN  i < j /\ x.kind = "Manual" /\ SavesOf(y, x.session) => x.version <= y.version
  <2> SUFFICES ASSUME NEW i \in DOMAIN completions', NEW j \in DOMAIN completions', i < j,
                      NEW x, x = completions'[i].request, NEW y, y = completions'[j].request,
                      x.kind = "Manual", SavesOf(y, x.session)
               PROVE  x.version <= y.version
    OBVIOUS
  <2>1. i \in DOMAIN completions /\ x = completions[i].request
    BY <1>6
  <2>2. CASE j \in DOMAIN completions
    <3>1. y = completions[j].request
      BY <1>6, <2>2
    <3> QED
      BY <2>1, <2>2, <3>1 DEF DoneOrdered
  <2>3. CASE j = Len(completions) + 1
    <3>1. y = running
      BY <1>5, <1>6, <2>3
    <3>2. running \in Saves /\ running.session = x.session
      BY <1>2, <3>1 DEF SavesOf, Saves
    <3>3. x \in Done
      BY <2>1 DEF Done
    <3> QED
      BY <3>1, <3>2, <3>3 DEF DoneOrdered
  <2> QED
    BY <1>6, <2>2, <2>3
<1>9. ASSUME NEW x \in Done'
      PROVE  /\ x.session \in used
             /\ x.kind = "Manual" =>
                    /\ \A r \in Saves' : r.session = x.session => x.version <= r.version
                    /\ IsOpen(x.session) => x.version <= authoring.version
  <2>1. CASE x \in Done
    BY <1>3, <2>1 DEF DoneOrdered
  <2>2. CASE x = running
    <3>1. x.session \in used
      BY <1>2, <2>2, FreshHasNothing DEF Fresh
    <3>2. x.kind = "Manual" => \A r \in Saves' : r.session = x.session => x.version <= r.version
      <4> SUFFICES ASSUME x.kind = "Manual", NEW r \in Saves', r.session = x.session
                   PROVE  x.version <= r.version
        OBVIOUS
      <4>1. r \in Outstanding'
        BY DEF Saves
      <4>2. PICK i \in DOMAIN channel : channel[i] = r
        BY <1>2, <4>1 DEF Outstanding
      <4>3. Before(running, r)
        BY <1>2, <2>2, <4>2 DEF Saves, SavesOf, RevisionInv, ReservationInv, RunningFirst
      <4> QED
        BY <2>2, <4>3 DEF Before
    <3>3. x.kind = "Manual" /\ IsOpen(x.session) => x.version <= authoring.version
      BY <1>2, <2>2 DEF IsOpen, RevisionInv, VersionInv, SessionsNewest, IsNewest, SavesOf
    <3> QED
      BY <3>1, <3>2, <3>3
  <2> QED
    BY <1>2, <1>9, <2>1, <2>2
<1>10. DoneOrdered'
  BY <1>2, <1>8, <1>9 DEF DoneOrdered
<1> QED
  BY <1>4, <1>7, <1>10

LEMMA CompletesDestination ==
    ASSUME LifecycleInv, LifecycleInv', RevisionInv, DestinationInv, CompletesStep
    PROVE  DestinationInv'
<1> USE DEF DestinationInv
<1>1. ServiceTyped /\ MainTyped
  BY DEF LifecycleInv, ServiceInv, MainInv
<1>2. UNCHANGED <<authoring, destination, applied, task, close, fault, nextRequestId>>
  BY DEF CompletesStep, mainVars, openVars, closeVars
<1>3. /\ Calm
      /\ running \in Outstanding
      /\ \A s : IsOpen(s)' <=> IsOpen(s)
      /\ Done' = Done \cup {running}
  BY CompletesCalm
<1>4. Saves' \subseteq Saves /\ Outstanding' \subseteq Outstanding
  BY <1>3 DEF Calm, Saves
<1>5. OrderInv'
  BY <1>3, CalmOrder
<1>6. LineageInv'
  BY <1>1, <1>2, <1>3, CalmLineages, CompletesBindings, CalmDestination DEF LineageInv
<1>7. DoneSecured' /\ DoneOrdered' /\ KeepsFiles
  BY CompletesDone
<1>8. SavedBelow'
  <2>1. \A r \in Saves' \cup Done' :
            authoring # None /\ SavesOf(r, authoring.session) =>
                r \in Saves \cup Done \/ r.version = authoring.version
    BY <1>3, <1>4 DEF Saves, SavesOf
  <2> QED
    BY <1>2, <2>1, SavedBelowFrame DEF SavedInv
<1>9. AppliedSecured'
  BY <1>1, <1>2, <1>4, <1>7, AppliedFrame DEF SavedInv
<1>10. HandoffHolds' /\ Required' = Required
  BY <1>2 DEF HandoffHolds, Required
<1>11. RequiredCovered'
  BY <1>2, <1>3, <1>4, <1>10, RequiredFrame
<1> QED
  BY <1>3, <1>5, <1>6, <1>7, <1>8, <1>9, <1>10, <1>11, CompletesOwners DEF SavedInv, Calm

-----------------------------------------------------------------------------
\* The application applies a completion.

\* The completion c of a save of the current destination becomes the baseline.
BaselineMoves(c, x, y) ==
    /\ c.ok /\ c.request.kind = "Manual" /\ c.request.session = x.session
    /\ destination = DestinationOf(c.request)
    /\ y.file = c.request.file
    /\ y.saved = Newest(x.saved, c.request.version)
    /\ applied' = [destination |-> destination, request |-> c.request.id]

LEMMA ApplyMoves ==
    ASSUME LifecycleInv, NEW reconciles, ApplyCompletion(reconciles)
    PROVE  /\ completions # <<>> /\ completions' = Tail(completions)
           /\ UNCHANGED <<destination, close, fault, used, nextRequestId, channel, running,
                          createBindings, files>>
           /\ \/ UNCHANGED <<authoring, applied>>
              \/ \E x, y \in AuthoringSession :
                     /\ authoring = x /\ authoring' = y
                     /\ y.session = x.session /\ y.version = x.version
                     /\ \/ y.saved = x.saved /\ y.file = x.file /\ applied' = applied
                        \/ BaselineMoves(Head(completions), x, y)
<1> DEFINE c == Head(completions)
           mine == BelongsToOpenSession(c)
           saves == mine /\ ForCurrentDestination(c)
                    /\ ~(mine /\ ForCurrentDestination(c) /\ Covered(c)) /\ c.ok
           autosaves == mine /\ c.request.kind = "Autosave" /\ c.ok
           after == IF saves THEN MarkSaved(authoring, c)
                    ELSE IF autosaves THEN MarkAutosaved(authoring, c)
                    ELSE authoring
<1>1. /\ completions # <<>> /\ completions' = Tail(completions)
      /\ authoring' = after
      /\ applied' = IF saves
                    THEN [destination |-> destination, request |-> c.request.id]
                    ELSE applied
      /\ UNCHANGED <<destination, close, fault, used, nextRequestId, channel, running,
                     createBindings, files>>
  BY DEF ApplyCompletion, closeVars, clientVars, queueVars, workerVars
<1>2. c \in Completion
  BY <1>1, TailFacts DEF LifecycleInv, ServiceInv, ServiceTyped
<1>3. mine => authoring \in AuthoringSession /\ authoring.session = c.request.session
  BY DEF BelongsToOpenSession, LifecycleInv, MainInv, MainTyped, Option
<1>4. saves => /\ c.ok /\ mine /\ c.request.kind = "Manual"
               /\ destination = DestinationOf(c.request)
  BY DEF ForCurrentDestination
<1> HIDE DEF c, mine
<1>5. CASE saves
  <2>1. PICK x \in AuthoringSession : x = authoring /\ x.session = c.request.session
    BY <1>3, <1>4, <1>5
  <2>2. PICK y : y = MarkSaved(x, c)
    OBVIOUS
  <2>3. y \in AuthoringSession /\ y.session = x.session /\ y.version = x.version
    BY <1>2, <2>2, MarkTypes, MarkKeepsVersion
  <2>4. y.saved = Newest(x.saved, c.request.version) /\ y.file = c.request.file
    BY <2>2 DEF MarkSaved, AuthoringSession
  <2>5. authoring' = y /\ applied' = [destination |-> destination, request |-> c.request.id]
    BY <1>1, <1>5, <2>1, <2>2
  <2>6. BaselineMoves(c, x, y)
    BY <1>4, <1>5, <2>1, <2>4, <2>5 DEF BaselineMoves
  <2> QED
    BY <1>1, <2>1, <2>3, <2>5, <2>6 DEF c
<1>6. CASE ~saves /\ autosaves
  <2>1. PICK x \in AuthoringSession : x = authoring
    BY <1>3, <1>6
  <2>2. PICK y : y = MarkAutosaved(x, c)
    OBVIOUS
  <2>3. y \in AuthoringSession /\ y.session = x.session /\ y.version = x.version
    BY <1>2, <2>2, MarkTypes, MarkKeepsVersion
  <2>4. y.saved = x.saved /\ y.file = x.file
    BY <2>2 DEF MarkAutosaved, AuthoringSession
  <2>5. authoring' = y /\ applied' = applied
    BY <1>1, <1>6, <2>1, <2>2
  <2> QED
    BY <1>1, <2>1, <2>3, <2>4, <2>5
<1>7. CASE ~saves /\ ~autosaves
  <2>1. UNCHANGED <<authoring, applied>>
    BY <1>1, <1>7
  <2> QED
    BY <1>1, <2>1
<1> QED
  BY <1>5, <1>6, <1>7

LEMMA ApplyDestination ==
    ASSUME LifecycleInv, LifecycleInv', RevisionInv, DestinationInv,
           NEW reconciles, ApplyCompletion(reconciles), UNCHANGED task
    PROVE  DestinationInv'
<1> USE DEF DestinationInv, SavedInv
<1>1. ServiceTyped /\ MainTyped
  BY DEF LifecycleInv, ServiceInv, MainInv
<1>2. /\ completions # <<>> /\ completions' = Tail(completions)
      /\ UNCHANGED <<destination, close, fault, used, nextRequestId, channel, running,
                     createBindings, files, task>>
  BY ApplyMoves
<1>3. PICK c \in Completion : c = Head(completions)
  BY <1>1, <1>2, TailFacts DEF ServiceTyped
<1>4. 1 \in DOMAIN completions /\ completions[1] = c /\ c.request \in Done
  <2>1. 1 \in DOMAIN completions /\ completions[1] = c
    BY <1>1, <1>2, <1>3, TailFacts DEF ServiceTyped
  <2> QED
    BY <2>1 DEF Done
<1>5. Received /\ KeepsFiles /\ Done' \subseteq Done
  <2>1. Received /\ KeepsFiles
    BY <1>2 DEF Received, KeepsFiles
  <2> QED
    BY <1>1, <2>1, ReceivedFacts
<1>6. QueueOrdered' /\ Outstanding' = Outstanding /\ Saves' = Saves
  BY <1>2 DEF QueueOrdered, Outstanding, Saves
<1>7. \/ UNCHANGED <<authoring, applied>>
      \/ \E x, y \in AuthoringSession :
             /\ authoring = x /\ authoring' = y
             /\ y.session = x.session /\ y.version = x.version
             /\ \/ y.saved = x.saved /\ y.file = x.file /\ applied' = applied
                \/ BaselineMoves(c, x, y)
  BY <1>3, ApplyMoves
<1>8. SessionsStay
  BY <1>2, <1>7, NoSessionAssumption DEF SessionsStay
<1>9. applied' # None => applied'.request < nextRequestId
  <2>1. applied' = applied \/ applied' = [destination |-> destination, request |-> c.request.id]
    BY <1>7 DEF BaselineMoves
  <2>2. c.request.id < nextRequestId
    BY <1>4 DEF OrderInv, IdsIssued
  <2> QED
    BY <2>1, <2>2 DEF OrderInv, IdsIssued
<1>10. Calm
  BY <1>2, <1>5, <1>6, <1>8, <1>9, SessionsStayLive DEF Calm
<1>11. OrderInv'
  BY <1>10, CalmOrder
<1>12. LineageInv'
  BY <1>1, <1>2, <1>8, <1>10, CalmLineages, CalmBindings, CalmDestination, SessionsStayLive
     DEF LineageInv
<1>13. OwnerInv'
  BY <1>2, <1>8, <1>10, CalmOwners, SessionsStayLive
<1>14. HandoffHolds' /\ Required' = Required
  BY <1>2, <1>7, NoSessionAssumption DEF HandoffHolds, Required
<1>15. DoneSecured'
  BY <1>1, <1>5, <1>6, <1>8, SessionsStayLive, DoneSecuredFrame
<1>16. authoring' # None => authoring # None /\ authoring'.version = authoring.version
                            /\ authoring'.session = authoring.session
  BY <1>7, NoSessionAssumption
<1>17. DoneOrdered'
  <2>1. \A d \in Done : d.kind = "Manual" /\ IsOpen(d.session)' => d.version <= authoring'.version
    BY <1>16 DEF DoneOrdered, IsOpen
  <2> QED
    BY <1>1, <1>2, <1>5, <1>6, <2>1, DoneOrderedFrame
<1>18. CASE UNCHANGED <<authoring, applied>>
  <2>1. SavedBelow' /\ AppliedSecured'
    BY <1>1, <1>2, <1>5, <1>6, <1>18, SavedBelowFrame, AppliedFrame
  <2>2. RequiredCovered'
    BY <1>2, <1>5, <1>6, <1>14, <1>18, RequiredFrame
  <2> QED
    BY <1>6, <1>11, <1>12, <1>13, <1>14, <1>15, <1>17, <2>1, <2>2
<1>19. ASSUME NEW x \in AuthoringSession, NEW y \in AuthoringSession,
              authoring = x, authoring' = y, y.session = x.session, y.version = x.version,
              y.saved = x.saved, y.file = x.file, applied' = applied
       PROVE  DestinationInv'
  <2>1. x # None /\ y # None
    BY <1>19, NoSessionAssumption
  <2>2. SavedBelow'
    BY <1>5, <1>6, <1>19, <2>1 DEF SavedBelow
  <2>3. AppliedSecured'
    <3>1. PICK s, f, v : s = x.session /\ f = x.file /\ v = x.saved
      OBVIOUS
    <3>2. Secured(s, f, v) => Secured(s, f, v)'
      BY <1>2, <1>6 DEF Secured
    <3>3. applied # None => destination # None /\ applied.destination = destination
                            /\ f = destination.file /\ v # None /\ Secured(s, f, v)
      BY <1>19, <3>1 DEF AppliedSecured
    <3> QED
      BY <1>2, <1>19, <2>1, <3>1, <3>2, <3>3 DEF AppliedSecured, Secured
  <2>4. RequiredCovered'
    BY <1>2, <1>5, <1>6, <1>14, <1>19, <2>1 DEF RequiredCovered
  <2> QED
    BY <1>6, <1>11, <1>12, <1>13, <1>14, <1>15, <1>17, <2>2, <2>3, <2>4
<1>20. ASSUME NEW x \in AuthoringSession, NEW y \in AuthoringSession,
              authoring = x, authoring' = y, y.session = x.session, y.version = x.version,
              BaselineMoves(c, x, y)
       PROVE  DestinationInv'
  <2>1. x # None /\ y # None
    BY <1>20, NoSessionAssumption
  <2>2. PICK r : r = c.request
    OBVIOUS
  <2>3. /\ r \in Done /\ r \in RequestRecord /\ r.version \in Nat
        /\ r.kind = "Manual" /\ r.session = x.session
    BY <1>1, <1>4, <1>20, <2>2, Requests DEF BaselineMoves
  <2>4. IsOpen(x.session)
    BY <1>20, <2>1 DEF IsOpen
  <2>5. y.saved = r.version
    <3>1. x.saved # None => x.saved <= r.version /\ x.saved \in Nat
      <4>1. x.saved # None => x.saved \in Nat
        BY PersistenceAssumption DEF AuthoringSession, Option, Versions
      <4> QED
        BY <1>20, <2>1, <2>3, <4>1 DEF SavedBelow, SavesOf
    <3> QED
      BY <1>20, <2>2, <2>3, <3>1 DEF BaselineMoves, Newest
  <2>6. r.version # None
    BY <2>3, NoneFacts
  <2>7. SavedBelow'
    <3>1. r.version <= y.version
      BY <1>20, <2>3, <2>4 DEF DoneOrdered
    <3>2. \A q \in Saves : SavesOf(q, x.session) => r.version <= q.version
      BY <2>3 DEF DoneOrdered, SavesOf
    <3>3. \A q \in Done' : SavesOf(q, x.session) => r.version <= q.version
      <4> SUFFICES ASSUME NEW q \in Done', SavesOf(q, x.session)
                   PROVE  r.version <= q.version
        OBVIOUS
      <4>1. completions \in Seq(Completion)
        BY <1>1 DEF ServiceTyped
      <4>2. Tail(completions) \in Seq(Completion)
        BY <1>2, <4>1, TailFacts
      <4>3. PICK i \in DOMAIN completions' : q = completions'[i].request
        BY DEF Done
      <4>4. i \in Nat /\ i # 0 /\ i + 1 \in DOMAIN completions /\ completions'[i] = completions[i + 1]
        BY <1>2, <4>1, <4>2, <4>3, TailFacts
      <4>5. 1 < i + 1
        BY <4>4
      <4> QED
        BY <1>4, <2>2, <2>3, <4>3, <4>4, <4>5 DEF DoneOrdered
    <3> QED
      BY <1>6, <1>20, <2>1, <2>5, <3>1, <3>2, <3>3 DEF SavedBelow
  <2>8. AppliedSecured'
    <3>1. PICK s, f, v : s = r.session /\ f = r.file /\ v = r.version
      OBVIOUS
    <3>2. Secured(s, f, v)
      BY <1>4, <1>20, <2>2, <2>3, <2>4, <3>1 DEF DoneSecured, BaselineMoves, Live
    <3>3. Secured(s, f, v)'
      BY <1>2, <1>6, <3>2 DEF Secured
    <3>4. PICK d : d = destination
      OBVIOUS
    <3>5. d = DestinationOf(r) /\ d.file = r.file /\ applied' = [destination |-> d, request |-> r.id]
      BY <1>20, <2>2, <3>4 DEF BaselineMoves, DestinationOf
    <3>6. d # None
      <4>1. d \in [revision : Option(Nat), file : Files, publication : Publications]
        BY <2>3, <3>5 DEF DestinationOf, RequestRecord
      <4> QED
        BY <4>1, NoDestinationAssumption
    <3>7. /\ destination' = d /\ authoring' = y /\ y.file = f /\ y.saved = v /\ y.session = s
          /\ applied'.destination = d
      BY <1>2, <1>20, <2>2, <2>3, <2>5, <3>1, <3>4, <3>5 DEF BaselineMoves
    <3>8. y.saved # None
      BY <2>5, <2>6
    <3> QED
      BY <2>1, <3>1, <3>3, <3>5, <3>6, <3>7, <3>8 DEF AppliedSecured, Secured
  <2>9. RequiredCovered'
    <3> SUFFICES ASSUME NEW k \in Required
                 PROVE  /\ k < nextRequestId
                        /\ \A q \in Outstanding \cup Done' : q.id = k => q.version = y.version
                        /\ applied' # None /\ applied'.request = k => y.saved = y.version
      BY <1>2, <1>6, <1>14, <1>20, <2>1 DEF RequiredCovered
    <3>1. applied'.request = r.id
      BY <1>20, <2>2 DEF BaselineMoves
    <3>2. r.id = k => r.version = x.version
      BY <1>20, <2>3 DEF RequiredCovered
    <3> QED
      BY <1>5, <1>20, <2>5, <3>1, <3>2 DEF RequiredCovered
  <2> QED
    BY <1>6, <1>11, <1>12, <1>13, <1>14, <1>15, <1>17, <2>7, <2>8, <2>9
<1> QED
  BY <1>7, <1>18, <1>19, <1>20

-----------------------------------------------------------------------------
\* The open session submits what it is.

\* A manual save goes to the destination, and begins a lineage if it is new.
ToDestination(r) ==
    /\ destination' # None
    /\ destination'.revision = r.lineage
    /\ destination'.file = r.file
    /\ destination'.publication = r.publication
    /\ \/ UNCHANGED <<destination, applied>>
       \/ /\ applied' = None
          /\ r.lineage = IF destination = None THEN 1 ELSE destination.revision + 1

OpenSubmits(r) ==
    /\ authoring # None /\ task = None /\ close = None
    /\ UNCHANGED <<authoring, close, fault, used>>
    /\ Submit(r)
    /\ r.id = nextRequestId
    /\ r.session = authoring.session /\ r.version = authoring.version
    /\ r.kind = "Manual" => ToDestination(r)
    /\ r.kind # "Manual" => UNCHANGED <<destination, applied>>
    /\ HandoffHolds' /\ ~Publishing'
    /\ Required' \subseteq {nextRequestId}

LEMMA OpenSubmitsFacts ==
    ASSUME LifecycleInv, DestinationInv, NEW r \in RequestRecord, OpenSubmits(r)
    PROVE  /\ nextRequestId \in Nat /\ nextRequestId \in RequestIds
           /\ nextRequestId' = nextRequestId + 1
           /\ QueueOrdered' /\ Outstanding' = Outstanding \cup {r}
           /\ Saves' \subseteq Saves \cup {r} /\ Saves \subseteq Saves'
           /\ r.kind # "Manual" => Saves' = Saves
           /\ r.kind = "Manual" => r \in Saves'
           /\ Done' = Done
           /\ UNCHANGED <<files, createBindings, completions>>
           /\ \A q \in Outstanding \cup Done : q.id < r.id /\ q.id \in Nat
           /\ \A s : IsOpen(s)' <=> IsOpen(s)
           /\ \A s : IsOpen(s) <=> s = r.session
           /\ \A s : (Live(s) <=> IsOpen(s)) /\ (Live(s)' <=> IsOpen(s))
           /\ \A s : LineageOf(s) = IF destination = None THEN 0 ELSE destination.revision
           /\ \A s : LineageOf(s)' = IF destination' = None THEN 0 ELSE destination'.revision
<1> USE DEF OpenSubmits, DestinationInv
<1>1. ServiceTyped
  BY DEF LifecycleInv, ServiceInv
<1>2. /\ channel' = Append(channel, r) /\ nextRequestId' = nextRequestId + 1
      /\ UNCHANGED <<running, files, createBindings, completions>>
  BY DEF Submit, workerVars, diskVars
<1>3. /\ r.kind \in {"Manual", "Autosave"} /\ r.id \in RequestIds
      /\ \A q \in Outstanding \cup Done : q.id < r.id /\ q.id \in Nat
      /\ nextRequestId \in Nat
  BY <1>1, Requests DEF OrderInv, IdsIssued, RequestRecord
<1>4. QueueOrdered' /\ Outstanding' = Outstanding \cup {r}
  BY <1>1, <1>2, <1>3, QueueGrows
<1>5. ~Publishing /\ \A s : ~IsCandidate(s) /\ ~IsCandidate(s)'
  BY DEF Publishing, IsCandidate
<1> QED
  BY <1>2, <1>3, <1>4, <1>5 DEF Saves, Done, IsOpen, Live, LineageOf

\* What is submitted stands last, in a lineage of its own or the current one.
LEMMA OpenSubmitsLineage ==
    ASSUME LifecycleInv, DestinationInv, NEW r \in RequestRecord, OpenSubmits(r),
           r.kind = "Manual"
    PROVE  /\ r.lineage \in 1 .. r.id /\ r.lineage \in RequestIds
           /\ LineageOf(r.session)' = r.lineage
           /\ LineageOf(r.session) \in Nat /\ LineageOf(r.session) <= r.lineage
           /\ UNCHANGED <<destination, applied>> \/ LineageOf(r.session) < r.lineage
           /\ \A q \in Saves : q.session = r.session =>
                  /\ q.lineage \in Nat /\ q.lineage <= r.lineage
                  /\ q.lineage = r.lineage =>
                         /\ UNCHANGED <<destination, applied>>
                         /\ q.file = r.file /\ q.publication = r.publication
<1> USE DEF DestinationInv, LineageInv
<1>1. ToDestination(r) /\ r.id = nextRequestId
  BY DEF OpenSubmits
<1>2. PICK n, l : n = nextRequestId /\ l = LineageOf(r.session)
  OBVIOUS
<1>3. /\ n \in Nat /\ n \in RequestIds /\ r.id = n /\ n >= 1
      /\ l = IF destination = None THEN 0 ELSE destination.revision
      /\ LineageOf(r.session)' = r.lineage
      /\ Live(r.session) /\ IsOpen(r.session)
  BY <1>1, <1>2, OpenSubmitsFacts DEF ToDestination, RequestIds
<1>4. destination # None => destination.revision \in 1 .. n - 1
  BY <1>2 DEF DestinationShared
<1>5. l \in Nat /\ l <= n - 1
  BY <1>3, <1>4
<1>6. UNCHANGED <<destination, applied>> \/ r.lineage = l + 1
  BY <1>1, <1>3 DEF ToDestination
<1>7. UNCHANGED <<destination, applied>> => r.lineage = l /\ l >= 1
  BY <1>1, <1>3, <1>4 DEF ToDestination
<1>8. r.lineage \in 1 .. n /\ r.lineage \in RequestIds
  BY <1>3, <1>5, <1>6, <1>7, PersistenceAssumption DEF RequestIds
<1>9. ASSUME NEW q \in Saves, q.session = r.session
      PROVE  /\ q.lineage \in Nat /\ q.lineage <= r.lineage
             /\ q.lineage = r.lineage =>
                    /\ UNCHANGED <<destination, applied>>
                    /\ q.file = r.file /\ q.publication = r.publication
  <2>1. q.id \in Nat
    BY OpenSubmitsFacts DEF Saves
  <2>2. q.lineage \in 1 .. q.id /\ q.lineage <= l
    BY <1>2, <1>3, <1>9 DEF LineagesInOrder
  <2>3. q.lineage \in Nat /\ q.lineage <= r.lineage
    BY <1>5, <1>6, <1>7, <2>1, <2>2
  <2>4. q.lineage = r.lineage => UNCHANGED <<destination, applied>>
    BY <1>5, <1>6, <2>2, <2>3
  <2>5. q.lineage = r.lineage => q.file = r.file /\ q.publication = r.publication
    <3>1. UNCHANGED destination /\ destination # None =>
              /\ destination.revision = r.lineage /\ destination.file = r.file
              /\ destination.publication = r.publication
      BY <1>1 DEF ToDestination
    <3>2. UNCHANGED destination => destination # None
      BY <1>1 DEF ToDestination
    <3> QED
      BY <1>3, <1>9, <2>4, <3>1, <3>2 DEF DestinationShared
  <2> QED
    BY <2>3, <2>4, <2>5
<1> QED
  BY <1>2, <1>3, <1>5, <1>6, <1>7, <1>8, <1>9

LEMMA OpenSubmitsOrder ==
    ASSUME LifecycleInv, DestinationInv, NEW r \in RequestRecord, OpenSubmits(r)
    PROVE  OrderInv' /\ LineageInv'
<1> USE DEF DestinationInv, OrderInv, LineageInv
<1>1. /\ nextRequestId \in Nat /\ nextRequestId' = nextRequestId + 1 /\ r.id = nextRequestId
      /\ Outstanding' = Outstanding \cup {r}
      /\ Saves' \subseteq Saves \cup {r}
      /\ r.kind # "Manual" => Saves' = Saves
      /\ Done' = Done
      /\ UNCHANGED <<createBindings, used>>
      /\ \A q \in Outstanding \cup Done : q.id < r.id /\ q.id \in Nat
      /\ \A s : IsOpen(s)' <=> IsOpen(s)
      /\ \A s : IsOpen(s) <=> s = r.session
      /\ \A s : (Live(s) <=> IsOpen(s)) /\ (Live(s)' <=> IsOpen(s))
  BY OpenSubmitsFacts DEF OpenSubmits
<1>2. IdsIssued'
  <2>1. applied' = None \/ applied' = applied
    BY DEF OpenSubmits, ToDestination
  <2>2. applied # None => applied.request \in Nat /\ applied.request < nextRequestId
    BY PersistenceAssumption
       DEF IdsIssued, LifecycleInv, MainInv, MainTyped, Option, AppliedRequest, RequestIds
  <2>3. \A q \in Outstanding' \cup Done' : q.id < nextRequestId'
    BY <1>1
  <2>4. \A q \in Outstanding', d \in Done' : q.id # d.id
    BY <1>1 DEF IdsIssued
  <2> QED
    BY <1>1, <2>1, <2>2, <2>3, <2>4 DEF IdsIssued
<1>3. \A q, p \in Outstanding' : q.id < p.id => q \in Outstanding
  BY <1>1
<1>4. LiveLast'
  <2> SUFFICES ASSUME NEW p \in Outstanding', NEW q \in Outstanding', IsOpen(p.session),
                      p.id < q.id
               PROVE  q.session = p.session
    BY <1>1 DEF LiveLast
  <2> QED
    BY <1>1, <1>3 DEF LiveLast
<1>5. Contiguous'
  <2> SUFFICES ASSUME NEW p \in Outstanding', NEW q \in Outstanding', NEW t \in Outstanding',
                      p.id < q.id, q.id < t.id, p.session = t.session
               PROVE  q.session = p.session
    BY DEF Contiguous
  <2>1. p \in Outstanding /\ q \in Outstanding
    BY <1>3
  <2>2. CASE t = r
    BY <1>1, <2>1, <2>2 DEF LiveLast
  <2> QED
    BY <1>1, <2>1, <2>2 DEF Contiguous
<1>6. CandidateAlone'
  BY DEF OpenSubmits, CandidateAlone
<1>7. ASSUME r.kind # "Manual"
      PROVE  LineageInv'
  <2>1. UNCHANGED destination /\ Saves' = Saves
    BY <1>1, <1>7 DEF OpenSubmits
  <2>2. \A s : LineageOf(s)' = LineageOf(s)
    BY <2>1, OpenSubmitsFacts
  <2>3. LineagesInOrder'
    BY <1>1, <2>1, <2>2 DEF LineagesInOrder
  <2>4. BindingsKnown'
    BY <1>1, <2>2 DEF BindingsKnown
  <2>5. DestinationShared'
    BY <1>1, <2>1 DEF DestinationShared
  <2> QED
    BY <2>3, <2>4, <2>5
<1>8. ASSUME r.kind = "Manual"
      PROVE  LineageInv'
  <2>1. /\ r.lineage \in 1 .. r.id
        /\ LineageOf(r.session)' = r.lineage
        /\ LineageOf(r.session) \in Nat /\ r.lineage \in Nat
        /\ LineageOf(r.session) <= r.lineage
        /\ UNCHANGED <<destination, applied>> \/ LineageOf(r.session) < r.lineage
        /\ \A q \in Saves : q.session = r.session =>
               /\ q.lineage \in Nat /\ q.lineage <= r.lineage
               /\ q.lineage = r.lineage =>
                      /\ UNCHANGED <<destination, applied>>
                      /\ q.file = r.file /\ q.publication = r.publication
    BY <1>8, PersistenceAssumption, OpenSubmitsLineage DEF RequestIds
  <2>2. LineagesInOrder'
    <3>1. \A t \in Saves' : t.lineage \in 1 .. t.id
      BY <1>1, <2>1 DEF LineagesInOrder
    <3>2. \A t \in Saves' : Live(t.session)' => t.lineage <= LineageOf(t.session)'
      <4> SUFFICES ASSUME NEW t \in Saves', t.session = r.session
                   PROVE  t.lineage <= LineageOf(r.session)'
        BY <1>1
      <4> QED
        BY <1>1, <2>1
    <3>3. ASSUME NEW t \in Saves', NEW q \in Saves', q.session = t.session
          PROVE  /\ q.id < t.id => q.lineage <= t.lineage
                 /\ q.lineage = t.lineage =>
                        q.file = t.file /\ q.publication = t.publication
      <4>1. CASE t = r /\ q = r
        BY <2>1, <4>1
      <4>2. CASE t = r /\ q \in Saves
        BY <2>1, <3>3, <4>2
      <4>3. CASE t \in Saves /\ q = r
        <5>1. ~(q.id < t.id)
          BY <1>1, <4>3 DEF Saves
        <5> QED
          BY <2>1, <3>3, <4>3, <5>1
      <4>4. CASE t \in Saves /\ q \in Saves
        BY <3>3, <4>4 DEF LineagesInOrder
      <4> QED
        BY <1>1, <4>1, <4>2, <4>3, <4>4
    <3> QED
      BY <3>1, <3>2, <3>3 DEF LineagesInOrder
  <2>3. BindingsKnown'
    <3> SUFFICES ASSUME NEW s \in Sessions, NEW l \in RequestIds, createBindings[s][l] # None
                 PROVE  s \in used /\ (IsOpen(s) => l <= LineageOf(s)')
      BY <1>1 DEF BindingsKnown
    <3>1. s \in used /\ (IsOpen(s) => l <= LineageOf(s))
      BY <1>1 DEF BindingsKnown
    <3>2. l \in Nat
      BY DEF RequestIds
    <3>3. IsOpen(s) => l <= LineageOf(r.session) /\ LineageOf(s)' = LineageOf(r.session)'
      BY <1>1, <3>1
    <3> QED
      BY <2>1, <3>1, <3>2, <3>3
  <2>4. DestinationShared'
    <3>1. /\ destination'.revision = r.lineage /\ destination'.file = r.file
          /\ destination'.publication = r.publication
      BY <1>8 DEF OpenSubmits, ToDestination
    <3>2. r.lineage \in 1 .. nextRequestId' - 1
      BY <1>1, <2>1
    <3>3. \A t \in Saves' : t.session = r.session /\ t.lineage = r.lineage =>
              t.file = r.file /\ t.publication = r.publication
      BY <1>1, <2>1
    <3> QED
      BY <1>1, <3>1, <3>2, <3>3 DEF DestinationShared
  <2> QED
    BY <2>2, <2>3, <2>4
<1> QED
  BY <1>2, <1>4, <1>5, <1>6, <1>7, <1>8, OpenSubmitsFacts

LEMMA OpenSubmitsOwners ==
    ASSUME LifecycleInv, DestinationInv, NEW r \in RequestRecord, OpenSubmits(r)
    PROVE  OwnerInv'
<1> USE DEF DestinationInv, LineageInv, OwnerInv
<1>1. /\ r.id = nextRequestId
      /\ Saves' \subseteq Saves \cup {r}
      /\ r.kind # "Manual" => Saves' = Saves
      /\ UNCHANGED <<createBindings, files>>
      /\ \A q \in Saves : q.id < r.id /\ q.id \in Nat
      /\ \A s : IsOpen(s)' <=> IsOpen(s)
      /\ \A s : IsOpen(s) <=> s = r.session
      /\ \A s : Live(s) <=> IsOpen(s)
      /\ r.session \in Sessions /\ r.id \in Nat
  BY OpenSubmitsFacts DEF OpenSubmits, Saves, RequestRecord
<1>2. \A q : BindingOf(q)' = BindingOf(q)
  BY <1>1 DEF BindingOf
<1>3. \A f, s, l : Claimed(f, s, l)' <=> Claimed(f, s, l)
  BY <1>1 DEF Claimed
\* A lineage that is established is the current one, and owns its path.
<1>4. ASSUME r.kind = "Manual", createBindings[r.session][r.lineage] = "Established"
      PROVE  /\ UNCHANGED destination
             /\ r.publication = "CreateNew" =>
                    /\ Claimed(r.file, r.session, r.lineage)
                    /\ \A q \in Saves : Own(q, r.file, r.session, r.lineage)
  <2>1. /\ r.lineage \in RequestIds /\ r.lineage \in Nat
        /\ LineageOf(r.session) \in Nat
        /\ UNCHANGED <<destination, applied>> \/ LineageOf(r.session) < r.lineage
    BY <1>4, PersistenceAssumption, OpenSubmitsLineage DEF RequestIds
  <2>2. createBindings[r.session][r.lineage] # None
    BY <1>4, NoneAssumption DEF BindingStates
  <2>3. r.lineage <= LineageOf(r.session)
    BY <1>1, <2>1, <2>2 DEF BindingsKnown
  <2>4. UNCHANGED destination
    BY <2>1, <2>3
  <2>5. /\ destination # None /\ destination.revision = r.lineage /\ destination.file = r.file
        /\ destination.publication = r.publication
    BY <1>4, <2>4 DEF OpenSubmits, ToDestination
  <2> QED
    BY <1>1, <1>4, <2>4, <2>5 DEF DestinationOwns
<1>5. SavesOwn'
  <2> SUFFICES ASSUME NEW t \in Saves', BindingOf(t) = "Established"
               PROVE  /\ Claimed(t.file, t.session, t.lineage)
                      /\ \A q \in Saves' : q.id < t.id => Own(q, t.file, t.session, t.lineage)
    BY <1>2, <1>3 DEF SavesOwn, Own
  <2>1. CASE t \in Saves
    <3>1. \A q \in Saves' : q.id < t.id => q \in Saves
      BY <1>1, <2>1
    <3> QED
      BY <2>1, <3>1 DEF SavesOwn
  <2>2. CASE t = r
    <3>1. /\ r.kind = "Manual" /\ r.publication = "CreateNew"
          /\ createBindings[r.session][r.lineage] = "Established"
      BY <2>2, NoneAssumption DEF BindingOf, BindingStates
    <3>2. \A q \in Saves' : q.id < r.id => q \in Saves
      BY <1>1
    <3> QED
      BY <1>4, <2>2, <3>1, <3>2
  <2> QED
    BY <1>1, <2>1, <2>2
<1>6. DestinationOwns'
  <2>1. PICK d : d = destination'
    OBVIOUS
  <2>2. ASSUME NEW s \in Sessions, IsOpen(s), d # None, d.publication = "CreateNew",
               createBindings[s][d.revision] = "Established"
        PROVE  /\ Claimed(d.file, s, d.revision)
               /\ \A q \in Saves' : Own(q, d.file, s, d.revision)
    <3>1. CASE r.kind # "Manual"
      <4>1. d = destination /\ Saves' = Saves
        BY <1>1, <2>1, <3>1 DEF OpenSubmits
      <4> QED
        BY <2>2, <4>1 DEF DestinationOwns
    <3>2. CASE r.kind = "Manual"
      <4>1. /\ d.revision = r.lineage /\ d.file = r.file /\ d.publication = r.publication
            /\ s = r.session
        BY <1>1, <2>1, <2>2, <3>2 DEF OpenSubmits, ToDestination
      <4>2. /\ Claimed(r.file, r.session, r.lineage)
            /\ \A q \in Saves : Own(q, r.file, r.session, r.lineage)
        BY <1>4, <2>2, <3>2, <4>1
      <4> QED
        BY <1>1, <4>1, <4>2 DEF Own
    <3> QED
      BY <3>1, <3>2
  <2> QED
    BY <1>1, <1>3, <2>1, <2>2 DEF DestinationOwns, Own
<1> QED
  BY <1>5, <1>6

LEMMA OpenSubmitsDestination ==
    ASSUME LifecycleInv, RevisionInv, DestinationInv,
           NEW r \in RequestRecord, OpenSubmits(r)
    PROVE  DestinationInv'
<1> USE DEF DestinationInv, SavedInv
<1>1. ServiceTyped /\ MainTyped
  BY DEF LifecycleInv, ServiceInv, MainInv
<1>2. /\ nextRequestId \in Nat /\ nextRequestId' = nextRequestId + 1 /\ r.id = nextRequestId
      /\ QueueOrdered' /\ Outstanding' = Outstanding \cup {r}
      /\ Saves' \subseteq Saves \cup {r}
      /\ Done' = Done
      /\ UNCHANGED <<files, completions, authoring, used>>
      /\ \A q \in Outstanding \cup Done : q.id < r.id /\ q.id \in Nat
      /\ \A s : IsOpen(s)' <=> IsOpen(s)
      /\ \A s : IsOpen(s) <=> s = r.session
      /\ \A s : (Live(s) <=> IsOpen(s)) /\ (Live(s)' <=> IsOpen(s))
      /\ authoring # None /\ r.session = authoring.session /\ r.version = authoring.version
  BY OpenSubmitsFacts DEF OpenSubmits
<1>3. OrderInv' /\ LineageInv' /\ OwnerInv'
  BY OpenSubmitsOrder, OpenSubmitsOwners
<1>4. Received /\ KeepsFiles
  BY <1>2 DEF Received, KeepsFiles
<1>5. DoneSecured'
  BY <1>1, <1>2, <1>4, DoneSecuredFrame
<1>6. DoneOrdered'
  <2>1. \A c \in Done, q \in Saves' :
            c.kind = "Manual" /\ q.session = c.session => q \in Saves \/ c.version <= q.version
    BY <1>2 DEF DoneOrdered
  <2>2. \A c \in Done : c.kind = "Manual" /\ IsOpen(c.session)' => c.version <= authoring'.version
    BY <1>2 DEF DoneOrdered
  <2> QED
    BY <1>1, <1>2, <1>4, <2>1, <2>2, DoneOrderedFrame
<1>7. SavedBelow'
  BY <1>2, SavedBelowFrame
<1>8. AppliedSecured'
  <2>1. applied' = None \/ UNCHANGED <<applied, authoring, destination>>
    BY <1>2 DEF OpenSubmits, ToDestination
  <2> QED
    BY <1>1, <1>2, <1>4, <2>1, AppliedFrame
<1>9. RequiredCovered'
  <2> SUFFICES ASSUME NEW k, k = nextRequestId
               PROVE  /\ k < nextRequestId'
                      /\ \A q \in Outstanding' \cup Done' : q.id = k => q.version = authoring.version
                      /\ applied' # None => applied'.request # k
    BY <1>2 DEF RequiredCovered, OpenSubmits
  <2>1. applied' = None \/ applied' = applied
    BY DEF OpenSubmits, ToDestination
  <2>2. applied # None => applied.request < nextRequestId /\ applied.request \in Nat
    BY <1>1, PersistenceAssumption
       DEF OrderInv, IdsIssued, MainTyped, Option, AppliedRequest, RequestIds
  <2> QED
    BY <1>2, <2>1, <2>2
<1> QED
  BY <1>2, <1>3, <1>5, <1>6, <1>7, <1>8, <1>9 DEF OpenSubmits

\* What a save is sent to: the current destination, or one behind it.
LEMMA RetargetedRevision ==
    ASSUME MainTyped, authoring # None, NEW target \in Option(Files)
    PROVE  LET d == Retargeted(target) IN
           /\ d \in ManualProjectFileDestination /\ d # None
           /\ d = destination \/ d.revision = IF destination = None THEN 1
                                              ELSE destination.revision + 1
<1>1. PICK d : d = Retargeted(target)
  OBVIOUS
<1>2. d \in ManualProjectFileDestination
  BY <1>1, RetargetedType
<1>3. d # None
  BY <1>2, NoDestinationAssumption DEF ManualProjectFileDestination, Option
<1>4. d = destination \/ d.revision = IF destination = None THEN 1 ELSE destination.revision + 1
  BY <1>1 DEF Retargeted
<1> QED
  BY <1>1, <1>2, <1>3, <1>4

LEMMA SubmitSaveDestination ==
    ASSUME LifecycleInv, RevisionInv, DestinationInv,
           NEW target \in Option(Files), SubmitSave(target),
           \/ task' = task
           \/ task' = [NewTask("SaveThenClose", "BeginClose") EXCEPT !.request = nextRequestId]
    PROVE  DestinationInv'
<1>1. PICK d : d = Retargeted(target)
  OBVIOUS
<1>2. PICK r : r = ManualRequest(authoring.session, authoring.project, authoring.root,
                                 authoring.version, authoring.revision, d)
  OBVIOUS
<1>3. /\ authoring # None /\ task = None /\ close = None /\ fault = None
      /\ CanSubmit(authoring.session) /\ Submit(r)
      /\ destination' = d
      /\ applied' = IF destination = d THEN applied ELSE None
      /\ UNCHANGED <<authoring, close, fault, used>>
  BY <1>1, <1>2 DEF SubmitSave, Idle, CloseBlocksActions, closeVars
<1>4. /\ d \in ManualProjectFileDestination /\ d # None
      /\ d = destination \/ d.revision = IF destination = None THEN 1
                                         ELSE destination.revision + 1
  BY <1>1, <1>3, RetargetedRevision DEF LifecycleInv, MainInv
<1>5. r \in RequestRecord /\ r.session = authoring.session
  <2>1. /\ authoring.session \in Sessions /\ authoring.project \in Projects
        /\ authoring.root \in Files /\ authoring.version \in Versions
        /\ authoring.revision \in Nat
    BY <1>3 DEF LifecycleInv, MainInv, MainTyped, Option, AuthoringSession
  <2> QED
    BY <1>2, <1>3, <1>4, <2>1, ManualRequestType DEF CanSubmit, LifecycleInv, ServiceInv
<1>6. /\ r.id = nextRequestId /\ r.version = authoring.version /\ r.kind = "Manual"
      /\ r.lineage = d.revision /\ r.file = d.file /\ r.publication = d.publication
  BY <1>2 DEF ManualRequest
<1>7. ToDestination(r)
  BY <1>3, <1>4, <1>6 DEF ToDestination
<1>8. task' # None => /\ task'.op = "SaveThenClose" /\ task'.stage = "BeginClose"
                      /\ task'.request = nextRequestId
  BY <1>3 DEF NewTask
<1>9. HandoffHolds' /\ ~Publishing' /\ Required' \subseteq {nextRequestId}
  BY <1>3, <1>8 DEF HandoffHolds, Publishing, Required
<1>10. OpenSubmits(r)
  BY <1>3, <1>5, <1>6, <1>7, <1>9 DEF OpenSubmits
<1> QED
  BY <1>5, <1>10, OpenSubmitsDestination

LEMMA RequestAutosaveDestination ==
    ASSUME LifecycleInv, RevisionInv, DestinationInv, RequestAutosave
    PROVE  DestinationInv'
<1>1. PICK r : r = AutosaveRequest(authoring.session, authoring.project, authoring.root,
                                   authoring.version, authoring.revision, authoring.file)
  OBVIOUS
<1>2. /\ authoring # None /\ task = None /\ close = None /\ fault = None
      /\ CanSubmit(authoring.session) /\ Submit(r)
      /\ UNCHANGED <<authoring, destination, applied, close, fault, used, task>>
  BY <1>1 DEF RequestAutosave, Idle, CloseBlocksActions, closeVars
<1>3. r \in RequestRecord /\ r.session = authoring.session
  <2>1. /\ authoring.session \in Sessions /\ authoring.project \in Projects
        /\ authoring.root \in Files /\ authoring.version \in Versions
        /\ authoring.revision \in Nat /\ authoring.file \in Files
    BY <1>2 DEF LifecycleInv, MainInv, MainTyped, Option, AuthoringSession
  <2> QED
    BY <1>1, <1>2, <2>1, AutosaveRequestType DEF CanSubmit, LifecycleInv, ServiceInv
<1>4. r.id = nextRequestId /\ r.version = authoring.version /\ r.kind = "Autosave"
  BY <1>1 DEF AutosaveRequest
<1>5. HandoffHolds' /\ ~Publishing' /\ Required' = {}
  BY <1>2 DEF HandoffHolds, Publishing, Required
<1>6. OpenSubmits(r)
  BY <1>2, <1>3, <1>4, <1>5 DEF OpenSubmits
<1> QED
  BY <1>3, <1>6, OpenSubmitsDestination

-----------------------------------------------------------------------------
\* A session that never existed submits its first save.

\* Behind a handoff nothing of the open session is outstanding
\* (begin_project_session_handoff).
LEMMA HandoffQuiet ==
    ASSUME LifecycleInv, HandoffHolds, task # None, task.stage = "Finish",
           task.op \in {"Open", "Recover", "Create"}
    PROVE  \A q \in Outstanding : ~IsOpen(q.session)
<1> SUFFICES ASSUME NEW q \in Outstanding, IsOpen(q.session)
             PROVE  FALSE
  OBVIOUS
<1>1. authoring # None /\ task.token = q.session
  BY DEF HandoffHolds, IsOpen
<1>2. q.session \in Sessions
  BY Requests DEF LifecycleInv, ServiceInv
<1>3. Phase(q.session) = "Paused"
  BY <1>1, <1>2, NoneFacts, FinishToken DEF LifecycleInv
<1> QED
  BY <1>3 DEF LifecycleInv, ServiceInv, OutstandingAdmitted

\* The request r of the candidate x of session s.
CandidateSubmits(r, x) ==
    /\ task # None /\ task.op = "Create" /\ task.stage = "Finish"
    /\ UNCHANGED <<authoring, destination, applied, close, fault>>
    /\ Submit(r)
    /\ r.id = nextRequestId /\ r.session = x.session /\ r.version = x.version
    /\ r.kind = "Manual" /\ r.lineage = 1 /\ r.file = task.file
    /\ files[r.file] = None
    /\ x.session \in Fresh /\ used' = used \cup {x.session}
    /\ x.saved = None
    /\ task'.op = "Create" /\ task'.stage = "Publish"
    /\ task'.request = nextRequestId /\ task'.candidate = x
    /\ task'.token = task.token /\ task'.file = task.file

LEMMA CreateSubmitsMoves ==
    ASSUME LifecycleInv, NEW s \in Fresh, CreateSubmits(s)
    PROVE  \E r \in RequestRecord, x \in AuthoringSession : CandidateSubmits(r, x)
<1>1. PICK t \in Task : t = task /\ task # None /\ t.op = "Create" /\ t.stage = "Finish"
  BY TaskFacts DEF LifecycleInv, CreateSubmits
<1>2. t.file \in Files
  BY <1>1, TaskFacts DEF LifecycleInv, Shaped
<1>3. PICK d : d = [revision |-> 1, file |-> t.file, publication |-> "CreateNew"]
  OBVIOUS
<1>4. PICK v : v = lastVersion + 1
  OBVIOUS
<1>5. PICK x : x = [session |-> s, project |-> s, root |-> t.file,
                    file |-> t.file, version |-> v, revision |-> 1,
                    saved |-> None, autosaved |-> None]
  OBVIOUS
<1>6. PICK r : r = ManualRequest(s, s, t.file, v, 1, d)
  OBVIOUS
<1>7. /\ files[t.file] = None /\ CanSubmit(s) /\ lastVersion < MaxVersion
      /\ Submit(r)
      /\ used' = used \cup {s}
      /\ task' = [t EXCEPT !.stage = "Publish", !.request = nextRequestId, !.candidate = x]
      /\ UNCHANGED <<authoring, destination, applied, close, fault>>
  BY <1>1, <1>3, <1>4, <1>5, <1>6 DEF CreateSubmits, openVars, closeVars
<1>8. s \in Sessions /\ s \in Projects /\ v \in Versions
  BY <1>4, <1>7, PersistenceAssumption
     DEF Fresh, Projects, LifecycleInv, MainInv, MainTyped, Versions
<1>9. d \in ManualProjectFileDestination
  BY <1>2, <1>3 DEF ManualProjectFileDestination, Publications
<1>10. r \in RequestRecord
  BY <1>2, <1>6, <1>7, <1>8, <1>9, ManualRequestType DEF CanSubmit, LifecycleInv, ServiceInv
<1>11. /\ r.id = nextRequestId /\ r.session = s /\ r.version = v /\ r.kind = "Manual"
       /\ r.lineage = 1 /\ r.file = t.file
  BY <1>3, <1>6 DEF ManualRequest
<1>12. x \in AuthoringSession
  BY <1>2, <1>5, <1>8 DEF AuthoringSession, Option
<1>13. x.session = s /\ x.version = v /\ x.saved = None
  BY <1>5
<1>14. /\ task'.op = "Create" /\ task'.stage = "Publish" /\ task'.request = nextRequestId
       /\ task'.candidate = x /\ task'.token = t.token /\ task'.file = t.file
  BY <1>1, <1>7 DEF Task
<1> QED
  BY <1>1, <1>7, <1>10, <1>11, <1>12, <1>13, <1>14 DEF CandidateSubmits

LEMMA CandidateSubmitsDestination ==
    ASSUME LifecycleInv, RevisionInv, DestinationInv,
           NEW r \in RequestRecord, NEW x \in AuthoringSession, CandidateSubmits(r, x)
    PROVE  DestinationInv'
<1> USE DEF DestinationInv, OrderInv, LineageInv, OwnerInv, SavedInv
<1>1. ServiceTyped /\ MainTyped
  BY DEF LifecycleInv, ServiceInv, MainInv
<1>2. PICK s, n : s = x.session /\ n = nextRequestId
  OBVIOUS
<1>3. /\ task # None /\ task.op = "Create" /\ task.stage = "Finish"
      /\ UNCHANGED <<authoring, destination, applied, close, fault>>
      /\ r.id = n /\ r.session = s /\ r.version = x.version
      /\ r.kind = "Manual" /\ r.lineage = 1 /\ r.file = task.file
      /\ files[r.file] = None /\ s \in Fresh /\ used' = used \cup {s} /\ x.saved = None
      /\ task'.op = "Create" /\ task'.stage = "Publish" /\ task'.request = n
      /\ task'.candidate = x /\ task'.token = task.token /\ task'.file = task.file
  BY <1>2 DEF CandidateSubmits
<1>4. /\ channel' = Append(channel, r) /\ nextRequestId' = n + 1
      /\ UNCHANGED <<running, files, createBindings, completions>>
  BY <1>2 DEF CandidateSubmits, Submit, workerVars, diskVars
<1>5. /\ r.id \in RequestIds /\ n \in Nat /\ n >= 1
      /\ \A q \in Outstanding \cup Done : q.id < n /\ q.id \in Nat
  BY <1>1, <1>2, <1>3, Requests DEF IdsIssued, RequestRecord, RequestIds
<1>6. QueueOrdered' /\ Outstanding' = Outstanding \cup {r}
  BY <1>1, <1>2, <1>3, <1>4, <1>5, QueueGrows
<1>7. Saves' = Saves \cup {r} /\ Done' = Done
  BY <1>3, <1>4, <1>6 DEF Saves, Done
<1>8. /\ \A q \in Outstanding : ~IsOpen(q.session) /\ q.session # s
      /\ \A q \in Done : q.session # s
      /\ ~IsOpen(s)
      /\ task.token # s /\ close = None
  <2>1. close = None /\ (task.token # None => task.token \in used)
    BY <1>3, TaskFacts DEF LifecycleInv, Shaped
  <2>2. s \in Sessions /\ s \notin used /\ s # None
    BY <1>3, NoneFacts DEF Fresh
  <2> QED
    BY <1>3, <2>1, <2>2, HandoffQuiet, FreshHasNothing, MainNumbers DEF DoneOrdered, IsOpen
<1>9. /\ \A t : IsOpen(t)' <=> IsOpen(t)
      /\ \A t : ~IsCandidate(t)
      /\ \A t : IsCandidate(t)' => t = s
      /\ \A t : Live(t)' => (t = s /\ LineageOf(t)' = 1)
                            \/ (IsOpen(t) /\ Live(t) /\ t # s /\ LineageOf(t)' = LineageOf(t))
  <2>1. (\A t : IsOpen(t)' <=> IsOpen(t)) /\ destination' = destination
    BY <1>3 DEF IsOpen
  <2>2. (\A t : ~IsCandidate(t)) /\ \A t : IsCandidate(t)' => t = s
    BY <1>2, <1>3 DEF IsCandidate, Publishing
  <2>3. ASSUME NEW t, Live(t)'
        PROVE  \/ t = s /\ LineageOf(t)' = 1
               \/ IsOpen(t) /\ Live(t) /\ t # s /\ LineageOf(t)' = LineageOf(t)
    <3>1. CASE IsCandidate(t)'
      BY <2>2, <3>1 DEF LineageOf
    <3>2. CASE ~IsCandidate(t)'
      <4>1. IsOpen(t) /\ t # s
        BY <1>8, <2>1, <2>3, <3>2 DEF Live
      <4> QED
        BY <2>1, <2>2, <3>2, <4>1 DEF Live, LineageOf
    <3> QED
      BY <3>1, <3>2
  <2> QED
    BY <2>1, <2>2, <2>3
<1>10. IdsIssued'
  <2>1. applied # None => applied.request \in Nat /\ applied.request < n
    BY <1>1, <1>2, PersistenceAssumption
       DEF IdsIssued, MainTyped, Option, AppliedRequest, RequestIds
  <2>2. \A q \in Outstanding' \cup Done' : q.id < nextRequestId'
    BY <1>3, <1>4, <1>5, <1>6, <1>7
  <2>3. \A q \in Outstanding', d \in Done' : q.id # d.id
    BY <1>3, <1>5, <1>6, <1>7 DEF IdsIssued
  <2> QED
    BY <1>3, <1>4, <1>5, <2>1, <2>2, <2>3 DEF IdsIssued
<1>11. LiveLast' /\ Contiguous'
  <2>1. \A p, q \in Outstanding' : p.id < q.id => p \in Outstanding
    BY <1>3, <1>5, <1>6
  <2>2. LiveLast'
    BY <1>8, <1>9, <2>1 DEF LiveLast
  <2>3. ASSUME NEW p \in Outstanding', NEW q \in Outstanding', NEW t \in Outstanding',
               p.id < q.id, q.id < t.id, p.session = t.session
        PROVE  q.session = p.session
    <3>1. p \in Outstanding /\ q \in Outstanding
      BY <2>1, <2>3
    <3>2. t # r
      BY <1>3, <1>8, <2>3, <3>1
    <3> QED
      BY <1>6, <2>3, <3>1, <3>2 DEF Contiguous
  <2> QED
    BY <2>2, <2>3 DEF Contiguous
<1>12. CandidateAlone'
  <2>1. \A q \in Outstanding' \cup Done' :
            /\ q.session = s <=> q.id = n
            /\ q.id = n => q = r
    BY <1>3, <1>5, <1>6, <1>7, <1>8
  <2> QED
    BY <1>2, <1>3, <2>1 DEF CandidateAlone
<1>13. LineagesInOrder'
  <2>1. \A t \in Saves' : t.lineage \in 1 .. t.id
    BY <1>3, <1>5, <1>7 DEF LineagesInOrder
  <2>2. \A t \in Saves' : Live(t.session)' => t.lineage <= LineageOf(t.session)'
    BY <1>3, <1>7, <1>8, <1>9 DEF Saves
  <2>3. ASSUME NEW t \in Saves', NEW q \in Saves', q.session = t.session
        PROVE  /\ q.id < t.id => q.lineage <= t.lineage
               /\ q.lineage = t.lineage => q.file = t.file /\ q.publication = t.publication
    <3>1. CASE t = r
      <4>1. q = r
        BY <1>3, <1>7, <1>8, <2>3, <3>1 DEF Saves
      <4> QED
        BY <1>3, <3>1, <4>1
    <3>2. CASE t \in Saves
      <4>1. q \in Saves
        BY <1>3, <1>7, <1>8, <2>3, <3>2 DEF Saves
      <4> QED
        BY <2>3, <3>2, <4>1 DEF LineagesInOrder
    <3> QED
      BY <1>7, <3>1, <3>2
  <2> QED
    BY <2>1, <2>2, <2>3 DEF LineagesInOrder
<1>14. \A l \in RequestIds : createBindings[s][l] = None
  BY <1>3 DEF BindingsKnown, Fresh
<1>15. BindingsKnown'
  <2> SUFFICES ASSUME NEW t \in Sessions, NEW l \in RequestIds, createBindings[t][l] # None
               PROVE  t \in used /\ (Live(t)' => l <= LineageOf(t)')
    BY <1>3, <1>4 DEF BindingsKnown
  <2> QED
    BY <1>9, <1>14 DEF BindingsKnown
<1>16. DestinationShared'
  <2>1. \A q \in Saves' : ~IsOpen(q.session)
    BY <1>3, <1>7, <1>8 DEF Saves
  <2> QED
    BY <1>2, <1>3, <1>4, <1>5, <1>9, <2>1 DEF DestinationShared
<1>17. SavesOwn'
  <2>1. \A q : BindingOf(q)' = BindingOf(q)
    BY <1>4 DEF BindingOf
  <2> SUFFICES ASSUME NEW t \in Saves', BindingOf(t) = "Established"
               PROVE  /\ Claimed(t.file, t.session, t.lineage)
                      /\ \A q \in Saves' : q.id < t.id => Own(q, t.file, t.session, t.lineage)
    BY <1>4, <2>1 DEF SavesOwn, Own, Claimed
  <2>2. t # r
    <3>1. 1 \in RequestIds
      BY <1>5, PersistenceAssumption DEF RequestIds
    <3>2. createBindings[s][1] # "Established"
      BY <1>14, <3>1, NoneAssumption DEF BindingStates
    <3> QED
      BY <1>3, <3>2, NoneAssumption DEF BindingOf, BindingStates
  <2>3. t \in Saves /\ t.id < n
    BY <1>5, <1>7, <2>2 DEF Saves
  <2>4. \A q \in Saves' : q.id < t.id => q \in Saves
    BY <1>3, <1>5, <1>7, <2>3 DEF Saves
  <2> QED
    BY <2>3, <2>4 DEF SavesOwn
<1>18. DestinationOwns'
  <2> SUFFICES ASSUME NEW t \in Sessions, IsOpen(t), destination # None,
                      destination.publication = "CreateNew",
                      createBindings[t][destination.revision] = "Established"
               PROVE  /\ Claimed(destination.file, t, destination.revision)
                      /\ \A q \in Saves' : Own(q, destination.file, t, destination.revision)
    BY <1>3, <1>4, <1>9 DEF DestinationOwns, Own, Claimed
  <2>1. /\ Claimed(destination.file, t, destination.revision)
        /\ \A q \in Saves : Own(q, destination.file, t, destination.revision)
    BY DEF DestinationOwns
  <2>2. r.file # destination.file
    BY <1>3, <2>1 DEF Claimed
  <2> QED
    BY <1>7, <2>1, <2>2 DEF Own
<1>19. Received /\ KeepsFiles
  BY <1>4 DEF Received, KeepsFiles
<1>20. DoneSecured'
  BY <1>1, <1>3, <1>7, <1>9, <1>19, DoneSecuredFrame
<1>21. DoneOrdered'
  <2>1. used \subseteq used'
    BY <1>3
  <2>2. \A c \in Done, q \in Saves' :
            c.kind = "Manual" /\ q.session = c.session => q \in Saves \/ c.version <= q.version
    BY <1>3, <1>7, <1>8
  <2>3. \A c \in Done : c.kind = "Manual" /\ IsOpen(c.session)' => c.version <= authoring'.version
    BY <1>3, <1>9 DEF DoneOrdered
  <2> QED
    BY <1>1, <1>19, <2>1, <2>2, <2>3, DoneOrderedFrame
<1>22. SavedBelow'
  <2>1. \A q \in Saves' \cup Done' :
            authoring # None /\ SavesOf(q, authoring.session) =>
                q \in Saves \cup Done \/ q.version = authoring.version
    BY <1>3, <1>7, <1>8 DEF SavesOf, IsOpen
  <2> QED
    BY <1>3, <2>1, SavedBelowFrame
<1>23. AppliedSecured'
  BY <1>1, <1>3, <1>7, <1>19, AppliedFrame
<1>24. HandoffHolds' /\ Required' = {}
  BY <1>3, <1>8 DEF HandoffHolds, Required
<1>25. RequiredCovered'
  BY <1>24 DEF RequiredCovered
<1> QED
  BY <1>6, <1>10, <1>11, <1>12, <1>13, <1>15, <1>16, <1>17, <1>18, <1>20, <1>21, <1>22, <1>23,
     <1>24, <1>25

-----------------------------------------------------------------------------
\* A session is installed.

LEMMA InstallDestination ==
    ASSUME LifecycleInv, LifecycleInv', RevisionInv, DestinationInv,
           task # None, NEW x \in AuthoringSession, x.session \in Fresh,
           x.saved = None \/ x.saved = x.version, Install(x)
    PROVE  DestinationInv'
<1> USE DEF DestinationInv, SavedInv
<1>1. ServiceTyped /\ close = None
  BY TaskFacts DEF LifecycleInv, ServiceInv
<1>2. /\ authoring' = x /\ destination' = None /\ applied' = None /\ task' = None
      /\ used' = used \cup {x.session}
      /\ UNCHANGED <<close, fault, channel, running, completions, files, createBindings,
                     nextRequestId>>
  BY DEF Install, OnlyAdmission, closeVars, queueVars, workerVars, diskVars
<1>3. QueueOrdered' /\ Outstanding' = Outstanding /\ Done' = Done /\ Saves' = Saves
  BY <1>2 DEF QueueOrdered, Outstanding, Done, Saves
<1>4. x # None
  BY NoSessionAssumption
<1>5. /\ \A s : IsOpen(s)' => s = x.session
      /\ \A s : Live(s)' => s \in Fresh
      /\ ~Publishing'
  BY <1>2 DEF IsOpen, IsCandidate, Live, Publishing
<1>6. Calm
  BY <1>2, <1>3, <1>5 DEF Calm
<1>7. OrderInv'
  BY <1>6, CalmOrder
<1>8. LineageInv'
  <2>1. DestinationShared'
    BY <1>2 DEF DestinationShared
  <2> QED
    BY <1>2, <1>6, <2>1, CalmLineages, CalmBindings DEF LineageInv
<1>9. OwnerInv'
  BY <1>2, <1>6, CalmOwners
<1>10. Received /\ KeepsFiles
  BY <1>2 DEF Received, KeepsFiles
<1>11. DoneSecured'
  BY <1>1, <1>3, <1>5, <1>10, DoneSecuredFrame
<1>12. \A r \in Saves \cup Done : r.session # x.session
  BY FreshHasNothing DEF Saves, DoneOrdered, Fresh
<1>13. DoneOrdered'
  <2>1. \A c \in Done : ~IsOpen(c.session)'
    BY <1>5, <1>12
  <2> QED
    BY <1>1, <1>2, <1>3, <1>10, <2>1, DoneOrderedFrame
<1>14. SavedBelow'
  <2>1. x.version \in Nat
    BY PersistenceAssumption DEF AuthoringSession, Versions
  <2>2. x.saved # None => x.saved <= x.version
    BY <2>1
  <2> QED
    BY <1>2, <1>3, <1>12, <2>2 DEF SavedBelow, SavesOf
<1>15. AppliedSecured' /\ HandoffHolds' /\ Required' = {}
  BY <1>1, <1>2 DEF AppliedSecured, HandoffHolds, Required
<1>16. RequiredCovered'
  BY <1>15 DEF RequiredCovered
<1> QED
  BY <1>3, <1>7, <1>8, <1>9, <1>11, <1>13, <1>14, <1>15, <1>16

\* What opening or recovering a Project installs as session s.
Installs(x, s) ==
    /\ task # None /\ x.session = s /\ x.autosaved = None
    /\ x.saved = None \/ x.saved = x.version
    /\ Install(x)

LEMMA OpenedInstalls ==
    ASSUME LifecycleInv, NEW s \in Fresh, InstallOpened(s)
    PROVE  \E x \in AuthoringSession : Installs(x, s)
<1>1. PICK content : content = files[task.file]
  OBVIOUS
<1>2. PICK x : x = [session |-> s, project |-> content.project,
                    root |-> task.file, file |-> task.file,
                    version |-> content.version, revision |-> content.revision,
                    saved |-> content.version, autosaved |-> None]
  OBVIOUS
<1>3. task # None /\ task.op = "Open" /\ content # None /\ content.project # None /\ Install(x)
  BY <1>1, <1>2 DEF InstallOpened
<1>4. task.file \in Files
  BY <1>3, TaskFacts DEF LifecycleInv, Shaped
<1>5. content \in Content
  BY <1>1, <1>3, <1>4 DEF LifecycleInv, ServiceInv, ServiceTyped, Option
<1>6. /\ content.project \in Projects /\ content.version \in Versions
      /\ content.revision \in Nat /\ s \in Sessions
  BY <1>3, <1>5 DEF Content, Option, Fresh
<1>7. x \in AuthoringSession /\ x.session = s /\ x.saved = x.version /\ x.autosaved = None
  BY <1>2, <1>4, <1>6 DEF AuthoringSession, Option
<1> QED
  BY <1>3, <1>7 DEF Installs

LEMMA RecoveredInstalls ==
    ASSUME LifecycleInv, NEW s \in Fresh, InstallRecovered(s)
    PROVE  \E x \in AuthoringSession : Installs(x, s)
<1>1. task # None /\ task.op = "Recover"
  BY DEF InstallRecovered
<1>2. task.file \in Files /\ s \in Sessions
  BY <1>1, TaskFacts DEF LifecycleInv, Shaped, Fresh
<1>3. PICK project \in Projects : \E p \in Recoverable(project, task.file) :
          Install([session |-> s, project |-> project, root |-> task.file,
                   file |-> recovery[project][task.file].file, version |-> p.version,
                   revision |-> p.revision, saved |-> None, autosaved |-> None])
  BY DEF InstallRecovered
<1>4. PICK manifest : manifest = recovery[project][task.file]
  OBVIOUS
<1>5. PICK p \in Recoverable(project, task.file) :
          Install([session |-> s, project |-> project, root |-> task.file,
                   file |-> manifest.file, version |-> p.version,
                   revision |-> p.revision, saved |-> None, autosaved |-> None])
  BY <1>3, <1>4
<1>6. PICK x : x = [session |-> s, project |-> project, root |-> task.file,
                    file |-> manifest.file, version |-> p.version,
                    revision |-> p.revision, saved |-> None, autosaved |-> None]
  OBVIOUS
<1>7. manifest # None /\ p \in manifest.points
  BY <1>4, <1>5 DEF Recoverable
<1>8. manifest \in Manifest
  BY <1>2, <1>3, <1>4, <1>7 DEF LifecycleInv, ServiceInv, ServiceTyped, Option
<1>9. manifest.file \in Files /\ p.version \in Versions /\ p.revision \in Nat
  BY <1>7, <1>8 DEF Manifest
<1>10. x \in AuthoringSession /\ x.session = s /\ x.saved = None /\ x.autosaved = None
  BY <1>2, <1>6, <1>9 DEF AuthoringSession, Option
<1> QED
  BY <1>1, <1>5, <1>6, <1>10 DEF Installs

LEMMA InstallCreatedDestination ==
    ASSUME LifecycleInv, LifecycleInv', RevisionInv, DestinationInv, InstallCreated
    PROVE  DestinationInv'
<1> USE DEF DestinationInv, SavedInv
<1>1. ServiceTyped /\ MainTyped /\ Publishing /\ close = None
  BY TaskFacts DEF LifecycleInv, ServiceInv, MainInv, InstallCreated, Publishing
<1>2. PICK c \in Completion : c = Head(completions)
  BY <1>1, TailFacts DEF InstallCreated, ServiceTyped
<1>3. PICK x \in AuthoringSession : x = task.candidate
  BY TaskFacts DEF LifecycleInv, InstallCreated, Shaped, Creating
<1>4. PICK y, d, f, n : /\ y = MarkSaved(x, c) /\ f = task.file /\ n = task.request
                        /\ d = [revision |-> 1, file |-> f, publication |-> "ReplaceExisting"]
  OBVIOUS
<1>5. /\ completions # <<>> /\ completions' = Tail(completions)
      /\ c.request.id = n /\ c.ok
      /\ authoring' = y /\ destination' = d
      /\ applied' = [destination |-> d, request |-> n]
      /\ task' = None
      /\ UNCHANGED <<close, fault, used, nextRequestId, channel, running, createBindings, files>>
  BY <1>2, <1>3, <1>4
     DEF InstallCreated, CreatedDurably, closeVars, queueVars, workerVars, diskVars
<1>6. 1 \in DOMAIN completions /\ completions[1] = c
  BY <1>1, <1>2, <1>5, TailFacts DEF ServiceTyped
<1>7. PICK r \in Done : r = c.request
  BY <1>6 DEF Done
<1>8. /\ r \in RequestRecord /\ r.version \in Nat /\ r.id = n /\ n \in Nat /\ n >= 1
      /\ r.file \in Files /\ n < nextRequestId
  <2>1. r \in RequestRecord /\ r.version \in Nat /\ r.id \in RequestIds /\ r.file \in Files
    BY <1>1, Requests
  <2> QED
    BY <1>5, <1>7, <2>1 DEF OrderInv, IdsIssued, RequestIds
<1>9. /\ x.saved = None
      /\ \A q \in Outstanding \cup Done : q.session = x.session <=> q.id = n
      /\ \A q \in Outstanding \cup Done :
             q.id = n => q.kind = "Manual" /\ q.version = x.version /\ q.file = f
  BY <1>1, <1>3, <1>4 DEF OrderInv, CandidateAlone
<1>10. \A q \in Outstanding : q.session # x.session
  BY <1>7, <1>8, <1>9 DEF OrderInv, IdsIssued
<1>11. r.kind = "Manual" /\ r.session = x.session /\ r.version = x.version /\ r.file = f
  BY <1>8, <1>9
<1>12. /\ y \in AuthoringSession /\ y.session = x.session /\ y.version = x.version
       /\ y.saved = x.version /\ y.file = f /\ y # None
  <2>1. y \in AuthoringSession /\ y.session = x.session /\ y.version = x.version
    BY <1>4, MarkTypes, MarkKeepsVersion
  <2>2. y.saved = Newest(x.saved, r.version) /\ y.file = r.file
    BY <1>4, <1>7 DEF MarkSaved, AuthoringSession
  <2>3. y.saved = x.version
    BY <1>9, <1>11, <2>2 DEF Newest
  <2> QED
    BY <1>11, <2>1, <2>2, <2>3, NoSessionAssumption
<1>13. d # None /\ d.revision = 1 /\ d.file = f /\ d.publication = "ReplaceExisting"
  <2>1. d \in [revision : Option(Nat), file : Files, publication : Publications]
    BY <1>4, <1>8, <1>11 DEF Option, Publications
  <2> QED
    BY <1>4, <2>1, NoDestinationAssumption
<1>14. QueueOrdered' /\ Outstanding' = Outstanding /\ Saves' = Saves
  BY <1>5 DEF QueueOrdered, Outstanding, Saves
<1>15. Received /\ KeepsFiles /\ Done' \subseteq Done
  <2>1. Received /\ KeepsFiles
    BY <1>5 DEF Received, KeepsFiles
  <2> QED
    BY <1>1, <2>1, ReceivedFacts
<1>16. /\ \A s : IsOpen(s)' => s = x.session
       /\ \A s : Live(s)' => Live(s) /\ LineageOf(s)' = LineageOf(s)
       /\ Live(x.session)
       /\ ~Publishing'
  <2>1. IsCandidate(x.session)
    BY <1>1, <1>3 DEF IsCandidate
  <2>2. \A s : IsOpen(s)' => s = x.session
    BY <1>5, <1>12 DEF IsOpen
  <2>3. ~Publishing' /\ \A s : ~IsCandidate(s)'
    BY <1>5 DEF Publishing, IsCandidate
  <2>4. \A s : LineageOf(s)' = 1
    BY <1>5, <1>13, <2>3 DEF LineageOf
  <2> QED
    BY <2>1, <2>2, <2>3, <2>4 DEF Live, LineageOf
<1>17. Calm
  BY <1>5, <1>8, <1>14, <1>15, <1>16 DEF Calm
<1>18. OrderInv'
  BY <1>17, CalmOrder
<1>19. LineageInv'
  <2>1. \A q \in Saves : ~IsOpen(q.session)'
    BY <1>10, <1>16 DEF Saves
  <2>2. nextRequestId \in Nat /\ n \in 1 .. nextRequestId - 1
    <3>1. nextRequestId \in Nat
      BY <1>1 DEF ServiceTyped
    <3> QED
      BY <3>1, <1>8
  <2>3. destination' = d /\ d.revision = 1 /\ applied' = [destination |-> d, request |-> n]
        /\ nextRequestId' = nextRequestId
    BY <1>5, <1>13
  <2>4. DestinationShared'
    BY <1>13, <1>14, <2>1, <2>2, <2>3 DEF DestinationShared
  <2> QED
    BY <1>5, <1>17, <2>4, CalmLineages, CalmBindings DEF LineageInv
<1>20. OwnerInv'
  BY <1>5, <1>13, <1>17, CalmOwners
<1>21. DoneSecured'
  BY <1>1, <1>14, <1>15, <1>16, DoneSecuredFrame
<1>22. x.version \in Nat /\ x.version # None
  BY <1>8, <1>11, NoneFacts
<1>23. DoneOrdered'
  <2>1. \A q \in Done : q.kind = "Manual" /\ IsOpen(q.session)' => q.version <= authoring'.version
    BY <1>5, <1>9, <1>12, <1>16, <1>22
  <2> QED
    BY <1>1, <1>5, <1>14, <1>15, <2>1, DoneOrderedFrame
<1>24. SavedBelow'
  <2>1. \A q \in Saves : q.session # x.session
    BY <1>10 DEF Saves
  <2>2. \A q \in Done' : q.kind = "Manual" /\ q.session = x.session => q.version = x.version
    BY <1>9, <1>15
  <2>3. authoring' = y /\ y.session = x.session /\ y.saved = x.version /\ x.version <= x.version
    BY <1>5, <1>12, <1>22
  <2>4. authoring'.saved = x.version /\ authoring'.version = x.version /\ authoring'.session = x.session
    BY <1>12, <2>3
  <2>5. \A q \in Saves' \cup Done' : SavesOf(q, x.session) => q.version = x.version
    BY <1>14, <2>1, <2>2 DEF SavesOf
  <2>6. \A q : SavesOf(q, authoring.session)' <=> SavesOf(q, x.session)
    BY <2>4 DEF SavesOf
  <2>7. \A q \in Saves' \cup Done' : SavesOf(q, authoring.session)' => authoring'.saved <= q.version
    BY <2>3, <2>4, <2>5, <2>6
  <2>8. authoring'.saved <= authoring'.version
    BY <2>3, <2>4
  <2> QED
    BY <2>7, <2>8 DEF SavedBelow
<1>25. AppliedSecured'
  <2>1. PICK s, v : s = x.session /\ v = x.version
    OBVIOUS
  <2>2. Secured(s, f, v)
    BY <1>5, <1>6, <1>7, <1>11, <1>16, <2>1 DEF DoneSecured
  <2>3. Secured(s, f, v)'
    BY <1>5, <1>14, <2>2 DEF Secured
  <2> QED
    BY <1>5, <1>12, <1>13, <1>22, <2>1, <2>3 DEF AppliedSecured, Secured
<1>26. HandoffHolds' /\ Required' = {}
  BY <1>1, <1>5 DEF HandoffHolds, Required
<1>27. RequiredCovered'
  BY <1>26 DEF RequiredCovered
<1> QED
  BY <1>14, <1>18, <1>19, <1>20, <1>21, <1>23, <1>24, <1>25, <1>26, <1>27

-----------------------------------------------------------------------------
\* Every step keeps the invariant.

LEMMA InitDestination == Init => DestinationInv
<1> SUFFICES ASSUME Init
             PROVE  DestinationInv
  OBVIOUS
<1> USE DEF Init, PersistenceInit
<1>1. DOMAIN channel = {} /\ DOMAIN completions = {} /\ running = None
  OBVIOUS
<1>2. Outstanding = {} /\ Saves = {} /\ Done = {} /\ ~Publishing /\ Required = {}
  BY <1>1 DEF Outstanding, Saves, Done, Publishing, Required
<1>3. QueueOrdered /\ HandoffHolds /\ OrderInv
  BY <1>1, <1>2 DEF QueueOrdered, HandoffHolds, OrderInv, IdsIssued, LiveLast, Contiguous,
                    CandidateAlone
<1>4. LineageInv /\ OwnerInv
  BY <1>2 DEF LineageInv, LineagesInOrder, BindingsKnown, DestinationShared, OwnerInv,
              SavesOwn, DestinationOwns
<1>5. SavedInv /\ RequiredCovered
  BY <1>1, <1>2 DEF SavedInv, DoneSecured, DoneOrdered, SavedBelow, AppliedSecured,
                    RequiredCovered
<1> QED
  BY <1>3, <1>4, <1>5 DEF DestinationInv

LEMMA WorkerDestination ==
    ASSUME LifecycleInv, LifecycleInv', RevisionInv, DestinationInv, Worker
    PROVE  DestinationInv'
<1>1. QueueOrdered /\ HandoffHolds
  BY DEF DestinationInv
<1>2. QuietStep \/ CompletesStep
  BY <1>1, WorkerCompletes
<1> QED
  BY <1>2, QuietDestination, CompletesDestination

LEMMA HandlerDestination ==
    ASSUME LifecycleInv, LifecycleInv', RevisionInv, DestinationInv, HandlerStep
    PROVE  DestinationInv'
<1>1. QueueOrdered /\ IdsIssued /\ HandoffHolds
  BY DEF DestinationInv, OrderInv
<1>2. CASE BeginClose \/ HandoffQuiesced \/ HandoffTimesOut \/ Discard \/ BeginDiscard
  BY <1>1, <1>2, BeginCloseQuiet, WaitQuiet, BeginDiscardQuiet, QuietDestination
<1>3. CASE HandoffFails \/ FinishClose \/ RejectClose \/ EndDiscard \/ CreateFails
  BY <1>1, <1>3, EndQuiet, CreateFailsQuiet, QuietDestination
<1>4. CASE Drain
  <2>1. ASSUME NEW reconciles \in BOOLEAN, ApplyCompletion(reconciles), UNCHANGED task
        PROVE  DestinationInv'
    BY <2>1, ApplyDestination
  <2>2. ASSUME task # None, task' = [task EXCEPT !.stage = "Finish"],
               UNCHANGED <<openVars, closeVars, used, persistenceVars>>
        PROVE  DestinationInv'
    BY <1>1, <2>2, DrainedQuiet, QuietDestination
  <2> QED
    BY <1>4, <2>1, <2>2 DEF Drain
<1>5. CASE CreateAppliesOther
  BY <1>5, ApplyDestination DEF CreateAppliesOther
<1>6. CASE \E s \in Fresh : InstallOpened(s) \/ InstallRecovered(s) \/ CreateSubmits(s)
  <2>1. PICK s \in Fresh : InstallOpened(s) \/ InstallRecovered(s) \/ CreateSubmits(s)
    BY <1>6
  <2>2. CASE InstallOpened(s) \/ InstallRecovered(s)
    BY <2>1, <2>2, OpenedInstalls, RecoveredInstalls, InstallDestination DEF Installs
  <2>3. CASE CreateSubmits(s)
    BY <2>3, CreateSubmitsMoves, CandidateSubmitsDestination
  <2> QED
    BY <2>1, <2>2, <2>3
<1>7. CASE InstallCreated
  BY <1>7, InstallCreatedDestination
<1> QED
  BY <1>2, <1>3, <1>4, <1>5, <1>6, <1>7 DEF HandlerStep

LEMMA UserDestination ==
    ASSUME LifecycleInv, LifecycleInv', RevisionInv, DestinationInv, UserStep
    PROVE  DestinationInv'
<1>1. QueueOrdered /\ IdsIssued /\ HandoffHolds
  BY DEF DestinationInv, OrderInv
<1>2. CASE Edit \/ RequestAutosave
  BY <1>2, EditDestination, RequestAutosaveDestination
<1>3. CASE BeginClose \/ ForceClose
  BY <1>1, <1>3, BeginCloseQuiet, EndQuiet, QuietDestination
<1>4. CASE \E target \in Option(Files) : RequestSave(target)
  <2>1. PICK target \in Option(Files) : SubmitSave(target) /\ task' = task
    BY <1>4 DEF RequestSave
  <2> QED
    BY <2>1, SubmitSaveDestination
<1>5. CASE SaveThenClose
  <2>1. /\ SubmitSave(None) /\ None \in Option(Files)
        /\ task' = [NewTask("SaveThenClose", "BeginClose") EXCEPT !.request = nextRequestId]
    BY <1>5 DEF SaveThenClose, Option
  <2> QED
    BY <2>1, SubmitSaveDestination
<1>6. CASE \/ \E op \in {"Open", "Recover", "Create"}, f \in Files : BeginHandoff(op, f)
           \/ BeginHandoff("CloseNow", None)
  <2>1. PICK op \in {"Open", "Recover", "Create", "CloseNow"}, f \in Option(Files) :
            BeginHandoff(op, f)
    BY <1>6 DEF Option
  <2> QED
    BY <1>1, <2>1, BeginHandoffQuiet, QuietDestination
<1> QED
  BY <1>2, <1>3, <1>4, <1>5, <1>6 DEF UserStep

LEMMA NextDestination ==
    ASSUME LifecycleInv, RevisionInv, DestinationInv, [Next]_vars
    PROVE  DestinationInv'
<1>1. LifecycleInv'
  BY NextKeeps
<1>2. QueueOrdered /\ HandoffHolds
  BY DEF DestinationInv
<1>3. CASE Worker
  BY <1>1, <1>3, WorkerDestination
<1>4. CASE Panic \/ PollCloseQuiesced \/ PollCloseFaults \/ UNCHANGED vars
  BY <1>1, <1>2, <1>4, PanicQuiet, PollCloseQuiet, StutterQuiet, QuietDestination
<1>5. CASE PollCompletion
  BY <1>1, <1>5, ApplyDestination DEF PollCompletion
<1>6. CASE HandlerStep
  BY <1>1, <1>6, HandlerDestination
<1>7. CASE UserStep
  BY <1>1, <1>7, UserDestination
<1>8. CASE \E f \in Files : ExternalCreates(f)
  BY <1>1, <1>8, ExternalDestination
<1> QED
  BY <1>3, <1>4, <1>5, <1>6, <1>7, <1>8 DEF Next

LEMMA DestinationInvariance == SafetySpec => [](RevisionInv /\ DestinationInv)
<1>1. Init => RevisionInv /\ DestinationInv
  BY InitRevision, InitDestination
<1>2. LifecycleInv /\ RevisionInv /\ DestinationInv /\ [Next]_vars
          => RevisionInv' /\ DestinationInv'
  BY NextRevises, NextDestination
<1> QED
  BY <1>1, <1>2, LifecycleInvariance, PTL DEF SafetySpec

-----------------------------------------------------------------------------
\* What the lifecycle promises about its files.

\* What is applied is Secured, so the path that the application shows as saved
\* holds the session's work, at least as new as its durable baseline
\* (apply_persistence_completion, project_lifecycle.rs:1087).
THEOREM AppliedIsOnDisk == SafetySpec => []AppliedSaveIsOnDisk
<1>1. DestinationInv => AppliedSaveIsOnDisk
  BY DEF DestinationInv, SavedInv, AppliedSecured, Secured, AppliedSaveIsOnDisk
<1> QED
  BY <1>1, DestinationInvariance, PTL

\* A save whose target was absent when the user chose it never replaces what
\* is not its own create lineage's, whatever appeared at the path since
\* (request_project_save_as, project_lifecycle.rs:914).
THEOREM CreateNewReplacesOnlyItsOwn == SafetySpec => CreateNewNeverOverwrites
<1> DEFINE Spares ==
        \A f \in Files :
            /\ files'[f] # files[f]
            /\ files[f] # None
            /\ running # None
            /\ running.publication = "CreateNew"
            => /\ files[f].session = running.session
               /\ files[f].lineage = running.lineage
<1>1. LifecycleInv /\ DestinationInv /\ [Next]_vars => [Spares]_vars
  <2> SUFFICES ASSUME LifecycleInv, DestinationInv, [Next]_vars, NEW f \in Files,
                      files'[f] # files[f], files[f] # None, running # None,
                      running.publication = "CreateNew"
               PROVE  /\ files[f].session = running.session
                      /\ files[f].lineage = running.lineage
    OBVIOUS
  <2>1. Worker
    <3>1. \A g \in Files : ~ExternalCreates(g)
      BY DEF ExternalCreates, LifecycleInv, ServiceInv, ServiceTyped
    <3> QED
      BY <3>1, FilesWriters
  <2>2. CompletesStep
    <3>1. QuietStep \/ CompletesStep
      BY <2>1, WorkerCompletes DEF DestinationInv
    <3> QED
      BY <3>1 DEF QuietStep
  <2>3. running.kind = "Manual" /\ WritesFile /\ BindingOf(running) = "Established"
    <3>1. running.kind = "Manual" /\ WritesFile
      BY <2>2 DEF CompletesStep
    <3>2. f = running.file
      BY <3>1 DEF WritesFile, LifecycleInv, ServiceInv, ServiceTyped
    <3> QED
      BY <2>2, <3>1, <3>2 DEF CompletesStep
  <2>4. running \in Saves
    BY <2>3, OutstandingFacts DEF Saves, LifecycleInv, ServiceInv
  <2>5. f = running.file
    BY <2>3 DEF WritesFile, LifecycleInv, ServiceInv, ServiceTyped
  <2> QED
    BY <2>3, <2>4, <2>5 DEF DestinationInv, OwnerInv, SavesOwn, Claimed
<1> QED
  BY <1>1, DestinationInvariance, LifecycleInvariance, PTL DEF SafetySpec, CreateNewNeverOverwrites

\* Only the end of a close takes the Project from it.
LEMMA ClosingStep ==
    ASSUME LifecycleInv, DestinationInv, [Next]_vars, task # None, task.op = "Close",
           authoring # None, authoring' = None
    PROVE  FinishClose
<1>1. \A reconciles : ~ApplyCompletion(reconciles)
  <2> SUFFICES ASSUME NEW reconciles, ApplyCompletion(reconciles)
               PROVE  FALSE
    OBVIOUS
  <2>1. authoring' = authoring \/ authoring' \in AuthoringSession
    BY ApplyMoves
  <2> QED
    BY <2>1, NoSessionAssumption
<1>2. CASE Worker \/ Panic \/ PollCompletion \/ PollCloseQuiesced \/ PollCloseFaults
           \/ (\E f \in Files : ExternalCreates(f)) \/ UNCHANGED vars
  BY <1>1, <1>2 DEF Worker, Panic, PollCompletion, PollCloseQuiesced, PollCloseFaults,
                    ExternalCreates, vars, mainVars, openVars
<1>3. CASE UserStep
  <2>1. CASE Edit \/ RequestAutosave \/ SaveThenClose \/ ForceClose \/ BeginClose
             \/ \E target \in Option(Files) : RequestSave(target)
    BY <1>3, <2>1 DEF Edit, RequestAutosave, SaveThenClose, ForceClose, BeginClose, RequestSave,
                      SubmitSave, Idle, openVars
  <2>2. CASE \/ \E op \in {"Open", "Recover", "Create"}, f \in Files : BeginHandoff(op, f)
             \/ BeginHandoff("CloseNow", None)
    BY <2>2 DEF BeginHandoff, openVars
  <2> QED
    BY <1>3, <2>1, <2>2 DEF UserStep
<1>4. CASE HandlerStep
  <2>1. CASE BeginClose \/ HandoffQuiesced \/ HandoffTimesOut \/ BeginDiscard \/ Discard
             \/ EndDiscard \/ HandoffFails \/ RejectClose \/ CreateFails
    BY <2>1 DEF BeginClose, HandoffQuiesced, HandoffTimesOut, BeginDiscard, Discard, EndDiscard,
                HandoffFails, RejectClose, CreateFails, openVars
  <2>2. CASE Drain \/ CreateAppliesOther
    BY <1>1, <2>2 DEF Drain, CreateAppliesOther, openVars
  <2>3. CASE InstallCreated
    BY <2>3 DEF InstallCreated, DestinationInv, OrderInv, CandidateAlone, Publishing
  <2>4. CASE \E s \in Fresh : InstallOpened(s) \/ InstallRecovered(s) \/ CreateSubmits(s)
    BY <2>4 DEF InstallOpened, InstallRecovered, CreateSubmits
  <2> QED
    BY <1>4, <2>1, <2>2, <2>3, <2>4 DEF HandlerStep
<1> QED
  BY <1>2, <1>3, <1>4 DEF Next

\* A close that was asked to save first ends only when that save is the durable
\* baseline: the canonical file then holds the newest author version
\* (poll_project_close, project_lifecycle.rs:544).
THEOREM CloseKeepsTheNewest == SafetySpec => CloseAfterSaveLosesNothing
<1> DEFINE Loses ==
        /\ task # None /\ task.op = "Close" /\ task.request # None
        /\ authoring # None /\ authoring' = None
        Kept ==
        LET content == files[authoring.file] IN
        /\ content # None
        /\ content.session = authoring.session
        /\ content.version = authoring.version
<1>1. LifecycleInv /\ RevisionInv /\ DestinationInv /\ [Next]_vars => [Loses => Kept]_vars
  <2> SUFFICES ASSUME LifecycleInv, RevisionInv, DestinationInv, [Next]_vars, Loses
               PROVE  Kept
    OBVIOUS
  <2>1. applied # None /\ applied.request = task.request
    BY ClosingStep DEF FinishClose, RequiredSaveIsApplied
  <2>2. task.request \in RequestIds
    BY TaskFacts DEF LifecycleInv, Task, Option
  <2>3. authoring.saved = authoring.version
    BY <2>1, <2>2 DEF DestinationInv, RequiredCovered, Required
  <2>4. Secured(authoring.session, authoring.file, authoring.version)
    BY <2>1, <2>3 DEF DestinationInv, SavedInv, AppliedSecured
  <2>5. authoring.file \in Files /\ authoring.version \in Nat
    BY MainNumbers DEF AuthoringSession
  <2>6. files[authoring.file].version <= authoring.version
    BY <2>4, <2>5 DEF Secured, RevisionInv, VersionInv, SessionsNewest, IsNewest, WrittenBy
  <2>7. files[authoring.file].version \in Nat
    BY <2>4, <2>5, Numbers DEF Secured, LifecycleInv, ServiceInv
  <2> QED
    BY <2>4, <2>5, <2>6, <2>7 DEF Secured
<1> QED
  BY <1>1, DestinationInvariance, LifecycleInvariance, PTL DEF SafetySpec, CloseAfterSaveLosesNothing

=============================================================================
