------------------------- MODULE ProjectRecoveryProofs -------------------------
(***************************************************************************)
(* Proof that autosaved work is preserved, for every set of sessions and   *)
(* paths, every queue capacity and every bound.                            *)
(*                                                                         *)
(* A version whose autosave is durable is kept: a file the session has     *)
(* written holds it or a newer one and will, or a point of its manifest    *)
(* does, at a revision that neither the session nor the worker's ledger    *)
(* has passed.  What keeps it so is that versions never fall along the     *)
(* FIFO, that a point is stamped with the ledger, and that the points are  *)
(* withdrawn only when the newest version is on disk.                      *)
(***************************************************************************)
EXTENDS ProjectDestinationProofs

-----------------------------------------------------------------------------
\* The invariant: what autosaves have made durable.

\* The worker knows that revision n of session s, or a later one, is durable.
Within(s, n) == lastSuccessful[s] # None /\ n <= lastSuccessful[s]

\* Durable revisions are reserved ones, older than those still to be saved.
LedgerCounted ==
    /\ \A s \in Sessions :
           lastSuccessful[s] # None => /\ LastReserved(s) # None
                                       /\ lastSuccessful[s] <= LastReserved(s)
    /\ \A r \in Saves :
           lastSuccessful[r.session] # None => lastSuccessful[r.session] < r.revision
    /\ \A i \in DOMAIN completions :
           LET c == completions[i] IN
           c.ok /\ c.request.kind = "Manual" => Within(c.request.session, c.revision)

CandidateNew == Publishing => task.candidate.autosaved = None

\* The requests of the open session a are for its Project and its recovery
\* root, and none will be written at a revision below the session's.
RequestsFollow(a) ==
    \A r \in Outstanding :
        r.session = a.session =>
            /\ r.project = a.project /\ r.root = a.root
            /\ a.revision <= r.revision \/ Within(a.session, a.revision)

\* The versions of its requests never fall.
VersionsFollow(a) ==
    /\ \A r \in Outstanding \cup Done : r.session = a.session => r.version <= a.version
    /\ \A q, r \in Outstanding :
           q.session = a.session /\ r.session = a.session /\ q.id < r.id =>
               q.version <= r.version
    /\ \A d \in Done, r \in Outstanding :
           d.session = a.session /\ r.session = a.session => d.version <= r.version
    /\ a.autosaved # None =>
           /\ a.autosaved <= a.version
           /\ \A r \in Outstanding : r.session = a.session => a.autosaved <= r.version

\* Once it has autosaved, no other session can write to its manifest.
OwnAutosaves(a) ==
    \/ a.autosaved # None
    \/ \E d \in Done : d.session = a.session /\ d.kind = "Autosave"
    => \A q \in Outstanding : q.kind = "Autosave" => q.session = a.session

\* The points its manifest authorises.
Points(a) ==
    IF recovery[a.project][a.root] = None THEN {}
    ELSE recovery[a.project][a.root].points

\* A point that no revision a or the worker knows of supersedes.
Offered(a, p) ==
    /\ a.revision <= p.revision
    /\ lastSuccessful[a.session] # None => lastSuccessful[a.session] <= p.revision

Kept(a, v) ==
    \/ \E f \in Files : Secured(a.session, f, v)
    \/ \E p \in Points(a) : v <= p.version /\ Offered(a, p)

\* The versions whose autosave is known to be durable, or will be when its
\* completion is received.
Autosaved(a) ==
    {v \in Versions :
        \/ a.autosaved = v
        \/ \E i \in DOMAIN completions :
               /\ completions[i].ok
               /\ completions[i].request.kind = "Autosave"
               /\ completions[i].request.session = a.session
               /\ completions[i].request.version = v}

WorkKept(a) == \A v \in Autosaved(a) : Kept(a, v)

\* The baseline of a is on disk, or older than every autosave: a session that
\* has autosaved its baseline has saved it.
BaselineKnown(a) ==
    a.saved # None =>
        \/ \E f \in Files : Secured(a.session, f, a.saved)
        \/ /\ \A r \in Outstanding \cup Done :
                  r.session = a.session /\ r.kind = "Autosave" => a.saved < r.version
           /\ a.autosaved # None => a.saved < a.autosaved

Tracked(a) ==
    /\ RequestsFollow(a)
    /\ VersionsFollow(a)
    /\ OwnAutosaves(a)
    /\ BaselineKnown(a)
    /\ WorkKept(a)

RecoveryInv ==
    /\ LedgerCounted
    /\ CandidateNew
    /\ \A a \in AuthoringSession : authoring = a => Tracked(a)

-----------------------------------------------------------------------------
\* What is recorded of autosaves: the numbers, and steps that leave it alone.

LEMMA RecordNumbers ==
    ASSUME ServiceTyped
    PROVE  /\ \A s \in Sessions : lastSuccessful[s] # None => lastSuccessful[s] \in Nat
           /\ \A p \in Projects, f \in Files : recovery[p][f] # None =>
                  /\ recovery[p][f] \in Manifest
                  /\ \A q \in recovery[p][f].points : q.version \in Nat /\ q.revision \in Nat
           /\ \A r \in Outstanding \cup Done :
                  r.revision \in Nat /\ r.project \in Projects /\ r.root \in Files
           /\ \A i \in DOMAIN completions : completions[i].revision \in Nat
<1>1. Versions \subseteq Nat
  BY PersistenceAssumption DEF Versions
<1>2. \A s \in Sessions : lastSuccessful[s] # None => lastSuccessful[s] \in Nat
  BY DEF ServiceTyped, Option
<1>3. \A p \in Projects, f \in Files : recovery[p][f] # None => recovery[p][f] \in Manifest
  BY DEF ServiceTyped, Option
<1>4. \A m \in Manifest : \A q \in m.points : q.version \in Nat /\ q.revision \in Nat
  BY <1>1 DEF Manifest
<1>5. \A r \in RequestRecord : r.revision \in Nat /\ r.project \in Projects /\ r.root \in Files
  BY DEF RequestRecord
<1>6. \A i \in DOMAIN completions : completions[i].revision \in Nat
  <2>1. \A c \in Completion : c.revision \in Nat
    BY DEF Completion
  <2> QED
    BY <2>1, Requests
<1>7. \A r \in Outstanding \cup Done :
          r.revision \in Nat /\ r.project \in Projects /\ r.root \in Files
  BY <1>5, Requests
<1> QED
  BY <1>2, <1>3, <1>4, <1>6, <1>7

LEMMA SessionNumbers ==
    ASSUME NEW a \in AuthoringSession
    PROVE  /\ a # None
           /\ a.session \in Sessions /\ a.project \in Projects
           /\ a.root \in Files /\ a.file \in Files
           /\ a.version \in Nat /\ a.version \in Versions /\ a.revision \in Nat
           /\ a.saved # None => a.saved \in Nat
           /\ a.autosaved # None => a.autosaved \in Nat
<1>1. Versions \subseteq Nat
  BY PersistenceAssumption DEF Versions
<1>2. a # None
  BY NoSessionAssumption
<1> QED
  BY <1>1, <1>2 DEF AuthoringSession, Option

LedgerStays ==
    /\ UNCHANGED lastSuccessful
    /\ \A s \in Sessions : LastReserved(s)' = LastReserved(s)

RecordsStay == LedgerStays /\ UNCHANGED recovery

\* The open session b is a, edited or not.
Continues(a, b) ==
    /\ b.session = a.session /\ b.project = a.project /\ b.root = a.root
    /\ b.revision = a.revision /\ b.saved = a.saved /\ b.autosaved = a.autosaved
    /\ a.version <= b.version

LEMMA KeptFrame ==
    ASSUME ServiceTyped, RevisionInv, KeepsFiles, UNCHANGED <<lastSuccessful, recovery>>,
           NEW a \in AuthoringSession, NEW b \in AuthoringSession,
           b.session = a.session, b.project = a.project, b.root = a.root,
           b.revision = a.revision,
           NEW v \in Nat, Kept(a, v),
           \A r \in Saves', f \in Files :
               files[f] # None => r \in Saves \/ r.session = a.session \/ r.file # f
    PROVE  Kept(b, v)'
<1>1. a.session \in Sessions
  BY SessionNumbers
<1>2. \A f \in Files : Secured(a.session, f, v) => Secured(a.session, f, v)'
  <2> SUFFICES ASSUME NEW f \in Files, Secured(a.session, f, v)
               PROVE  Secured(a.session, f, v)'
    OBVIOUS
  <2>1. \A r \in Saves' : r \in Saves \/ r.session = a.session \/ r.file # f
    BY DEF Secured
  <2> QED
    BY <1>1, <2>1, SecuredStays
<1>3. Points(b)' = Points(a)
  BY DEF Points
<1>4. \A p : Offered(b, p)' <=> Offered(a, p)
  BY DEF Offered
<1> QED
  BY <1>2, <1>3, <1>4 DEF Kept

LEMMA LedgerFrame ==
    ASSUME ServiceTyped, LedgerCounted, LedgerStays, Received, Saves' \subseteq Saves
    PROVE  LedgerCounted'
<1>1. \A i \in DOMAIN completions' : \E j \in DOMAIN completions : completions'[i] = completions[j]
  BY ReceivedFacts
<1>2. \A s \in Sessions :
          lastSuccessful'[s] # None =>
              LastReserved(s)' # None /\ lastSuccessful'[s] <= LastReserved(s)'
  BY DEF LedgerCounted, LedgerStays
<1>3. \A r \in Saves' :
          lastSuccessful'[r.session] # None => lastSuccessful'[r.session] < r.revision
  BY DEF LedgerCounted, LedgerStays
<1>4. \A i \in DOMAIN completions' :
          completions'[i].ok /\ completions'[i].request.kind = "Manual" =>
              /\ lastSuccessful'[completions'[i].request.session] # None
              /\ completions'[i].revision <= lastSuccessful'[completions'[i].request.session]
  BY <1>1 DEF LedgerCounted, LedgerStays, Within
<1> QED
  BY <1>2, <1>3, <1>4 DEF LedgerCounted, Within

LEMMA TrackedFrame ==
    ASSUME ServiceTyped, RevisionInv, KeepsFiles, UNCHANGED <<lastSuccessful, recovery>>,
           Received, Outstanding' \subseteq Outstanding,
           NEW a \in AuthoringSession, NEW b \in AuthoringSession,
           Tracked(a), Continues(a, b)
    PROVE  Tracked(b)'
<1>1. Done' \subseteq Done /\ Saves' \subseteq Saves
  BY ReceivedFacts DEF Saves
<1>2. \A i \in DOMAIN completions' : \E j \in DOMAIN completions : completions'[i] = completions[j]
  BY ReceivedFacts
<1>3. RequestsFollow(b)'
  BY DEF Tracked, RequestsFollow, Continues, Within
<1>4. VersionsFollow(b)'
  <2>1. /\ \A r \in Outstanding \cup Done : r.session = a.session => r.version <= a.version
        /\ \A r \in Outstanding \cup Done : r.version \in Nat
        /\ a.autosaved # None => a.autosaved <= a.version
        /\ a.version \in Nat /\ b.version \in Nat /\ a.version <= b.version
        /\ a.autosaved # None => a.autosaved \in Nat
    BY Requests, SessionNumbers DEF Tracked, VersionsFollow, Continues
  <2>2. \A r \in Outstanding' \cup Done' : r.session = b.session => r.version <= b.version
    BY <1>1, <2>1 DEF Continues
  <2>3. b.autosaved # None => b.autosaved <= b.version
    BY <2>1 DEF Continues
  <2>4. /\ \A q, r \in Outstanding' :
               q.session = b.session /\ r.session = b.session /\ q.id < r.id =>
                   q.version <= r.version
        /\ \A d \in Done', r \in Outstanding' :
               d.session = b.session /\ r.session = b.session => d.version <= r.version
        /\ b.autosaved # None =>
               \A r \in Outstanding' : r.session = b.session => b.autosaved <= r.version
    BY <1>1 DEF Tracked, VersionsFollow, Continues
  <2> QED
    BY <2>2, <2>3, <2>4 DEF VersionsFollow
<1>5. OwnAutosaves(b)'
  BY <1>1 DEF Tracked, OwnAutosaves, Continues
<1>6. BaselineKnown(b)'
  <2> SUFFICES ASSUME b.saved # None
               PROVE  \/ \E f \in Files : Secured(b.session, f, b.saved)'
                      \/ /\ \A r \in Outstanding' \cup Done' :
                                r.session = b.session /\ r.kind = "Autosave" =>
                                    b.saved < r.version
                         /\ b.autosaved # None => b.saved < b.autosaved
    BY DEF BaselineKnown, Secured
  <2>1. CASE \E f \in Files : Secured(a.session, f, a.saved)
    <3>1. PICK f \in Files : Secured(a.session, f, a.saved)
      BY <2>1
    <3>2. a.session \in Sessions /\ a.saved \in Nat
      BY SessionNumbers DEF Continues
    <3>3. Secured(a.session, f, a.saved)'
      BY <1>1, <3>1, <3>2, SecuredStays
    <3> QED
      BY <3>3 DEF Continues
  <2>2. CASE /\ \A r \in Outstanding \cup Done :
                    r.session = a.session /\ r.kind = "Autosave" => a.saved < r.version
             /\ a.autosaved # None => a.saved < a.autosaved
    BY <1>1, <2>2 DEF Continues
  <2> QED
    BY <2>1, <2>2 DEF Tracked, BaselineKnown, Continues
<1>7. WorkKept(b)'
  <2> SUFFICES ASSUME NEW v \in Autosaved(b)'
               PROVE  Kept(b, v)'
    BY DEF WorkKept
  <2>1. v \in Autosaved(a)
    BY <1>2 DEF Autosaved, Continues
  <2>2. Kept(a, v)
    BY <2>1 DEF Tracked, WorkKept
  <2>3. v \in Nat
    BY <2>1, PersistenceAssumption DEF Autosaved, Versions
  <2> QED
    BY <1>1, <2>2, <2>3, KeptFrame DEF Continues
<1> QED
  BY <1>3, <1>4, <1>5, <1>6, <1>7 DEF Tracked

\* A step that submits, completes and applies nothing.
LEMMA FrameRecovery ==
    ASSUME ServiceTyped, RevisionInv, RecoveryInv, KeepsFiles, Received, RecordsStay,
           Outstanding' \subseteq Outstanding,
           Publishing' => Publishing /\ task' = task,
           \A b \in AuthoringSession : authoring' = b =>
               \E a \in AuthoringSession : authoring = a /\ Continues(a, b)
    PROVE  RecoveryInv'
<1>1. LedgerCounted'
  BY LedgerFrame DEF RecoveryInv, RecordsStay, Saves
<1>2. CandidateNew'
  BY DEF RecoveryInv, CandidateNew
<1>3. ASSUME NEW b \in AuthoringSession, authoring' = b
      PROVE  Tracked(b)'
  <2>1. PICK a \in AuthoringSession : authoring = a /\ Continues(a, b)
    BY <1>3
  <2> QED
    BY <2>1, TrackedFrame DEF RecoveryInv, RecordsStay, LedgerStays
<1> QED
  BY <1>1, <1>2, <1>3 DEF RecoveryInv

-----------------------------------------------------------------------------
\* Quiet steps, other programs and edits: what is recorded stays.

LEMMA SameAdmission ==
    ASSUME UNCHANGED <<admission, lastSuccessful, recovery>>
    PROVE  RecordsStay
BY DEF RecordsStay, LedgerStays, LastReserved

LEMMA PauseRecords ==
    ASSUME LifecycleInv, NEW t, CompletePause(t) \/ PoisonPause(t)
    PROVE  RecordsStay
<1>1. UNCHANGED lastSuccessful
  BY DEF CompletePause, PoisonPause, workerVars
<1> QED
  BY <1>1, PauseReserved DEF RecordsStay, LedgerStays, LifecycleInv

LEMMA BeginPauseRecords ==
    ASSUME LifecycleInv, NEW s, BeginPause(s)
    PROVE  RecordsStay
<1>1. UNCHANGED <<lastSuccessful, recovery>>
  BY DEF BeginPause, workerVars, diskVars
<1>2. PICK phase : admission' = [admission EXCEPT ![s].phase = phase]
  BY DEF BeginPause
<1>3. \A t \in Sessions : LastReserved(t)' = LastReserved(t)
  BY <1>2 DEF LastReserved, LifecycleInv, ServiceInv, ServiceTyped
<1> QED
  BY <1>1, <1>3 DEF RecordsStay, LedgerStays

LEMMA WaitRecords ==
    ASSUME LifecycleInv,
           \/ HandoffQuiesced \/ HandoffTimesOut \/ Discard
           \/ PollCloseQuiesced \/ PollCloseFaults
    PROVE  RecordsStay
<1>1. PICK t : CompletePause(t) \/ PoisonPause(t)
  BY DEF HandoffQuiesced, HandoffTimesOut, Discard, PollCloseQuiesced, PollCloseFaults
<1> QED
  BY <1>1, PauseRecords

LEMMA EndRecords ==
    ASSUME LifecycleInv, FinishClose \/ ForceClose \/ RejectClose \/ HandoffFails
    PROVE  RecordsStay
<1>1. PICK t : OnlyAdmission(Retired(admission, t)) \/ OnlyAdmission(Resumed(admission, t))
  BY DEF FinishClose, ForceClose, RejectClose, HandoffFails
<1>2. UNCHANGED lastSuccessful
  BY <1>1 DEF OnlyAdmission, workerVars
<1> QED
  BY <1>1, <1>2, OnlyAdmissionReserved DEF RecordsStay, LedgerStays, LifecycleInv

LEMMA EndDiscardRecords ==
    ASSUME LifecycleInv, EndDiscard
    PROVE  RecordsStay
<1>1. UNCHANGED <<lastSuccessful, recovery>>
  BY DEF EndDiscard, OnlyAdmission, workerVars, diskVars
<1>2. admission \in AdmissionMap
  BY DEF LifecycleInv, ServiceInv, ServiceTyped, AdmissionMap
<1>3. PICK d : /\ d = admission \/ d = Retired(admission, task.candidate.session)
               /\ admission' = Resumed(d, task.token)
  BY DEF EndDiscard, OnlyAdmission
<1>4. task.candidate.session \in Option(Sessions)
  BY TaskFacts DEF EndDiscard, LifecycleInv, Shaped, Creating, AuthoringSession, Option
<1>5. d \in AdmissionMap /\ \A s \in Sessions : d[s].lastReserved = admission[s].lastReserved
  BY <1>2, <1>3, <1>4, RetiredFacts, AdmissionReserved
<1>6. \A s \in Sessions : admission'[s].lastReserved = d[s].lastReserved
  BY <1>3, <1>5, AdmissionReserved
<1> QED
  BY <1>1, <1>5, <1>6 DEF RecordsStay, LedgerStays, LastReserved

LEMMA BeginRecords ==
    ASSUME LifecycleInv, BeginClose \/ BeginDiscard
    PROVE  RecordsStay
<1>1. PICK s : BeginPause(s)
  BY DEF BeginClose, BeginDiscard
<1> QED
  BY <1>1, BeginPauseRecords

LEMMA BeginHandoffRecords ==
    ASSUME LifecycleInv, NEW op, NEW file, BeginHandoff(op, file)
    PROVE  RecordsStay
<1>1. CASE UNCHANGED persistenceVars
  <2>1. UNCHANGED <<admission, lastSuccessful, recovery>>
    BY <1>1 DEF persistenceVars, clientVars, workerVars, diskVars
  <2> QED
    BY <2>1, SameAdmission
<1>2. CASE BeginPause(authoring.session)
  BY <1>2, BeginPauseRecords
<1> QED
  BY <1>1, <1>2 DEF BeginHandoff

LEMMA QuietRecovery ==
    ASSUME LifecycleInv, RevisionInv, RecoveryInv, QuietStep, RecordsStay
    PROVE  RecoveryInv'
<1>1. Received /\ KeepsFiles
  BY DEF QuietStep, Received, KeepsFiles
<1>2. Publishing' => Publishing /\ task' = task
  BY DEF QuietStep, Publishing
<1>3. ASSUME NEW b \in AuthoringSession, authoring' = b
      PROVE  authoring = b /\ Continues(b, b)
  <2>1. b # None /\ b.version \in Nat
    BY SessionNumbers
  <2> QED
    BY <1>3, <2>1 DEF QuietStep, Continues
<1> QED
  BY <1>1, <1>2, <1>3, FrameRecovery DEF QuietStep, LifecycleInv, ServiceInv

LEMMA ExternalRecovery ==
    ASSUME LifecycleInv, RevisionInv, RecoveryInv, NEW g \in Files, ExternalCreates(g)
    PROVE  RecoveryInv'
<1>1. /\ UNCHANGED <<task, authoring, channel, running, completions,
                     admission, lastSuccessful, recovery>>
      /\ files[g] = None /\ \A f \in Files : f # g => files'[f] = files[f]
  BY DEF ExternalCreates, mainVars, openVars, clientVars, queueVars, workerVars,
         LifecycleInv, ServiceInv, ServiceTyped
<1>2. Received /\ KeepsFiles /\ Outstanding' = Outstanding
  BY <1>1 DEF Received, KeepsFiles, Outstanding
<1>3. RecordsStay
  BY <1>1, SameAdmission
<1>4. \A b \in AuthoringSession : authoring' = b => authoring = b /\ Continues(b, b)
  BY <1>1, SessionNumbers DEF Continues
<1> QED
  BY <1>1, <1>2, <1>3, <1>4, FrameRecovery DEF LifecycleInv, ServiceInv, Publishing

LEMMA EditRecovery ==
    ASSUME LifecycleInv, RevisionInv, RecoveryInv, Edit
    PROVE  RecoveryInv'
<1>1. /\ UNCHANGED <<task, channel, running, completions, files,
                     admission, lastSuccessful, recovery>>
      /\ authoring # None
      /\ authoring' = [authoring EXCEPT !.version = lastVersion + 1]
  BY DEF Edit, persistenceVars, clientVars, queueVars, workerVars, diskVars
<1>2. Received /\ KeepsFiles /\ Outstanding' = Outstanding
  BY <1>1 DEF Received, KeepsFiles, Outstanding
<1>3. RecordsStay
  BY <1>1, SameAdmission
<1>4. PICK a \in AuthoringSession : authoring = a
  BY <1>1, MainNumbers
<1>5. a.version \in Nat /\ a.version <= lastVersion /\ lastVersion \in Nat
  BY <1>1, <1>4, MainNumbers DEF RevisionInv, VersionInv, SessionsNewest, IsNewest
<1>6. ASSUME NEW b \in AuthoringSession, authoring' = b
      PROVE  Continues(a, b)
  <2>1. b = [a EXCEPT !.version = lastVersion + 1]
    BY <1>1, <1>4, <1>6
  <2>2. /\ b.session = a.session /\ b.project = a.project /\ b.root = a.root
        /\ b.revision = a.revision /\ b.saved = a.saved /\ b.autosaved = a.autosaved
        /\ b.version = lastVersion + 1
    BY <2>1 DEF AuthoringSession
  <2> QED
    BY <1>5, <2>2 DEF Continues
<1> QED
  BY <1>1, <1>2, <1>3, <1>4, <1>6, FrameRecovery DEF LifecycleInv, ServiceInv, Publishing

-----------------------------------------------------------------------------
\* The worker completes a request: what it records.

ManualCompletes ==
    /\ running.kind = "Manual"
    /\ UNCHANGED <<admission, recovery>>
    /\ \E c \in Completion :
           /\ c.request = running /\ c.revision = running.revision
           /\ completions' = Append(completions, c)
           /\ \/ c.ok /\ lastSuccessful' = [lastSuccessful EXCEPT
                                                ![running.session] = running.revision]
              \/ ~c.ok /\ UNCHANGED lastSuccessful

NewestPoint(r) == [version |-> r.version, revision |-> AutosaveRevision(r)]

AutosaveCompletes ==
    /\ running.kind = "Autosave"
    /\ UNCHANGED <<admission, lastSuccessful>>
    /\ \E c \in Completion :
           /\ c.request = running
           /\ completions' = Append(completions, c)
           /\ \/ ~c.ok /\ UNCHANGED recovery
              \/ \E m :
                     /\ recovery' = [recovery EXCEPT ![running.project][running.root] = m]
                     /\ m # None /\ NewestPoint(running) \in m.points

LEMMA WorkerRecords ==
    ASSUME LifecycleInv, Worker
    PROVE  \/ (TakeRequest \/ ServeBarrier) /\ RecordsStay
           \/ ManualCompletes \/ AutosaveCompletes
<1>1. ServiceTyped /\ WorkerStep
  BY DEF LifecycleInv, ServiceInv, Worker
<1>2. CASE TakeRequest \/ ServeBarrier
  <2>1. UNCHANGED <<admission, lastSuccessful, recovery>>
    BY <1>2 DEF TakeRequest, ServeBarrier, clientVars, workerVars, diskVars
  <2> QED
    BY <1>2, <2>1, SameAdmission
<1>3. running # None => running \in RequestRecord /\ running.revision \in Nat
  BY <1>1 DEF ServiceTyped, Option, RequestRecord
<1>4. ASSUME NEW ok \in BOOLEAN, NEW revision \in Nat, running # None, Complete(ok, revision)
      PROVE  /\ UNCHANGED admission
             /\ \E c \in Completion :
                    /\ c.request = running /\ c.revision = revision /\ c.ok = ok
                    /\ completions' = Append(completions, c)
  <2>1. PICK c : c = [request |-> running, ok |-> ok, revision |-> revision]
    OBVIOUS
  <2>2. c \in Completion /\ c.request = running /\ c.ok = ok /\ c.revision = revision
    BY <1>3, <1>4, <2>1 DEF Completion
  <2> QED
    BY <1>4, <2>1, <2>2 DEF Complete, clientVars
<1>5. ASSUME NEW outcome \in Outcomes, PublishManual(outcome)
      PROVE  ManualCompletes
  <2>1. /\ running # None /\ running.kind = "Manual" /\ UNCHANGED recovery
        /\ Complete(outcome = "Durable", running.revision)
        /\ lastSuccessful' = IF outcome = "Durable"
                             THEN [lastSuccessful EXCEPT ![running.session] = running.revision]
                             ELSE lastSuccessful
    BY <1>5 DEF PublishManual
  <2>2. PICK ok \in BOOLEAN : ok <=> outcome = "Durable"
    OBVIOUS
  <2>3. Complete(ok, running.revision)
    <3>1. ok = (outcome = "Durable")
      BY <2>2
    <3> QED
      BY <2>1, <3>1
  <2> QED
    BY <1>3, <1>4, <2>1, <2>2, <2>3 DEF ManualCompletes
<1>6. CASE RejectManual
  <2>1. /\ running # None /\ running.kind = "Manual"
        /\ Complete(FALSE, running.revision) /\ UNCHANGED <<lastSuccessful, recovery>>
    BY <1>6, NoneAssumption DEF RejectManual, BindingOf, diskVars, BindingStates
  <2> QED
    BY <1>3, <1>4, <2>1 DEF ManualCompletes
<1>7. ASSUME NEW outcome \in Outcomes, NEW kept \in SUBSET RetainablePoints,
             PublishAutosave(outcome, kept)
      PROVE  AutosaveCompletes
  <2>1. PICK old, m :
            /\ old = recovery[running.project][running.root]
            /\ m = [file |-> IF old = None THEN running.file ELSE old.file,
                    points |-> kept \cup {NewestPoint(running)}]
    OBVIOUS
  <2>2. /\ running # None /\ running.kind = "Autosave"
        /\ Complete(outcome = "Durable", AutosaveRevision(running))
        /\ UNCHANGED lastSuccessful
        /\ recovery' = IF outcome = "NotPublished" THEN recovery
                       ELSE [recovery EXCEPT ![running.project][running.root] = m]
    BY <1>7, <2>1 DEF PublishAutosave, NewestPoint
  <2>3. m # None /\ NewestPoint(running) \in m.points
    <3>1. running.project \in Projects /\ running.root \in Files
      BY <1>3, <2>2 DEF RequestRecord
    <3>2. old # None => old \in Manifest
      BY <1>1, <2>1, <3>1 DEF ServiceTyped, Option
    <3>3. running.file \in Files /\ running.version \in Versions
      BY <1>3, <2>2 DEF RequestRecord
    <3>4. NewestPoint(running) \in m.points
      BY <2>1
    <3>5. m \in Manifest
      <4>1. AutosaveRevision(running) \in Nat
        BY <1>1, <1>3, <2>2 DEF AutosaveRevision, ServiceTyped, Option, RequestRecord
      <4>2. NewestPoint(running) \in [version : Versions, revision : Nat]
        BY <3>3, <4>1 DEF NewestPoint
      <4>3. kept \subseteq [version : Versions, revision : Nat]
        BY <2>1, <3>2 DEF RetainablePoints, Manifest
      <4>4. m.file \in Files
        BY <2>1, <3>2, <3>3 DEF Manifest
      <4> QED
        BY <2>1, <4>2, <4>3, <4>4 DEF Manifest
    <3> QED
      BY <3>4, <3>5, NoManifestAssumption
  <2>4. AutosaveRevision(running) \in Nat
    BY <1>1, <1>3, <2>2 DEF AutosaveRevision, ServiceTyped, Option, RequestRecord
  <2>5. PICK ok \in BOOLEAN : ok = (outcome = "Durable")
    OBVIOUS
  <2> QED
    BY <1>4, <2>2, <2>3, <2>4, <2>5 DEF AutosaveCompletes
<1> QED
  BY <1>1, <1>2, <1>5, <1>6, <1>7 DEF WorkerStep

\* What an autosaved version says of the requests behind it.
LEMMA AutosavedFacts ==
    ASSUME ServiceTyped, NEW a \in AuthoringSession, Tracked(a), NEW v \in Autosaved(a)
    PROVE  /\ v \in Nat
           /\ \A r \in Outstanding : r.session = a.session => v <= r.version
           /\ \A r \in Outstanding : r.kind = "Autosave" => r.session = a.session
<1>1. v \in Nat
  BY PersistenceAssumption DEF Autosaved, Versions
<1>2. CASE a.autosaved = v
  <2>1. a.autosaved # None
    BY <1>1, <1>2, NoneFacts
  <2> QED
    BY <1>1, <1>2, <2>1 DEF Tracked, VersionsFollow, OwnAutosaves
<1>3. CASE a.autosaved # v
  <2>1. PICK i \in DOMAIN completions :
            /\ completions[i].request.kind = "Autosave"
            /\ completions[i].request.session = a.session
            /\ completions[i].request.version = v
    BY <1>3 DEF Autosaved
  <2>2. completions[i].request \in Done
    BY <2>1 DEF Done
  <2> QED
    BY <1>1, <2>1, <2>2 DEF Tracked, VersionsFollow, OwnAutosaves
<1> QED
  BY <1>2, <1>3

\* A completion does not change what the session's requests are.
LEMMA CompletesTracked ==
    ASSUME LifecycleInv, LifecycleInv', RevisionInv, DestinationInv, CompletesStep,
           NEW a \in AuthoringSession, authoring = a, Tracked(a),
           Within(a.session, a.revision) => Within(a.session, a.revision)'
    PROVE  RequestsFollow(a)' /\ VersionsFollow(a)' /\ OwnAutosaves(a)' /\ BaselineKnown(a)'
<1>1. ServiceTyped
  BY DEF LifecycleInv, ServiceInv
<1>2. /\ running \in Outstanding /\ running.session \in Sessions
      /\ \A r \in Outstanding' : r \in Outstanding /\ running.id < r.id
      /\ Done' = Done \cup {running}
      /\ KeepsFiles
  BY CompletesCalm, CompletesDone
<1>3. IsOpen(a.session)
  BY SessionNumbers DEF IsOpen
<1>4. RequestsFollow(a)'
  <2>1. \A r \in Outstanding' : r.session = a.session =>
            /\ r.project = a.project /\ r.root = a.root
            /\ a.revision <= r.revision \/ Within(a.session, a.revision)'
    BY <1>2 DEF Tracked, RequestsFollow
  <2> QED
    BY <2>1 DEF RequestsFollow, Within
<1>5. VersionsFollow(a)'
  <2>1. \A r \in Outstanding' \cup Done' : r.session = a.session => r.version <= a.version
    BY <1>2 DEF Tracked, VersionsFollow
  <2>2. \A q, r \in Outstanding' :
            q.session = a.session /\ r.session = a.session /\ q.id < r.id =>
                q.version <= r.version
    BY <1>2 DEF Tracked, VersionsFollow
  <2>3. \A d \in Done', r \in Outstanding' :
            d.session = a.session /\ r.session = a.session => d.version <= r.version
    BY <1>2 DEF Tracked, VersionsFollow
  <2>4. a.autosaved # None =>
            /\ a.autosaved <= a.version
            /\ \A r \in Outstanding' : r.session = a.session => a.autosaved <= r.version
    BY <1>2 DEF Tracked, VersionsFollow
  <2> QED
    BY <2>1, <2>2, <2>3, <2>4 DEF VersionsFollow
<1>6. OwnAutosaves(a)'
  <2>1. running.session = a.session => \A q \in Outstanding' : q.session = a.session
    BY <1>2, <1>3 DEF DestinationInv, OrderInv, LiveLast, Live
  <2> QED
    BY <1>2, <2>1 DEF Tracked, OwnAutosaves
<1>7. BaselineKnown(a)'
  <2>1. Saves' \subseteq Saves
    BY <1>2 DEF Saves
  <2>2. a.saved # None => \A f \in Files : Secured(a.session, f, a.saved) => Secured(a.session, f, a.saved)'
    BY <1>1, <1>2, <2>1, SecuredStays, SessionNumbers
  <2>3. Outstanding' \cup Done' \subseteq Outstanding \cup Done
    BY <1>2
  <2>4. a.saved # None =>
            \/ \E f \in Files : Secured(a.session, f, a.saved)'
            \/ /\ \A r \in Outstanding' \cup Done' :
                      r.session = a.session /\ r.kind = "Autosave" => a.saved < r.version
               /\ a.autosaved # None => a.saved < a.autosaved
    BY <2>2, <2>3 DEF Tracked, BaselineKnown
  <2> QED
    BY <2>4 DEF BaselineKnown, Secured
<1> QED
  BY <1>4, <1>5, <1>6, <1>7

\* The versions autosaved after a completion, and the records of the old ones.
LEMMA CompletedAutosave ==
    ASSUME ServiceTyped, NEW c \in Completion, c.request = running,
           completions' = Append(completions, c),
           NEW a, NEW v \in Autosaved(a)'
    PROVE  \/ v \in Autosaved(a)
           \/ /\ c.ok /\ running.kind = "Autosave"
              /\ running.session = a.session /\ v = running.version
<1>1. /\ DOMAIN completions' = DOMAIN completions \cup {Len(completions) + 1}
      /\ \A i \in DOMAIN completions : completions'[i] = completions[i]
      /\ completions'[Len(completions) + 1] = c
  BY AppendFacts DEF ServiceTyped
<1>2. CASE a.autosaved = v
  BY <1>2 DEF Autosaved
<1>3. CASE a.autosaved # v
  <2>1. PICK i \in DOMAIN completions' :
            /\ completions'[i].ok /\ completions'[i].request.kind = "Autosave"
            /\ completions'[i].request.session = a.session
            /\ completions'[i].request.version = v
    BY <1>3 DEF Autosaved
  <2> QED
    BY <1>1, <2>1 DEF Autosaved
<1> QED
  BY <1>2, <1>3

LEMMA ManualLedger ==
    ASSUME LifecycleInv, LifecycleInv', RevisionInv, DestinationInv, LedgerCounted,
           CompletesStep, ManualCompletes
    PROVE  LedgerCounted' /\ \A s \in Sessions, n \in Nat : Within(s, n) => Within(s, n)'
<1>1. ServiceTyped
  BY DEF LifecycleInv, ServiceInv
<1>2. /\ running \in Saves /\ running.session \in Sessions /\ running.revision \in Nat
      /\ \A r \in Outstanding' : r \in Outstanding /\ running.id < r.id
  BY <1>1, CompletesCalm, RecordNumbers DEF ManualCompletes, Saves
<1>3. \A r \in Saves' : r \in Saves
  BY <1>2 DEF Saves
<1>4. \A s \in Sessions : LastReserved(s)' = LastReserved(s)
  BY DEF ManualCompletes, LastReserved
<1>5. \A s \in Sessions : lastSuccessful[s] # None => lastSuccessful[s] \in Nat
  BY <1>1, RecordNumbers
<1>6. lastSuccessful[running.session] # None => lastSuccessful[running.session] < running.revision
  BY <1>2 DEF LedgerCounted
<1>7. \A s \in Sessions : s # running.session => lastSuccessful'[s] = lastSuccessful[s]
  BY <1>1 DEF ManualCompletes, ServiceTyped
<1>8. \/ lastSuccessful'[running.session] = lastSuccessful[running.session]
      \/ lastSuccessful'[running.session] = running.revision
  BY <1>1, <1>2 DEF ManualCompletes, ServiceTyped
<1>9. running.revision # None
  BY <1>2, NoneFacts
<1>10. \A s \in Sessions, n \in Nat : Within(s, n) => Within(s, n)'
  BY <1>2, <1>5, <1>6, <1>7, <1>8, <1>9 DEF Within
<1>11. \A s \in Sessions :
           lastSuccessful'[s] # None =>
               LastReserved(s)' # None /\ lastSuccessful'[s] <= LastReserved(s)'
  <2>1. LastReserved(running.session) # None /\ running.revision <= LastReserved(running.session)
    BY <1>2 DEF RevisionInv, ReservationInv, ReservationsCounted, Saves, SavesOf
  <2> QED
    BY <1>2, <1>4, <1>7, <1>8, <2>1 DEF LedgerCounted
<1>12. \A r \in Saves' :
           lastSuccessful'[r.session] # None => lastSuccessful'[r.session] < r.revision
  <2> SUFFICES ASSUME NEW r \in Saves', lastSuccessful'[r.session] # None
               PROVE  lastSuccessful'[r.session] < r.revision
    OBVIOUS
  <2>1. r \in Saves /\ r \in Outstanding' /\ r.session \in Sessions
    BY <1>1, <1>3, Requests DEF Saves
  <2>2. CASE r.session = running.session /\ lastSuccessful'[r.session] = running.revision
    <3>1. running # None /\ running' = None /\ UNCHANGED channel
      BY DEF CompletesStep
    <3>2. PICK i \in DOMAIN channel : channel[i] = r
      BY <2>1, <3>1 DEF Outstanding
    <3>3. Before(running, r)
      BY <1>2, <2>1, <2>2, <3>1, <3>2
         DEF Saves, SavesOf, RevisionInv, ReservationInv, RunningFirst
    <3> QED
      BY <2>2, <3>3 DEF Before
  <2>3. CASE lastSuccessful'[r.session] = lastSuccessful[r.session]
    BY <2>1, <2>3 DEF LedgerCounted
  <2> QED
    BY <1>7, <1>8, <2>1, <2>2, <2>3
<1>13. ASSUME NEW i \in DOMAIN completions', NEW d, d = completions'[i],
              d.ok, d.request.kind = "Manual"
       PROVE  Within(d.request.session, d.revision)'
  <2>1. PICK c \in Completion :
            /\ c.request = running /\ c.revision = running.revision
            /\ completions' = Append(completions, c)
            /\ \/ c.ok /\ lastSuccessful' = [lastSuccessful EXCEPT
                                                 ![running.session] = running.revision]
               \/ ~c.ok /\ UNCHANGED lastSuccessful
    BY DEF ManualCompletes
  <2>2. /\ DOMAIN completions' = DOMAIN completions \cup {Len(completions) + 1}
        /\ \A j \in DOMAIN completions : completions'[j] = completions[j]
        /\ completions'[Len(completions) + 1] = c
    BY <1>1, <2>1, AppendFacts DEF ServiceTyped
  <2>3. CASE i \in DOMAIN completions
    <3>1. d = completions[i] /\ d.request.session \in Sessions /\ d.revision \in Nat
      BY <1>1, <1>13, <2>2, <2>3, Requests, RecordNumbers
    <3>2. Within(d.request.session, d.revision)
      BY <1>13, <2>3, <3>1 DEF LedgerCounted
    <3> QED
      BY <1>10, <3>1, <3>2
  <2>4. CASE i = Len(completions) + 1
    <3>1. d = c
      BY <1>13, <2>2, <2>4
    <3>2. lastSuccessful' = [lastSuccessful EXCEPT ![running.session] = running.revision]
      BY <1>13, <2>1, <3>1
    <3>3. lastSuccessful'[running.session] = running.revision
      BY <1>1, <1>2, <3>2 DEF ServiceTyped
    <3> QED
      BY <1>2, <1>9, <2>1, <3>1, <3>3 DEF Within
  <2> QED
    BY <2>2, <2>3, <2>4
<1>14. \A i \in DOMAIN completions' :
           completions'[i].ok /\ completions'[i].request.kind = "Manual" =>
               /\ lastSuccessful'[completions'[i].request.session] # None
               /\ completions'[i].revision <= lastSuccessful'[completions'[i].request.session]
  BY <1>13 DEF Within
<1>15. LedgerCounted'
  BY <1>11, <1>12, <1>14 DEF LedgerCounted, Within
<1> QED
  BY <1>10, <1>15

LEMMA ManualRecovery ==
    ASSUME LifecycleInv, LifecycleInv', RevisionInv, DestinationInv, RecoveryInv,
           CompletesStep, ManualCompletes
    PROVE  RecoveryInv'
<1>1. ServiceTyped /\ UNCHANGED <<authoring, task, recovery>>
  BY DEF LifecycleInv, ServiceInv, CompletesStep, ManualCompletes, mainVars, openVars
<1>2. LedgerCounted' /\ \A s \in Sessions, n \in Nat : Within(s, n) => Within(s, n)'
  BY ManualLedger DEF RecoveryInv
<1>3. CandidateNew'
  BY <1>1 DEF RecoveryInv, CandidateNew, Publishing
<1>4. /\ running \in Saves /\ running.session \in Sessions /\ running.file \in Files
      /\ \A r \in Saves' : r \in Saves
      /\ DoneSecured' /\ KeepsFiles
      /\ \A s : Live(s)' <=> Live(s)
  BY CompletesCalm, CompletesDone DEF ManualCompletes, Saves
<1>5. PICK c \in Completion :
          /\ c.request = running
          /\ completions' = Append(completions, c)
          /\ \/ c.ok /\ lastSuccessful' = [lastSuccessful EXCEPT
                                               ![running.session] = running.revision]
             \/ ~c.ok /\ UNCHANGED lastSuccessful
  BY DEF ManualCompletes
<1>6. ASSUME NEW a \in AuthoringSession, authoring = a
      PROVE  Tracked(a)'
  <2>1. Tracked(a) /\ Live(a.session) /\ a.session \in Sessions /\ a.revision \in Nat
    BY <1>6, SessionNumbers DEF RecoveryInv, Live, IsOpen
  <2>2. RequestsFollow(a)' /\ VersionsFollow(a)' /\ OwnAutosaves(a)' /\ BaselineKnown(a)'
    BY <1>2, <1>6, <2>1, CompletesTracked
  <2>3. ASSUME NEW v \in Autosaved(a)'
        PROVE  Kept(a, v)'
    <3>1. v \in Autosaved(a)
      BY <1>1, <1>5, <2>3, CompletedAutosave DEF ManualCompletes
    <3>2. Kept(a, v) /\ v \in Nat /\ (running.session = a.session => v <= running.version)
      BY <1>1, <1>4, <2>1, <3>1, AutosavedFacts DEF Tracked, WorkKept, Saves
    <3>3. CASE c.ok /\ running.session = a.session
      <4>1. completions'[Len(completions) + 1] = c /\ Len(completions) + 1 \in DOMAIN completions'
        BY <1>1, <1>5, AppendFacts DEF ServiceTyped
      <4>2. PICK r \in Saves : r = running
        BY <1>4
      <4>3. /\ r.kind = "Manual" /\ r.session = a.session /\ v <= r.version
            /\ r.version \in Nat /\ r.file \in Files
        BY <1>1, <3>2, <3>3, <4>2, Requests DEF Saves
      <4>4. c.request = r /\ Live(a.session)'
        BY <1>4, <1>5, <2>1, <4>2
      <4>5. Secured(a.session, r.file, r.version)'
        BY <1>4, <3>3, <4>1, <4>3, <4>4 DEF DoneSecured
      <4>6. PICK f \in Files, n \in Nat : f = r.file /\ n = r.version
        BY <4>3
      <4>7. files'[f] # None => files'[f].version \in Nat
        BY PersistenceAssumption
           DEF LifecycleInv, ServiceInv, ServiceTyped, Option, Content, Versions
      <4>8. Secured(a.session, f, v)'
        BY <3>2, <4>3, <4>5, <4>6, <4>7 DEF Secured
      <4> QED
        BY <4>8 DEF Kept
    <3>4. CASE ~(c.ok /\ running.session = a.session)
      <4>1. lastSuccessful'[a.session] = lastSuccessful[a.session]
        BY <1>1, <1>5, <2>1, <3>4 DEF ServiceTyped
      <4>2. \A f \in Files : Secured(a.session, f, v) => Secured(a.session, f, v)'
        BY <1>1, <1>4, <2>1, <3>2, SecuredStays
      <4>3. Points(a)' = Points(a) /\ \A p : Offered(a, p)' <=> Offered(a, p)
        BY <1>1, <4>1 DEF Points, Offered
      <4> QED
        BY <3>2, <4>2, <4>3 DEF Kept
    <3> QED
      BY <3>3, <3>4
  <2> QED
    BY <2>2, <2>3 DEF Tracked, WorkKept
<1> QED
  BY <1>1, <1>2, <1>3, <1>6 DEF RecoveryInv

LEMMA AutosaveLedger ==
    ASSUME LifecycleInv, DestinationInv, LedgerCounted, AutosaveCompletes,
           Saves' \subseteq Saves
    PROVE  LedgerCounted'
<1>1. ServiceTyped
  BY DEF LifecycleInv, ServiceInv
<1>2. PICK c \in Completion : c.request = running /\ completions' = Append(completions, c)
  BY DEF AutosaveCompletes
<1>3. running.kind = "Autosave" /\ UNCHANGED lastSuccessful
      /\ \A s \in Sessions : LastReserved(s)' = LastReserved(s)
  BY DEF AutosaveCompletes, LastReserved
<1>4. \A i \in DOMAIN completions' :
          completions'[i] = c \/ \E j \in DOMAIN completions : completions'[i] = completions[j]
  <2>1. /\ DOMAIN completions' = DOMAIN completions \cup {Len(completions) + 1}
        /\ \A j \in DOMAIN completions : completions'[j] = completions[j]
        /\ completions'[Len(completions) + 1] = c
    BY <1>1, <1>2, AppendFacts DEF ServiceTyped
  <2> QED
    BY <2>1
<1>5. \A i \in DOMAIN completions' :
          completions'[i].ok /\ completions'[i].request.kind = "Manual" =>
              \E j \in DOMAIN completions : completions'[i] = completions[j]
  BY <1>2, <1>3, <1>4
<1>6. \A i \in DOMAIN completions' :
          completions'[i].ok /\ completions'[i].request.kind = "Manual" =>
              /\ lastSuccessful'[completions'[i].request.session] # None
              /\ completions'[i].revision <= lastSuccessful'[completions'[i].request.session]
  BY <1>3, <1>5 DEF LedgerCounted, Within
<1>7. /\ \A s \in Sessions :
             lastSuccessful'[s] # None =>
                 LastReserved(s)' # None /\ lastSuccessful'[s] <= LastReserved(s)'
      /\ \A r \in Saves' :
             lastSuccessful'[r.session] # None => lastSuccessful'[r.session] < r.revision
  BY <1>3 DEF LedgerCounted
<1> QED
  BY <1>6, <1>7 DEF LedgerCounted, Within

\* The point of a completed autosave of session a is offered to it.
LEMMA NewestIsOffered ==
    ASSUME ServiceTyped, NEW a \in AuthoringSession, RequestsFollow(a),
           NEW r \in Outstanding, r.session = a.session
    PROVE  Offered(a, NewestPoint(r))
<1>1. /\ a.session \in Sessions /\ a.revision \in Nat /\ r.revision \in Nat
      /\ lastSuccessful[a.session] # None => lastSuccessful[a.session] \in Nat
  BY SessionNumbers, RecordNumbers
<1>2. a.revision <= r.revision \/ Within(a.session, a.revision)
  BY DEF RequestsFollow
<1>3. NewestPoint(r).revision = AutosaveRevision(r)
  BY DEF NewestPoint
<1>4. /\ a.revision <= AutosaveRevision(r)
      /\ lastSuccessful[a.session] # None => lastSuccessful[a.session] <= AutosaveRevision(r)
  BY <1>1, <1>2 DEF AutosaveRevision, Within
<1> QED
  BY <1>3, <1>4 DEF Offered

LEMMA AutosaveRecovery ==
    ASSUME LifecycleInv, LifecycleInv', RevisionInv, DestinationInv, RecoveryInv,
           CompletesStep, AutosaveCompletes
    PROVE  RecoveryInv'
<1>1. ServiceTyped /\ UNCHANGED <<authoring, task, lastSuccessful>>
  BY DEF LifecycleInv, ServiceInv, CompletesStep, AutosaveCompletes, mainVars, openVars
<1>2. /\ running \in Outstanding
      /\ \A r \in Saves' : r \in Saves
      /\ KeepsFiles
  BY CompletesCalm, CompletesDone DEF Saves
<1>3. LedgerCounted' /\ CandidateNew'
  BY <1>1, <1>2, AutosaveLedger DEF RecoveryInv, CandidateNew, Publishing
<1>4. PICK r \in Outstanding : r = running /\ r.kind = "Autosave"
  BY <1>2 DEF AutosaveCompletes
<1>5. PICK c \in Completion :
          /\ c.request = r
          /\ completions' = Append(completions, c)
          /\ \/ ~c.ok /\ UNCHANGED recovery
             \/ \E m : /\ recovery' = [recovery EXCEPT ![r.project][r.root] = m]
                       /\ m # None /\ NewestPoint(r) \in m.points
  BY <1>4 DEF AutosaveCompletes
<1>6. ASSUME NEW a \in AuthoringSession, authoring = a
      PROVE  Tracked(a)'
  <2>1. Tracked(a) /\ a.session \in Sessions /\ a.revision \in Nat
        /\ a.project \in Projects /\ a.root \in Files
    BY <1>6, SessionNumbers DEF RecoveryInv
  <2>2. RequestsFollow(a)' /\ VersionsFollow(a)' /\ OwnAutosaves(a)' /\ BaselineKnown(a)'
    BY <1>1, <1>6, <2>1, CompletesTracked DEF Within
  <2>3. \A p : Offered(a, p)' <=> Offered(a, p)
    BY <1>1 DEF Offered
  <2>4. ASSUME NEW v \in Autosaved(a)'
        PROVE  Kept(a, v)'
    <3>1. \/ v \in Autosaved(a)
          \/ c.ok /\ r.session = a.session /\ v = r.version
      BY <1>1, <1>4, <1>5, <2>4, CompletedAutosave
    <3>2. v \in Autosaved(a) =>
              /\ Kept(a, v) /\ r.session = a.session /\ v <= r.version /\ v \in Nat
      BY <1>1, <1>4, <2>1, AutosavedFacts DEF Tracked, WorkKept
    <3>3. r.session = a.session /\ v <= r.version
      <4>1. r.version \in Nat
        BY <1>1, Requests
      <4> QED
        BY <3>1, <3>2, <4>1
    <3>4. CASE UNCHANGED recovery /\ v \in Autosaved(a)
      <4>1. \A f \in Files : Secured(a.session, f, v) => Secured(a.session, f, v)'
        BY <1>1, <1>2, <2>1, <3>2, <3>4, SecuredStays
      <4>2. Points(a)' = Points(a)
        BY <3>4 DEF Points
      <4> QED
        BY <2>3, <3>2, <3>4, <4>1, <4>2 DEF Kept
    <3>5. ASSUME NEW m, recovery' = [recovery EXCEPT ![r.project][r.root] = m],
                 m # None, NewestPoint(r) \in m.points
          PROVE  Kept(a, v)'
      <4>1. r.project = a.project /\ r.root = a.root
        BY <2>1, <3>3 DEF Tracked, RequestsFollow
      <4>2. recovery'[a.project][a.root] = m
        BY <1>1, <2>1, <3>5, <4>1 DEF ServiceTyped
      <4>3. NewestPoint(r) \in Points(a)'
        BY <3>5, <4>2 DEF Points
      <4>4. Offered(a, NewestPoint(r))
        BY <1>1, <2>1, <3>3, NewestIsOffered DEF Tracked
      <4>5. PICK p : p = NewestPoint(r)
        OBVIOUS
      <4>6. p \in Points(a)' /\ Offered(a, p)' /\ v <= p.version
        BY <2>3, <3>3, <4>3, <4>4, <4>5 DEF NewestPoint
      <4> QED
        BY <4>6 DEF Kept
    <3> QED
      BY <1>5, <3>1, <3>4, <3>5
  <2> QED
    BY <2>2, <2>4 DEF Tracked, WorkKept
<1> QED
  BY <1>1, <1>3, <1>6 DEF RecoveryInv

LEMMA WorkerRecovery ==
    ASSUME LifecycleInv, LifecycleInv', RevisionInv, DestinationInv, RecoveryInv, Worker
    PROVE  RecoveryInv'
<1>1. QueueOrdered /\ HandoffHolds /\ ServiceTyped
  BY DEF DestinationInv, LifecycleInv, ServiceInv
<1>2. CASE (TakeRequest \/ ServeBarrier) /\ RecordsStay
  BY <1>1, <1>2, WorkerMovesQuiet, QuietRecovery DEF Worker
<1>3. CASE ManualCompletes \/ AutosaveCompletes
  <2>1. CompletesStep
    <3>1. /\ completions' # completions
          /\ ~(completions # <<>> /\ completions' = Tail(completions))
      <4>1. PICK c \in Completion : completions' = Append(completions, c)
        BY <1>3 DEF ManualCompletes, AutosaveCompletes
      <4>2. completions \in Seq(Completion)
        BY <1>1 DEF ServiceTyped
      <4>3. Len(completions') = Len(completions) + 1 /\ Len(completions) \in Nat
        BY <4>1, <4>2
      <4>4. completions # <<>> => Len(Tail(completions)) = Len(completions) - 1
        BY <4>2
      <4> QED
        BY <4>3, <4>4
    <3> QED
      BY <1>1, <3>1, WorkerCompletes DEF QuietStep
  <2> QED
    BY <1>3, <2>1, ManualRecovery, AutosaveRecovery
<1> QED
  BY <1>2, <1>3, WorkerRecords

-----------------------------------------------------------------------------
\* The application applies a completion: what it marks and reconciles.

\* The baseline of session a is in a file of its own.
OnDisk(a) == a.saved # None /\ \E f \in Files : Secured(a.session, f, a.saved)

SaveMarked(c, a, y) ==
    /\ c.ok /\ c.request.kind = "Manual" /\ c.request.session = a.session
    /\ y.revision = IF a.revision > c.revision THEN a.revision ELSE c.revision
    /\ y.autosaved = a.autosaved
    /\ OnDisk(y)

AutosaveMarked(c, a, y) ==
    /\ c.ok /\ c.request.kind = "Autosave" /\ c.request.session = a.session
    /\ y.revision = a.revision /\ y.saved = a.saved
    /\ y.autosaved = Newest(a.autosaved, c.request.version)

Applies(c, a, y) ==
    /\ completions # <<>> /\ c = Head(completions) /\ completions' = Tail(completions)
    /\ UNCHANGED <<files, lastSuccessful, admission, channel, running>>
    /\ authoring' = y
    /\ y.session = a.session /\ y.project = a.project /\ y.root = a.root
    /\ y.version = a.version
    /\ y = a \/ SaveMarked(c, a, y) \/ AutosaveMarked(c, a, y)
    /\ \/ recovery' = recovery
       \/ /\ recovery' = Reconciled(y)
          /\ OnDisk(y) \/ (y.saved # None /\ AutosaveMarked(c, a, y))

LEMMA MarkFields ==
    ASSUME NEW a \in AuthoringSession, NEW c
    PROVE  /\ MarkSaved(a, c).project = a.project /\ MarkSaved(a, c).root = a.root
           /\ MarkSaved(a, c).autosaved = a.autosaved
           /\ MarkSaved(a, c).saved = Newest(a.saved, c.request.version)
           /\ MarkSaved(a, c).file = c.request.file
           /\ MarkSaved(a, c).revision =
                  IF a.revision > c.revision THEN a.revision ELSE c.revision
           /\ MarkAutosaved(a, c).project = a.project /\ MarkAutosaved(a, c).root = a.root
           /\ MarkAutosaved(a, c).saved = a.saved
           /\ MarkAutosaved(a, c).revision = a.revision
           /\ MarkAutosaved(a, c).autosaved = Newest(a.autosaved, c.request.version)
BY DEF MarkSaved, MarkAutosaved, AuthoringSession

\* A save that is applied, or covered by one, has put the baseline on disk.
LEMMA MarkedIsOnDisk ==
    ASSUME LifecycleInv, DestinationInv, completions # <<>>,
           NEW c \in Completion, c = Head(completions),
           c.ok, c.request.kind = "Manual",
           NEW a \in AuthoringSession, authoring = a, c.request.session = a.session
    PROVE  OnDisk(MarkSaved(a, c))
<1> USE DEF DestinationInv, SavedInv
<1>1. ServiceTyped
  BY DEF LifecycleInv, ServiceInv
<1>2. 1 \in DOMAIN completions /\ completions[1] = c
  BY <1>1, TailFacts DEF ServiceTyped
<1>3. /\ c.request \in Done /\ c.request.version \in Nat /\ c.request.file \in Files
      /\ c.request.version # None
  BY <1>1, <1>2, Requests, NoneFacts
<1>4. a # None /\ (a.saved # None => a.saved \in Nat)
  BY SessionNumbers
<1>5. a.saved # None => a.saved <= c.request.version
  BY <1>3, <1>4 DEF SavedBelow, SavesOf
<1>6. MarkSaved(a, c).saved = c.request.version /\ MarkSaved(a, c).session = a.session
  <2>1. Newest(a.saved, c.request.version) = c.request.version
    BY <1>3, <1>4, <1>5 DEF Newest
  <2>2. MarkSaved(a, c).saved = c.request.version
    BY <2>1, MarkFields
  <2>3. MarkSaved(a, c).session = a.session
    BY MarkTypes
  <2> QED
    BY <2>2, <2>3
<1>7. Secured(a.session, c.request.file, c.request.version)
  BY <1>2, <1>4 DEF DoneSecured, Live, IsOpen
<1> QED
  BY <1>3, <1>6, <1>7 DEF OnDisk

LEMMA ApplyRecords ==
    ASSUME LifecycleInv, DestinationInv, NEW reconciles, ApplyCompletion(reconciles),
           NEW a \in AuthoringSession, authoring = a
    PROVE  \E c \in Completion, y \in AuthoringSession : Applies(c, a, y)
<1> DEFINE c == Head(completions)
           mine == BelongsToOpenSession(c)
           covered == mine /\ ForCurrentDestination(c) /\ Covered(c)
           saves == mine /\ ForCurrentDestination(c) /\ ~covered /\ c.ok
           autosaves == mine /\ c.request.kind = "Autosave" /\ c.ok
           after == IF saves THEN MarkSaved(authoring, c)
                    ELSE IF autosaves THEN MarkAutosaved(authoring, c)
                    ELSE authoring
<1>1. /\ completions # <<>> /\ completions' = Tail(completions)
      /\ authoring' = after
      /\ \/ /\ \/ covered \/ saves
               \/ autosaves /\ after.saved # None /\ ~IsDirty(after)
            /\ recovery' = Reconciled(after)
         \/ recovery' = recovery
      /\ UNCHANGED <<files, lastSuccessful, admission, channel, running>>
  BY DEF ApplyCompletion, clientVars, queueVars, workerVars
<1>2. PICK d \in Completion : d = c
  BY <1>1, TailFacts DEF LifecycleInv, ServiceInv, ServiceTyped
<1>3. mine => a.session = d.request.session
  BY <1>2 DEF BelongsToOpenSession
<1>4. /\ saves => d.ok /\ mine /\ d.request.kind = "Manual"
      /\ covered => applied # None
      /\ autosaves => d.ok /\ mine /\ d.request.kind = "Autosave"
      /\ d = Head(completions)
  BY <1>2 DEF ForCurrentDestination, Covered
<1>5. PICK y : y = after
  OBVIOUS
<1>6. y = IF saves THEN MarkSaved(a, d) ELSE IF autosaves THEN MarkAutosaved(a, d) ELSE a
  BY <1>2, <1>5
<1>7. /\ authoring' = y
      /\ \/ /\ covered \/ saves \/ (autosaves /\ y.saved # None)
            /\ recovery' = Reconciled(y)
         \/ recovery' = recovery
  <2> HIDE DEF c, mine, covered, saves, autosaves, after
  <2>1. authoring' = y
    BY <1>1, <1>5
  <2>2. \/ /\ \/ covered \/ saves
              \/ autosaves /\ y.saved # None /\ ~IsDirty(y)
           /\ recovery' = Reconciled(y)
        \/ recovery' = recovery
    BY <1>1, <1>5
  <2> QED
    BY <2>1, <2>2
<1> HIDE DEF c, mine, covered, saves, autosaves, after
<1>8. /\ y \in AuthoringSession /\ y.session = a.session /\ y.project = a.project
      /\ y.root = a.root /\ y.version = a.version
  <2>1. CASE y = MarkSaved(a, d)
    <3>1. y \in AuthoringSession /\ y.session = a.session
      BY <2>1, MarkTypes
    <3>2. y.version = a.version
      BY <2>1, MarkKeepsVersion
    <3>3. y.project = a.project /\ y.root = a.root
      BY <2>1, MarkFields
    <3> QED
      BY <3>1, <3>2, <3>3
  <2>2. CASE y = MarkAutosaved(a, d)
    <3>1. y \in AuthoringSession /\ y.session = a.session
      BY <2>2, MarkTypes
    <3>2. y.version = a.version
      BY <2>2, MarkKeepsVersion
    <3>3. y.project = a.project /\ y.root = a.root
      BY <2>2, MarkFields
    <3> QED
      BY <3>1, <3>2, <3>3
  <2>3. CASE y = a
    BY <2>3
  <2> QED
    BY <1>6, <2>1, <2>2, <2>3
<1>9. saves => SaveMarked(d, a, y)
  BY <1>1, <1>3, <1>4, <1>6, MarkFields, MarkedIsOnDisk DEF SaveMarked
<1>10. autosaves /\ ~saves => AutosaveMarked(d, a, y)
  BY <1>3, <1>4, <1>6, MarkFields DEF AutosaveMarked
<1>11. y = a \/ SaveMarked(d, a, y) \/ AutosaveMarked(d, a, y)
  BY <1>6, <1>9, <1>10
<1>12. covered => OnDisk(a)
  <2>1. a.file \in Files
    BY SessionNumbers
  <2> QED
    BY <1>4, <2>1 DEF DestinationInv, SavedInv, AppliedSecured, OnDisk
<1>13. covered => ~saves
  BY DEF covered, saves
<1>14. covered => ~autosaves
  BY DEF covered, autosaves, ForCurrentDestination
<1>15. covered => OnDisk(y)
  BY <1>6, <1>12, <1>13, <1>14
<1>16. saves => OnDisk(y)
  BY <1>9 DEF SaveMarked
<1>17. autosaves => ~saves
  BY DEF saves, autosaves, ForCurrentDestination
<1> QED
  BY <1>1, <1>4, <1>7, <1>8, <1>10, <1>11, <1>15, <1>16, <1>17 DEF Applies

LEMMA AppliesFacts ==
    ASSUME ServiceTyped, NEW a \in AuthoringSession, NEW y \in AuthoringSession,
           NEW c \in Completion, Applies(c, a, y)
    PROVE  /\ 1 \in DOMAIN completions /\ completions[1] = c
           /\ c.request \in Done /\ c.request.version \in Nat /\ c.revision \in Nat
           /\ c.request.version \in Versions /\ c.request.version # None
           /\ Received /\ Done' \subseteq Done
           /\ Outstanding' = Outstanding /\ Saves' = Saves
           /\ \A s, v : \A f \in Files : Secured(s, f, v) <=> Secured(s, f, v)'
           /\ \A s, n : Within(s, n) <=> Within(s, n)'
<1>1. 1 \in DOMAIN completions /\ completions[1] = c
  BY TailFacts DEF Applies, ServiceTyped
<1>2. /\ c.request \in Done /\ c.request.version \in Nat /\ c.revision \in Nat
      /\ c.request.version # None
  BY <1>1, Requests, RecordNumbers, NoneFacts
<1>3. c.request.version \in Versions
  BY DEF Completion, RequestRecord
<1>4. Received
  BY DEF Received, Applies
<1>5. Done' \subseteq Done
  BY <1>4, ReceivedFacts
<1>6. Outstanding' = Outstanding /\ Saves' = Saves
  BY DEF Applies, Outstanding, Saves
<1>7. \A s, v : \A f \in Files : Secured(s, f, v) <=> Secured(s, f, v)'
  BY <1>6 DEF Applies, Secured
<1>8. \A s, n : Within(s, n) <=> Within(s, n)'
  BY DEF Applies, Within
<1> QED
  BY <1>1, <1>2, <1>3, <1>4, <1>5, <1>6, <1>7, <1>8

\* Where a completion leaves the session's requests and baseline.
LEMMA AppliesTracked ==
    ASSUME ServiceTyped, LedgerCounted, NEW a \in AuthoringSession, Tracked(a),
           NEW c \in Completion, NEW y \in AuthoringSession, Applies(c, a, y)
    PROVE  RequestsFollow(y)' /\ VersionsFollow(y)' /\ OwnAutosaves(y)' /\ BaselineKnown(y)'
<1>1. /\ 1 \in DOMAIN completions /\ completions[1] = c
      /\ c.request \in Done /\ c.request.version \in Nat /\ c.revision \in Nat
      /\ Done' \subseteq Done /\ Outstanding' = Outstanding
      /\ \A s, v : \A f \in Files : Secured(s, f, v) <=> Secured(s, f, v)'
      /\ \A s, n : Within(s, n) <=> Within(s, n)'
  BY AppliesFacts
<1>2. /\ y.session = a.session /\ y.project = a.project /\ y.root = a.root
      /\ y.version = a.version
      /\ y = a \/ SaveMarked(c, a, y) \/ AutosaveMarked(c, a, y)
  BY DEF Applies
<1>3. /\ a.autosaved # None => a.autosaved \in Nat
      /\ a.version \in Nat
  BY SessionNumbers
<1>4. RequestsFollow(y)'
  <2>1. y.revision = a.revision \/ Within(a.session, y.revision)
    BY <1>1, <1>2 DEF SaveMarked, AutosaveMarked, LedgerCounted
  <2>2. \A r \in Outstanding : r.session = a.session =>
            /\ r.project = a.project /\ r.root = a.root
            /\ y.revision <= r.revision \/ Within(a.session, y.revision)
    BY <2>1 DEF Tracked, RequestsFollow
  <2>3. \A r \in Outstanding' : r.session = y.session =>
            /\ r.project = y.project /\ r.root = y.root
            /\ y.revision <= r.revision \/ Within(y.session, y.revision)'
    BY <1>1, <1>2, <2>2
  <2> QED
    BY <2>3 DEF RequestsFollow, Within
<1>5. \/ y.autosaved = a.autosaved
      \/ /\ y.autosaved = c.request.version
         /\ c.request.session = a.session /\ c.request.kind = "Autosave"
  BY <1>2 DEF SaveMarked, AutosaveMarked, Newest
<1>6. VersionsFollow(y)'
  <2>1. /\ \A r \in Outstanding' \cup Done' : r.session = y.session => r.version <= y.version
        /\ \A q, r \in Outstanding' :
               q.session = y.session /\ r.session = y.session /\ q.id < r.id =>
                   q.version <= r.version
        /\ \A d \in Done', r \in Outstanding' :
               d.session = y.session /\ r.session = y.session => d.version <= r.version
    BY <1>1, <1>2 DEF Tracked, VersionsFollow
  <2>2. y.autosaved # None =>
            /\ y.autosaved <= y.version
            /\ \A r \in Outstanding' : r.session = y.session => y.autosaved <= r.version
    BY <1>1, <1>2, <1>5 DEF Tracked, VersionsFollow
  <2> QED
    BY <2>1, <2>2 DEF VersionsFollow
<1>7. OwnAutosaves(y)'
  <2>1. \/ y.autosaved # None
        \/ \E d \in Done' : d.session = y.session /\ d.kind = "Autosave"
        => \/ a.autosaved # None
           \/ \E d \in Done : d.session = a.session /\ d.kind = "Autosave"
    BY <1>1, <1>2, <1>5
  <2> QED
    BY <1>1, <1>2, <2>1 DEF Tracked, OwnAutosaves
<1>8. BaselineKnown(y)'
  <2>1. CASE SaveMarked(c, a, y)
    <3>1. \E f \in Files : Secured(y.session, f, y.saved)'
      BY <1>1, <2>1 DEF SaveMarked, OnDisk
    <3> QED
      BY <3>1 DEF BaselineKnown, Secured
  <2>2. CASE y = a \/ AutosaveMarked(c, a, y)
    <3>1. y.saved = a.saved
      BY <2>2 DEF AutosaveMarked
    <3>2. CASE \E f \in Files : Secured(a.session, f, a.saved)
      <4>1. \E f \in Files : Secured(y.session, f, y.saved)'
        BY <1>1, <1>2, <3>1, <3>2
      <4> QED
        BY <4>1 DEF BaselineKnown, Secured
    <3>3. CASE a.saved # None /\ ~\E f \in Files : Secured(a.session, f, a.saved)
      <4>1. /\ \A r \in Outstanding \cup Done :
                   r.session = a.session /\ r.kind = "Autosave" => a.saved < r.version
            /\ a.autosaved # None => a.saved < a.autosaved
        BY <3>3 DEF Tracked, BaselineKnown
      <4>2. /\ \A r \in Outstanding' \cup Done' :
                   r.session = y.session /\ r.kind = "Autosave" => y.saved < r.version
            /\ y.autosaved # None => y.saved < y.autosaved
        BY <1>1, <1>2, <1>5, <3>1, <4>1
      <4> QED
        BY <4>2 DEF BaselineKnown
    <3>4. CASE a.saved = None
      BY <3>1, <3>4 DEF BaselineKnown
    <3> QED
      BY <3>2, <3>3, <3>4
  <2> QED
    BY <1>2, <2>1, <2>2
<1> QED
  BY <1>4, <1>6, <1>7, <1>8

\* A reconciliation that withdraws the points finds the whole session on disk
\* (reconcile_recovery_after_manual_save, project_recovery.rs:943).
LEMMA CleanIsOnDisk ==
    ASSUME ServiceTyped, NEW a \in AuthoringSession, Tracked(a),
           NEW c \in Completion, NEW y \in AuthoringSession, Applies(c, a, y),
           ~IsDirty(y), OnDisk(y) \/ (y.saved # None /\ AutosaveMarked(c, a, y))
    PROVE  \E f \in Files : Secured(a.session, f, a.version)
<1>1. y.saved = y.version /\ y.version = a.version /\ y.session = a.session
  BY DEF IsDirty, Applies
<1>2. CASE OnDisk(y)
  BY <1>1, <1>2 DEF OnDisk
<1>3. CASE y.saved # None /\ AutosaveMarked(c, a, y)
  <2>1. /\ a.saved = a.version /\ a.saved # None /\ a.version \in Nat
        /\ c.request \in Done /\ c.request.version \in Nat
        /\ c.request.session = a.session /\ c.request.kind = "Autosave"
    BY <1>1, <1>3, AppliesFacts, SessionNumbers DEF AutosaveMarked
  <2>2. c.request.version <= a.version
    BY <2>1 DEF Tracked, VersionsFollow
  <2>3. ~(a.saved < c.request.version)
    BY <2>1, <2>2
  <2> QED
    BY <2>1, <2>3 DEF Tracked, BaselineKnown
<1> QED
  BY <1>2, <1>3

LEMMA ReconciledKeeps ==
    ASSUME ServiceTyped, NEW y \in AuthoringSession, recovery' = Reconciled(y), IsDirty(y)
    PROVE  Points(y)' = Points(y)
<1>1. y.project \in Projects /\ y.root \in Files /\ y.file \in Files
  BY SessionNumbers
<1>2. CASE recovery[y.project][y.root] = None
  BY <1>2 DEF Reconciled, Points
<1>3. CASE recovery[y.project][y.root] # None
  <2>1. PICK m \in Manifest : m = recovery[y.project][y.root]
    BY <1>1, <1>3, RecordNumbers
  <2>2. PICK n : n = [file |-> y.file, points |-> m.points]
    OBVIOUS
  <2>3. n \in Manifest
    BY <1>1, <2>2 DEF Manifest
  <2>4. n # None
    BY <2>3, NoManifestAssumption
  <2>5. recovery' = [recovery EXCEPT ![y.project][y.root] = n]
    BY <1>3, <2>1, <2>2 DEF Reconciled
  <2>6. recovery'[y.project][y.root] = n
    BY <1>1, <2>5 DEF ServiceTyped
  <2> QED
    BY <1>3, <2>1, <2>2, <2>4, <2>6 DEF Points
<1> QED
  BY <1>2, <1>3

LEMMA AppliesWork ==
    ASSUME ServiceTyped, LedgerCounted, NEW a \in AuthoringSession, Tracked(a),
           NEW c \in Completion, NEW y \in AuthoringSession, Applies(c, a, y),
           NEW v \in Autosaved(y)'
    PROVE  v \in Autosaved(a) /\ v \in Nat /\ v <= a.version
<1>1. /\ 1 \in DOMAIN completions /\ completions[1] = c
      /\ c.request \in Done /\ c.request.version \in Nat
      /\ Received
  BY AppliesFacts
<1>2. v \in Versions /\ v \in Nat /\ v # None
  BY PersistenceAssumption DEF Autosaved, Versions
<1>3. \A i \in DOMAIN completions' :
          \E j \in DOMAIN completions : completions'[i] = completions[j]
  BY <1>1, ReceivedFacts
<1>4. \/ y.autosaved = a.autosaved
      \/ /\ c.ok /\ y.autosaved = c.request.version
         /\ c.request.session = a.session /\ c.request.kind = "Autosave"
  BY DEF Applies, SaveMarked, AutosaveMarked, Newest
<1>5. y.session = a.session
  BY DEF Applies
<1>6. v \in Autosaved(a)
  <2>1. CASE y.autosaved = v
    BY <1>1, <1>2, <1>4, <2>1 DEF Autosaved
  <2>2. CASE y.autosaved # v
    <3>1. PICK i \in DOMAIN completions' :
              /\ completions'[i].ok /\ completions'[i].request.kind = "Autosave"
              /\ completions'[i].request.session = y.session
              /\ completions'[i].request.version = v
      BY <2>2 DEF Autosaved
    <3>2. PICK j \in DOMAIN completions : completions'[i] = completions[j]
      BY <1>3
    <3> QED
      BY <1>2, <1>5, <3>1, <3>2 DEF Autosaved
  <2> QED
    BY <2>1, <2>2
<1>7. v <= a.version
  <2>1. CASE a.autosaved = v
    BY <1>2, <2>1 DEF Tracked, VersionsFollow
  <2>2. CASE a.autosaved # v
    <3>1. PICK i \in DOMAIN completions :
              /\ completions[i].request.session = a.session
              /\ completions[i].request.version = v
      BY <1>6, <2>2 DEF Autosaved
    <3> QED
      BY <3>1, Requests DEF Tracked, VersionsFollow
  <2> QED
    BY <2>1, <2>2
<1> QED
  BY <1>2, <1>6, <1>7

LEMMA AppliesKept ==
    ASSUME ServiceTyped, LedgerCounted, NEW a \in AuthoringSession, Tracked(a),
           NEW c \in Completion, NEW y \in AuthoringSession, Applies(c, a, y)
    PROVE  WorkKept(y)'
<1> SUFFICES ASSUME NEW v \in Autosaved(y)'
             PROVE  Kept(y, v)'
  BY DEF WorkKept
<1>1. /\ 1 \in DOMAIN completions /\ completions[1] = c /\ c.revision \in Nat
      /\ \A s, u : \A f \in Files : Secured(s, f, u) <=> Secured(s, f, u)'
  BY AppliesFacts
<1>2. v \in Autosaved(a) /\ v \in Nat /\ v <= a.version
  BY AppliesWork
<1>3. Kept(a, v)
  BY <1>2 DEF Tracked, WorkKept
<1>4. /\ y.session = a.session /\ y.project = a.project /\ y.root = a.root
      /\ lastSuccessful' = lastSuccessful
      /\ a.session \in Sessions /\ a.project \in Projects /\ a.root \in Files
      /\ a.version \in Nat
  BY SessionNumbers DEF Applies
<1>5. ASSUME NEW f \in Files, NEW u \in Nat, v <= u, Secured(a.session, f, u)
      PROVE  Kept(y, v)'
  <2>1. files[f] # None => files[f].version \in Nat
    BY Numbers
  <2>2. Secured(a.session, f, v)
    BY <1>2, <1>5, <2>1 DEF Secured
  <2>3. Secured(y.session, f, v)'
    BY <1>1, <1>4, <2>2
  <2> QED
    BY <2>3 DEF Kept
<1>6. CASE \E f \in Files : Secured(a.session, f, v)
  BY <1>2, <1>5, <1>6
<1>7. CASE \E p \in Points(a) : v <= p.version /\ Offered(a, p)
  <2>1. PICK p \in Points(a) : v <= p.version /\ Offered(a, p)
    BY <1>7
  <2>2. CASE Points(y)' = Points(a)
    <3>1. p.revision \in Nat
      BY <1>4, <2>1, RecordNumbers DEF Points
    <3>2. y.revision = a.revision \/ (y.revision = c.revision /\ Within(a.session, c.revision))
      BY <1>1 DEF Applies, SaveMarked, AutosaveMarked, LedgerCounted
    <3>3. lastSuccessful[a.session] # None => lastSuccessful[a.session] \in Nat
      BY <1>4, RecordNumbers
    <3>4. y.revision <= p.revision
      BY <1>1, <2>1, <3>1, <3>2, <3>3 DEF Offered, Within
    <3>5. Offered(y, p)'
      BY <1>4, <2>1, <3>4 DEF Offered
    <3> QED
      BY <2>1, <2>2, <3>5 DEF Kept
  <2>3. CASE Points(y)' # Points(a)
    <3>1. Points(y) = Points(a)
      BY <1>4 DEF Points
    <3>2. recovery' # recovery
      BY <2>3, <3>1 DEF Points
    <3>3. recovery' = Reconciled(y) /\ (OnDisk(y) \/ (y.saved # None /\ AutosaveMarked(c, a, y)))
      BY <3>2 DEF Applies
    <3>4. ~IsDirty(y)
      BY <2>3, <3>1, <3>3, ReconciledKeeps
    <3>5. \E f \in Files : Secured(a.session, f, a.version)
      BY <3>3, <3>4, CleanIsOnDisk
    <3> QED
      BY <1>2, <1>4, <1>5, <3>5
  <2> QED
    BY <2>2, <2>3
<1> QED
  BY <1>3, <1>6, <1>7 DEF Kept

LEMMA ApplyRecovery ==
    ASSUME LifecycleInv, DestinationInv, RecoveryInv,
           NEW reconciles, ApplyCompletion(reconciles), UNCHANGED task
    PROVE  RecoveryInv'
<1>1. ServiceTyped /\ MainTyped
  BY DEF LifecycleInv, ServiceInv, MainInv
<1>2. CandidateNew'
  BY DEF RecoveryInv, CandidateNew, Publishing
<1>3. /\ completions # <<>> /\ completions' = Tail(completions)
      /\ UNCHANGED <<lastSuccessful, admission, channel, running>>
  BY DEF ApplyCompletion, clientVars, queueVars, workerVars
<1>4. LedgerStays /\ Received /\ Saves' \subseteq Saves
  BY <1>3 DEF LedgerStays, LastReserved, Received, Saves, Outstanding
<1>5. LedgerCounted'
  BY <1>1, <1>4, LedgerFrame DEF RecoveryInv
<1>6. CASE authoring = None
  <2>1. authoring' = None
    <3>1. UNCHANGED authoring \/ \E x \in AuthoringSession : authoring = x
      BY ApplyMoves
    <3> QED
      BY <1>6, <3>1, NoSessionAssumption
  <2> QED
    BY <1>2, <1>5, <2>1, NoSessionAssumption DEF RecoveryInv
<1>7. CASE authoring # None
  <2>1. PICK a \in AuthoringSession : authoring = a
    BY <1>1, <1>7 DEF MainTyped, Option
  <2>2. PICK c \in Completion, y \in AuthoringSession : Applies(c, a, y)
    BY <2>1, ApplyRecords
  <2>3. Tracked(a) /\ LedgerCounted
    BY <2>1 DEF RecoveryInv
  <2>4. Tracked(y)'
    BY <1>1, <2>2, <2>3, AppliesTracked, AppliesKept DEF Tracked
  <2>5. authoring' = y
    BY <2>2 DEF Applies
  <2> QED
    BY <1>2, <1>5, <2>4, <2>5 DEF RecoveryInv
<1> QED
  BY <1>6, <1>7

-----------------------------------------------------------------------------
\* A request is submitted.

\* A request of the open session a.
OwnRequest(r, a) ==
    /\ r.session = a.session /\ r.project = a.project /\ r.root = a.root
    /\ r.version = a.version /\ a.revision <= r.revision
    /\ r.kind = "Autosave" /\ a.saved # None => a.saved < a.version

\* The first save of another session creates its file.
ForeignSave(r, a) ==
    r.session # a.session /\ r.kind = "Manual" /\ files[r.file] = None

Submits(r) ==
    /\ Submit(r) /\ UNCHANGED authoring
    /\ Outstanding' = Outstanding \cup {r}
    /\ \A q \in Outstanding : q.id < r.id
    /\ r.kind = "Manual" /\ LastReserved(r.session) # None =>
           LastReserved(r.session) < r.revision
    /\ \A a \in AuthoringSession : authoring = a => OwnRequest(r, a) \/ ForeignSave(r, a)

LEMMA SubmitLedger ==
    ASSUME ServiceTyped, LedgerCounted, NEW r \in RequestRecord, Submits(r)
    PROVE  LedgerCounted'
<1>1. r.session \in Sessions /\ r.revision \in Nat /\ r.revision # None
  BY NoneFacts DEF RequestRecord
<1>2. /\ UNCHANGED <<completions, lastSuccessful>>
      /\ admission' = IF r.kind = "Manual"
                      THEN [admission EXCEPT ![r.session].lastReserved = r.revision]
                      ELSE admission
  BY DEF Submits, Submit, workerVars
<1>3. \A s \in Sessions : LastReserved(s)' = LastReserved(s)
                          \/ (r.kind = "Manual" /\ s = r.session /\ LastReserved(s)' = r.revision)
  BY <1>1, <1>2 DEF ServiceTyped, LastReserved
<1>4. /\ \A s \in Sessions : lastSuccessful[s] # None => lastSuccessful[s] \in Nat
      /\ \A s \in Sessions : LastReserved(s) # None => LastReserved(s) \in Nat
  BY RecordNumbers, Numbers
<1>5. r.kind = "Manual" /\ lastSuccessful[r.session] # None =>
          lastSuccessful[r.session] < r.revision
  BY <1>1, <1>4 DEF LedgerCounted, Submits
<1>6. \A s \in Sessions :
          lastSuccessful'[s] # None =>
              LastReserved(s)' # None /\ lastSuccessful'[s] <= LastReserved(s)'
  BY <1>1, <1>2, <1>3, <1>4, <1>5 DEF LedgerCounted
<1>7. \A q \in Saves' : lastSuccessful'[q.session] # None => lastSuccessful'[q.session] < q.revision
  <2>1. \A q \in Saves' : q \in Saves \/ (q = r /\ r.kind = "Manual")
    BY DEF Submits, Saves
  <2> QED
    BY <1>2, <1>5, <2>1 DEF LedgerCounted
<1>8. \A i \in DOMAIN completions' :
          completions'[i].ok /\ completions'[i].request.kind = "Manual" =>
              /\ lastSuccessful'[completions'[i].request.session] # None
              /\ completions'[i].revision <= lastSuccessful'[completions'[i].request.session]
  BY <1>2 DEF LedgerCounted, Within
<1> QED
  BY <1>6, <1>7, <1>8 DEF LedgerCounted, Within

LEMMA SubmitTracked ==
    ASSUME ServiceTyped, RevisionInv, NEW a \in AuthoringSession, authoring = a, Tracked(a),
           NEW r \in RequestRecord, Submits(r)
    PROVE  Tracked(a)'
<1>1. /\ Outstanding' = Outstanding \cup {r} /\ Done' = Done
      /\ UNCHANGED <<completions, lastSuccessful, files, recovery>>
      /\ \A q \in Outstanding : q.id < r.id
      /\ OwnRequest(r, a) \/ ForeignSave(r, a)
  BY DEF Submits, Submit, workerVars, diskVars, Done
<1>2. \A q \in Outstanding \cup Done \cup {r} : q.version \in Nat /\ q.id \in Nat
  <2>1. r.version \in Nat /\ r.id \in Nat
    BY PersistenceAssumption DEF RequestRecord, Versions, RequestIds
  <2> QED
    BY <2>1, Requests
<1>3. a.version \in Nat /\ a.session \in Sessions
  BY SessionNumbers
<1>4. RequestsFollow(a)'
  <2>1. \A q \in Outstanding' : q.session = a.session =>
            /\ q.project = a.project /\ q.root = a.root
            /\ a.revision <= q.revision \/ Within(a.session, a.revision)
    BY <1>1 DEF Tracked, RequestsFollow, OwnRequest, ForeignSave
  <2> QED
    BY <1>1, <2>1 DEF RequestsFollow, Within
<1>5. VersionsFollow(a)'
  <2>1. r.session = a.session => r.version = a.version
    BY <1>1 DEF OwnRequest, ForeignSave
  <2>2. \A q \in Outstanding \cup Done : q.session = a.session => q.version <= a.version
    BY DEF Tracked, VersionsFollow
  <2>3. \A q \in Outstanding' \cup Done' : q.session = a.session => q.version <= a.version
    BY <1>1, <1>3, <2>1, <2>2
  <2>4. \A p, q \in Outstanding' :
            p.session = a.session /\ q.session = a.session /\ p.id < q.id =>
                p.version <= q.version
    BY <1>1, <1>2, <1>3, <2>1, <2>2 DEF Tracked, VersionsFollow
  <2>5. \A d \in Done', q \in Outstanding' :
            d.session = a.session /\ q.session = a.session => d.version <= q.version
    BY <1>1, <2>1, <2>2 DEF Tracked, VersionsFollow
  <2>6. a.autosaved # None =>
            /\ a.autosaved <= a.version
            /\ \A q \in Outstanding' : q.session = a.session => a.autosaved <= q.version
    BY <1>1, <2>1 DEF Tracked, VersionsFollow
  <2> QED
    BY <2>3, <2>4, <2>5, <2>6 DEF VersionsFollow
<1>6. OwnAutosaves(a)'
  BY <1>1 DEF Tracked, OwnAutosaves, OwnRequest, ForeignSave
<1>7. \A q \in Saves', f \in Files :
          files[f] # None => q \in Saves \/ q.session = a.session \/ q.file # f
  BY <1>1 DEF Saves, OwnRequest, ForeignSave
<1>8. KeepsFiles
  BY <1>1 DEF KeepsFiles
<1>9. BaselineKnown(a)'
  <2>1. ASSUME NEW f \in Files, a.saved # None, Secured(a.session, f, a.saved)
        PROVE  Secured(a.session, f, a.saved)'
    <3>1. PICK v \in Nat : v = a.saved
      BY <2>1, SessionNumbers
    <3>2. \A q \in Saves' : q \in Saves \/ q.session = a.session \/ q.file # f
      BY <1>7, <2>1 DEF Secured
    <3>3. Secured(a.session, f, v)'
      BY <1>3, <1>8, <2>1, <3>1, <3>2, SecuredStays
    <3> QED
      BY <3>1, <3>3
  <2>2. a.saved # None =>
            \/ \E f \in Files : Secured(a.session, f, a.saved)'
            \/ /\ \A q \in Outstanding' \cup Done' :
                      q.session = a.session /\ q.kind = "Autosave" => a.saved < q.version
               /\ a.autosaved # None => a.saved < a.autosaved
    BY <1>1, <2>1 DEF Tracked, BaselineKnown, OwnRequest, ForeignSave
  <2> QED
    BY <2>2 DEF BaselineKnown, Secured
<1>10. WorkKept(a)'
  <2> SUFFICES ASSUME NEW v \in Autosaved(a)'
               PROVE  Kept(a, v)'
    BY DEF WorkKept
  <2>1. v \in Autosaved(a)
    BY <1>1 DEF Autosaved
  <2>2. v \in Nat /\ Kept(a, v)
    BY <2>1, AutosavedFacts DEF Tracked, WorkKept
  <2> QED
    BY <1>1, <1>7, <1>8, <2>2, KeptFrame
<1> QED
  BY <1>4, <1>5, <1>6, <1>9, <1>10 DEF Tracked

LEMMA SubmitRecovery ==
    ASSUME ServiceTyped, RevisionInv, RecoveryInv, CandidateNew',
           NEW r \in RequestRecord, Submits(r)
    PROVE  RecoveryInv'
<1>1. LedgerCounted'
  BY SubmitLedger DEF RecoveryInv
<1>2. ASSUME NEW a \in AuthoringSession, authoring' = a
      PROVE  Tracked(a)'
  BY <1>2, SubmitTracked DEF RecoveryInv, Submits
<1> QED
  BY <1>1, <1>2 DEF RecoveryInv

LEMMA SubmitQueues ==
    ASSUME ServiceTyped, QueueOrdered, IdsIssued, NEW r \in RequestRecord,
           Submit(r), r.id = nextRequestId
    PROVE  /\ Outstanding' = Outstanding \cup {r}
           /\ \A q \in Outstanding : q.id < r.id
<1>1. channel' = Append(channel, r) /\ UNCHANGED running
  BY DEF Submit, workerVars
<1>2. r.kind # "Barrier"
  BY DEF RequestRecord
<1>3. \A q \in Outstanding : q.id < nextRequestId
  BY DEF IdsIssued
<1> QED
  BY <1>1, <1>2, <1>3, QueueGrows

LEMMA ReservedBeyond ==
    ASSUME ServiceTyped, NEW s \in Sessions, NEW n \in Nat
    PROVE  /\ n <= ReservedRevision(s, n)
           /\ LastReserved(s) # None => LastReserved(s) < ReservedRevision(s, n)
BY Numbers DEF ReservedRevision, LastReserved

LEMMA SubmitSaveRecovery ==
    ASSUME LifecycleInv, RevisionInv, DestinationInv, RecoveryInv,
           NEW target \in Option(Files), SubmitSave(target),
           \/ task' = task
           \/ task' = [NewTask("SaveThenClose", "BeginClose") EXCEPT !.request = nextRequestId]
    PROVE  RecoveryInv'
<1>1. PICK d : d = Retargeted(target)
  OBVIOUS
<1>2. PICK a \in AuthoringSession : a = authoring
  BY DEF SubmitSave, LifecycleInv, MainInv, MainTyped, Option
<1>3. PICK r : r = ManualRequest(a.session, a.project, a.root, a.version, a.revision, d)
  OBVIOUS
<1>4. /\ authoring # None /\ task = None
      /\ CanSubmit(a.session) /\ Submit(r) /\ UNCHANGED authoring
  BY <1>1, <1>2, <1>3 DEF SubmitSave, Idle
<1>5. d \in ManualProjectFileDestination
  BY <1>1, <1>4, RetargetedRevision DEF LifecycleInv, MainInv
<1>6. /\ a.session \in Sessions /\ a.project \in Projects /\ a.root \in Files
      /\ a.version \in Versions /\ a.revision \in Nat
  BY SessionNumbers
<1>7. r \in RequestRecord
  BY <1>3, <1>4, <1>5, <1>6, ManualRequestType DEF CanSubmit, LifecycleInv, ServiceInv
<1>8. /\ r.id = nextRequestId /\ r.version = a.version /\ r.kind = "Manual"
      /\ r.session = a.session /\ r.project = a.project /\ r.root = a.root
      /\ r.revision = ReservedRevision(a.session, a.revision)
  BY <1>3 DEF ManualRequest
<1>9. Outstanding' = Outstanding \cup {r} /\ \A q \in Outstanding : q.id < r.id
  BY <1>4, <1>7, <1>8, SubmitQueues DEF LifecycleInv, ServiceInv, DestinationInv, OrderInv
<1>10. /\ a.revision <= r.revision
       /\ LastReserved(a.session) # None => LastReserved(a.session) < r.revision
  BY <1>6, <1>8, ReservedBeyond DEF LifecycleInv, ServiceInv
<1>11. OwnRequest(r, a)
  BY <1>8, <1>10 DEF OwnRequest
<1>12. Submits(r)
  BY <1>2, <1>4, <1>8, <1>9, <1>10, <1>11 DEF Submits
<1>13. CandidateNew'
  <2>1. task' = None \/ task'.stage = "BeginClose"
    BY <1>4 DEF NewTask
  <2> QED
    BY <2>1 DEF CandidateNew, Publishing
<1> QED
  BY <1>7, <1>12, <1>13, SubmitRecovery DEF LifecycleInv, ServiceInv

LEMMA RequestAutosaveRecovery ==
    ASSUME LifecycleInv, RevisionInv, DestinationInv, RecoveryInv, RequestAutosave
    PROVE  RecoveryInv'
<1>1. PICK a \in AuthoringSession : a = authoring
  BY DEF RequestAutosave, LifecycleInv, MainInv, MainTyped, Option
<1>2. PICK r : r = AutosaveRequest(a.session, a.project, a.root, a.version, a.revision, a.file)
  OBVIOUS
<1>3. /\ authoring # None /\ task' = None /\ IsDirty(a)
      /\ CanSubmit(a.session) /\ Submit(r) /\ UNCHANGED authoring
  BY <1>1, <1>2 DEF RequestAutosave, Idle
<1>4. /\ a.session \in Sessions /\ a.project \in Projects /\ a.root \in Files
      /\ a.version \in Versions /\ a.revision \in Nat /\ a.file \in Files
      /\ a.version \in Nat
      /\ a.saved # None => a.saved \in Nat
  BY SessionNumbers
<1>5. r \in RequestRecord
  BY <1>2, <1>3, <1>4, AutosaveRequestType DEF CanSubmit, LifecycleInv, ServiceInv
<1>6. /\ r.id = nextRequestId /\ r.version = a.version /\ r.kind = "Autosave"
      /\ r.session = a.session /\ r.project = a.project /\ r.root = a.root
      /\ r.revision = a.revision
  BY <1>2 DEF AutosaveRequest
<1>7. Outstanding' = Outstanding \cup {r} /\ \A q \in Outstanding : q.id < r.id
  BY <1>3, <1>5, <1>6, SubmitQueues DEF LifecycleInv, ServiceInv, DestinationInv, OrderInv
<1>8. a.saved # None => a.saved < a.version
  <2>1. a.saved # None => a.saved <= a.version
    BY <1>1, <1>3 DEF DestinationInv, SavedInv, SavedBelow
  <2> QED
    BY <1>3, <1>4, <2>1 DEF IsDirty
<1>9. OwnRequest(r, a)
  BY <1>4, <1>6, <1>8 DEF OwnRequest
<1>10. Submits(r)
  BY <1>1, <1>3, <1>6, <1>7, <1>9 DEF Submits
<1>11. CandidateNew'
  BY <1>3 DEF CandidateNew, Publishing
<1> QED
  BY <1>5, <1>10, <1>11, SubmitRecovery DEF LifecycleInv, ServiceInv

LEMMA CreateSubmitsRecovery ==
    ASSUME LifecycleInv, RevisionInv, DestinationInv, RecoveryInv,
           NEW s \in Fresh, CreateSubmits(s)
    PROVE  RecoveryInv'
<1>1. PICK t \in Task : t = task /\ task # None /\ t.op = "Create" /\ t.stage = "Finish"
  BY TaskFacts DEF LifecycleInv, CreateSubmits
<1>2. t.file \in Files
  BY <1>1, TaskFacts DEF LifecycleInv, Shaped
<1>3. PICK d : d = [revision |-> 1, file |-> t.file, publication |-> "CreateNew"]
  OBVIOUS
<1>4. PICK v : v = lastVersion + 1
  OBVIOUS
<1>5. PICK x : x = [session |-> s, project |-> s, root |-> t.file,
                    file |-> t.file, version |-> v, revision |-> 1,
                    saved |-> None, autosaved |-> None]
  OBVIOUS
<1>6. PICK r : r = ManualRequest(s, s, t.file, v, 1, d)
  OBVIOUS
<1>7. /\ files[t.file] = None /\ CanSubmit(s) /\ lastVersion < MaxVersion
      /\ Submit(r)
      /\ task' = [t EXCEPT !.stage = "Publish", !.request = nextRequestId, !.candidate = x]
      /\ UNCHANGED authoring
  BY <1>1, <1>3, <1>4, <1>5, <1>6 DEF CreateSubmits, openVars
<1>8. s \in Sessions /\ s \in Projects /\ s \notin used /\ v \in Versions
  BY <1>4, <1>7, PersistenceAssumption
     DEF Fresh, Projects, LifecycleInv, MainInv, MainTyped, Versions
<1>9. d \in ManualProjectFileDestination
  BY <1>2, <1>3 DEF ManualProjectFileDestination, Publications
<1>10. r \in RequestRecord
  BY <1>2, <1>6, <1>7, <1>8, <1>9, ManualRequestType DEF CanSubmit, LifecycleInv, ServiceInv
<1>11. /\ r.id = nextRequestId /\ r.session = s /\ r.kind = "Manual" /\ r.file = t.file
       /\ r.revision = ReservedRevision(s, 1)
  BY <1>3, <1>6 DEF ManualRequest
<1>12. Outstanding' = Outstanding \cup {r} /\ \A q \in Outstanding : q.id < r.id
  BY <1>7, <1>10, <1>11, SubmitQueues DEF LifecycleInv, ServiceInv, DestinationInv, OrderInv
<1>13. LastReserved(s) # None => LastReserved(s) < r.revision
  BY <1>8, <1>11, ReservedBeyond DEF LifecycleInv, ServiceInv
<1>14. ASSUME NEW a \in AuthoringSession, authoring = a
       PROVE  ForeignSave(r, a)
  <2>1. a.session \in used
    BY <1>14, SessionNumbers, MainNumbers DEF LifecycleInv
  <2> QED
    BY <1>7, <1>8, <1>11, <2>1 DEF ForeignSave
<1>15. Submits(r)
  BY <1>7, <1>11, <1>12, <1>13, <1>14 DEF Submits
<1>16. CandidateNew'
  <2>1. task'.candidate = x /\ x.autosaved = None
    BY <1>1, <1>5, <1>7 DEF Task
  <2> QED
    BY <2>1 DEF CandidateNew
<1> QED
  BY <1>10, <1>15, <1>16, SubmitRecovery DEF LifecycleInv, ServiceInv

-----------------------------------------------------------------------------
\* A session is installed.

\* A session that has not autosaved has nothing to preserve.
LEMMA NewTracked ==
    ASSUME NEW y \in AuthoringSession, y.autosaved = None,
           \A r \in Outstanding' : r.session # y.session,
           \A d \in Done' :
               d.session = y.session => d.kind = "Manual" /\ d.version <= y.version
    PROVE  Tracked(y)'
<1>1. RequestsFollow(y)'
  BY DEF RequestsFollow
<1>2. VersionsFollow(y)'
  BY DEF VersionsFollow
<1>3. OwnAutosaves(y)'
  BY DEF OwnAutosaves
<1>4. BaselineKnown(y)'
  BY DEF BaselineKnown
<1>5. WorkKept(y)'
  <2> SUFFICES ASSUME NEW v \in Autosaved(y)'
               PROVE  FALSE
    BY DEF WorkKept
  <2>1. v # None
    BY PersistenceAssumption, NoneFacts DEF Autosaved, Versions
  <2>2. PICK i \in DOMAIN completions' :
            /\ completions'[i].request.kind = "Autosave"
            /\ completions'[i].request.session = y.session
    BY <2>1 DEF Autosaved
  <2>3. completions'[i].request \in Done'
    BY <2>2 DEF Done
  <2> QED
    BY <2>2, <2>3
<1> QED
  BY <1>1, <1>2, <1>3, <1>4, <1>5 DEF Tracked

LEMMA InstallRecovery ==
    ASSUME LifecycleInv, RevisionInv, DestinationInv, RecoveryInv,
           NEW s \in Fresh, NEW x \in AuthoringSession, Installs(x, s)
    PROVE  RecoveryInv'
<1>1. /\ authoring' = x /\ task' = None /\ x.session = s /\ x.autosaved = None
      /\ OnlyAdmission(Retired(admission, task.token))
  BY DEF Installs, Install
<1>2. UNCHANGED <<completions, lastSuccessful, channel, running>>
  BY <1>1 DEF OnlyAdmission, queueVars, workerVars
<1>3. LedgerStays
  <2>1. PICK t : OnlyAdmission(Retired(admission, t))
    BY <1>1
  <2> QED
    BY <1>2, <2>1, OnlyAdmissionReserved DEF LedgerStays, LifecycleInv
<1>4. Outstanding' = Outstanding /\ Saves' = Saves /\ Done' = Done /\ Received
  BY <1>2 DEF Outstanding, Saves, Done, Received
<1>5. LedgerCounted'
  BY <1>3, <1>4, LedgerFrame DEF RecoveryInv, LifecycleInv, ServiceInv
<1>6. CandidateNew'
  BY <1>1 DEF CandidateNew, Publishing
<1>7. \A r \in Outstanding \cup Done : r.session # s
  BY FreshHasNothing DEF DestinationInv, SavedInv, DoneOrdered, Fresh
<1>8. Tracked(x)'
  BY <1>1, <1>4, <1>7, NewTracked
<1> QED
  BY <1>1, <1>5, <1>6, <1>8 DEF RecoveryInv

LEMMA InstallCreatedRecovery ==
    ASSUME LifecycleInv, DestinationInv, RecoveryInv, InstallCreated
    PROVE  RecoveryInv'
<1>1. ServiceTyped /\ Publishing
  BY DEF LifecycleInv, ServiceInv, InstallCreated, Publishing
<1>2. PICK c \in Completion : c = Head(completions)
  BY <1>1, TailFacts DEF InstallCreated, ServiceTyped
<1>3. PICK x \in AuthoringSession : x = task.candidate
  BY TaskFacts DEF LifecycleInv, InstallCreated, Shaped, Creating
<1>4. PICK y : y = MarkSaved(x, c)
  OBVIOUS
<1>5. /\ completions # <<>> /\ completions' = Tail(completions)
      /\ c.request.id = task.request
      /\ authoring' = y /\ task' = None
      /\ admission' = Retired(admission, task.token)
      /\ UNCHANGED <<lastSuccessful, channel, running>>
  BY <1>2, <1>3, <1>4 DEF InstallCreated, queueVars, workerVars
<1>6. c.request \in Done
  <2>1. 1 \in DOMAIN completions /\ completions[1] = c
    BY <1>1, <1>2, <1>5, TailFacts DEF ServiceTyped
  <2> QED
    BY <2>1 DEF Done
<1>7. /\ y \in AuthoringSession /\ y.session = x.session /\ y.version = x.version
      /\ y.autosaved = None
  <2>1. x.autosaved = None
    BY <1>1, <1>3 DEF RecoveryInv, CandidateNew
  <2>2. y \in AuthoringSession /\ y.session = x.session
    BY <1>4, MarkTypes
  <2>3. y.version = x.version
    BY <1>4, MarkKeepsVersion
  <2>4. y.autosaved = x.autosaved
    BY <1>4, MarkFields
  <2> QED
    BY <2>1, <2>2, <2>3, <2>4
<1>8. LedgerStays
  <2>1. admission \in AdmissionMap
    BY <1>1 DEF ServiceTyped, AdmissionMap
  <2>2. \A t \in Sessions : LastReserved(t)' = LastReserved(t)
    BY <1>5, <2>1, AdmissionReserved DEF LastReserved
  <2> QED
    BY <1>5, <2>2 DEF LedgerStays
<1>9. Outstanding' = Outstanding /\ Saves' = Saves /\ Received
  BY <1>5 DEF Outstanding, Saves, Received
<1>10. Done' \subseteq Done
  BY <1>1, <1>9, ReceivedFacts
<1>11. LedgerCounted'
  BY <1>1, <1>8, <1>9, LedgerFrame DEF RecoveryInv
<1>12. CandidateNew'
  BY <1>5 DEF CandidateNew, Publishing
<1>13. /\ \A q \in Outstanding \cup Done : q.session = x.session <=> q.id = task.request
       /\ \A q \in Outstanding \cup Done :
              q.id = task.request => q.kind = "Manual" /\ q.version = x.version
  BY <1>1, <1>3 DEF DestinationInv, OrderInv, CandidateAlone
<1>14. \A q \in Outstanding : q.session # x.session
  BY <1>5, <1>6, <1>13 DEF DestinationInv, OrderInv, IdsIssued
<1>15. Tracked(y)'
  <2>1. x.version \in Nat
    BY SessionNumbers
  <2>2. \A d \in Done' : d.session = y.session => d.kind = "Manual" /\ d.version <= y.version
    BY <1>7, <1>10, <1>13, <2>1
  <2> QED
    BY <1>7, <1>9, <1>14, <2>2, NewTracked
<1> QED
  BY <1>5, <1>11, <1>12, <1>15 DEF RecoveryInv

-----------------------------------------------------------------------------
\* Every step keeps the invariant.

LEMMA InitRecovery == Init => RecoveryInv
<1> SUFFICES ASSUME Init
             PROVE  RecoveryInv
  OBVIOUS
<1>1. DOMAIN channel = {} /\ DOMAIN completions = {} /\ running = None
  BY DEF Init, PersistenceInit
<1>2. Saves = {}
  BY <1>1 DEF Saves, Outstanding
<1>3. authoring = None /\ task = None /\ \A s \in Sessions : lastSuccessful[s] = None
  BY DEF Init, PersistenceInit
<1>4. LedgerCounted /\ CandidateNew
  BY <1>1, <1>2, <1>3 DEF LedgerCounted, CandidateNew, Publishing
<1> QED
  BY <1>3, <1>4, NoSessionAssumption DEF RecoveryInv

LEMMA CreateFailsRecords ==
    ASSUME LifecycleInv, CreateFails
    PROVE  RecordsStay
BY SameAdmission DEF CreateFails, clientVars, workerVars, diskVars

LEMMA HandlerRecovery ==
    ASSUME LifecycleInv, LifecycleInv', RevisionInv, DestinationInv, DestinationInv',
           RecoveryInv, HandlerStep
    PROVE  RecoveryInv'
<1>1. QueueOrdered /\ IdsIssued /\ HandoffHolds
  BY DEF DestinationInv, OrderInv
<1>2. CASE BeginClose \/ HandoffQuiesced \/ HandoffTimesOut \/ Discard \/ BeginDiscard
  <2>1. QuietStep
    BY <1>1, <1>2, BeginCloseQuiet, WaitQuiet, BeginDiscardQuiet
  <2>2. RecordsStay
    BY <1>2, BeginRecords, WaitRecords
  <2> QED
    BY <2>1, <2>2, QuietRecovery
<1>3. CASE HandoffFails \/ FinishClose \/ RejectClose \/ EndDiscard \/ CreateFails
  <2>1. QuietStep
    BY <1>1, <1>3, EndQuiet, CreateFailsQuiet
  <2>2. RecordsStay
    BY <1>3, EndRecords, EndDiscardRecords, CreateFailsRecords
  <2> QED
    BY <2>1, <2>2, QuietRecovery
<1>4. CASE Drain
  <2>1. ASSUME NEW reconciles \in BOOLEAN, ApplyCompletion(reconciles), UNCHANGED task
        PROVE  RecoveryInv'
    BY <2>1, ApplyRecovery
  <2>2. ASSUME task # None, task' = [task EXCEPT !.stage = "Finish"],
               UNCHANGED <<openVars, closeVars, used, persistenceVars>>
        PROVE  RecoveryInv'
    <3>1. QuietStep
      BY <1>1, <2>2, DrainedQuiet
    <3>2. UNCHANGED <<admission, lastSuccessful, recovery>>
      BY <2>2 DEF persistenceVars, clientVars, workerVars, diskVars
    <3> QED
      BY <3>1, <3>2, SameAdmission, QuietRecovery
  <2> QED
    BY <1>4, <2>1, <2>2 DEF Drain
<1>5. CASE CreateAppliesOther
  BY <1>5, ApplyRecovery DEF CreateAppliesOther
<1>6. CASE \E s \in Fresh : InstallOpened(s) \/ InstallRecovered(s) \/ CreateSubmits(s)
  <2>1. PICK s \in Fresh : InstallOpened(s) \/ InstallRecovered(s) \/ CreateSubmits(s)
    BY <1>6
  <2>2. CASE InstallOpened(s) \/ InstallRecovered(s)
    BY <2>1, <2>2, OpenedInstalls, RecoveredInstalls, InstallRecovery
  <2>3. CASE CreateSubmits(s)
    BY <2>1, <2>3, CreateSubmitsRecovery
  <2> QED
    BY <2>1, <2>2, <2>3
<1>7. CASE InstallCreated
  BY <1>7, InstallCreatedRecovery
<1> QED
  BY <1>2, <1>3, <1>4, <1>5, <1>6, <1>7 DEF HandlerStep

LEMMA UserRecovery ==
    ASSUME LifecycleInv, LifecycleInv', RevisionInv, DestinationInv, RecoveryInv, UserStep
    PROVE  RecoveryInv'
<1>1. QueueOrdered /\ IdsIssued /\ HandoffHolds
  BY DEF DestinationInv, OrderInv
<1>2. CASE Edit \/ RequestAutosave
  BY <1>2, EditRecovery, RequestAutosaveRecovery
<1>3. CASE BeginClose \/ ForceClose
  <2>1. QuietStep
    BY <1>1, <1>3, BeginCloseQuiet, EndQuiet
  <2>2. RecordsStay
    BY <1>3, BeginRecords, EndRecords
  <2> QED
    BY <2>1, <2>2, QuietRecovery
<1>4. CASE \E target \in Option(Files) : RequestSave(target)
  <2>1. PICK target \in Option(Files) : SubmitSave(target) /\ task' = task
    BY <1>4 DEF RequestSave
  <2> QED
    BY <2>1, SubmitSaveRecovery
<1>5. CASE SaveThenClose
  <2>1. /\ SubmitSave(None) /\ None \in Option(Files)
        /\ task' = [NewTask("SaveThenClose", "BeginClose") EXCEPT !.request = nextRequestId]
    BY <1>5 DEF SaveThenClose, Option
  <2> QED
    BY <2>1, SubmitSaveRecovery
<1>6. CASE \/ \E op \in {"Open", "Recover", "Create"}, f \in Files : BeginHandoff(op, f)
           \/ BeginHandoff("CloseNow", None)
  <2>1. PICK op \in {"Open", "Recover", "Create", "CloseNow"}, f \in Option(Files) :
            BeginHandoff(op, f)
    BY <1>6 DEF Option
  <2>2. QuietStep /\ RecordsStay
    BY <1>1, <2>1, BeginHandoffQuiet, BeginHandoffRecords
  <2> QED
    BY <2>2, QuietRecovery
<1> QED
  BY <1>2, <1>3, <1>4, <1>5, <1>6 DEF UserStep

LEMMA NextRecovery ==
    ASSUME LifecycleInv, LifecycleInv', RevisionInv, DestinationInv, DestinationInv',
           RecoveryInv, [Next]_vars
    PROVE  RecoveryInv'
<1>1. QueueOrdered /\ HandoffHolds
  BY DEF DestinationInv
<1>2. CASE Worker
  BY <1>2, WorkerRecovery
<1>3. CASE Panic
  <2>1. QuietStep
    BY <1>1, <1>3, PanicQuiet
  <2>2. UNCHANGED <<admission, lastSuccessful, recovery>>
    BY <1>3 DEF Panic, WorkerPanics, clientVars, diskVars
  <2> QED
    BY <2>1, <2>2, SameAdmission, QuietRecovery
<1>4. CASE PollCloseQuiesced \/ PollCloseFaults
  <2>1. QuietStep /\ RecordsStay
    BY <1>1, <1>4, PollCloseQuiet, WaitRecords
  <2> QED
    BY <2>1, QuietRecovery
<1>5. CASE UNCHANGED vars
  <2>1. QuietStep
    BY <1>1, <1>5, StutterQuiet
  <2>2. UNCHANGED <<admission, lastSuccessful, recovery>>
    BY <1>5 DEF vars, persistenceVars, clientVars, workerVars, diskVars
  <2> QED
    BY <2>1, <2>2, SameAdmission, QuietRecovery
<1>6. CASE PollCompletion
  BY <1>6, ApplyRecovery DEF PollCompletion
<1>7. CASE HandlerStep
  BY <1>7, HandlerRecovery
<1>8. CASE UserStep
  BY <1>8, UserRecovery
<1>9. CASE \E f \in Files : ExternalCreates(f)
  BY <1>9, ExternalRecovery
<1> QED
  BY <1>2, <1>3, <1>4, <1>5, <1>6, <1>7, <1>8, <1>9 DEF Next

LEMMA RecoveryInvariance == SafetySpec => []RecoveryInv
<1>1. Init => RecoveryInv
  BY InitRecovery
<1>2. /\ LifecycleInv /\ LifecycleInv' /\ RevisionInv
      /\ DestinationInv /\ DestinationInv' /\ RecoveryInv /\ [Next]_vars
      => RecoveryInv'
  BY NextRecovery
<1> QED
  BY <1>1, <1>2, LifecycleInvariance, DestinationInvariance, PTL DEF SafetySpec

\* Once an autosave has made a version of the open session durable, that
\* version or a newer one is in a Project file the session has written or among
\* the points that recovery offers, through every later save, Save As, autosave,
\* failure and reconciliation, as long as the file its manifest names is at a
\* revision it knows (reconcile_recovery_after_manual_save,
\* project_recovery.rs:943).
THEOREM AutosavedWorkIsPreserved == SafetySpec => []NewerWorkIsRecoverable
<1>1. LifecycleInv /\ RecoveryInv => NewerWorkIsRecoverable
  <2> SUFFICES ASSUME LifecycleInv, RecoveryInv, authoring # None,
                      authoring.autosaved # None, ManifestIsCurrent(authoring)
               PROVE  IsPreserved(authoring, authoring.autosaved)
    BY DEF NewerWorkIsRecoverable
  <2>1. PICK a \in AuthoringSession : a = authoring
    BY MainNumbers
  <2>2. PICK v \in Versions : v = a.autosaved
    BY <2>1 DEF AuthoringSession, Option
  <2>3. Kept(a, v)
    BY <2>1, <2>2 DEF RecoveryInv, Tracked, WorkKept, Autosaved
  <2>4. CASE \E f \in Files : Secured(a.session, f, v)
    BY <2>1, <2>2, <2>4 DEF Secured, IsPreserved
  <2>5. CASE \E p \in Points(a) : v <= p.version /\ Offered(a, p)
    <3>1. PICK p \in Points(a) : v <= p.version /\ Offered(a, p)
      BY <2>5
    <3>2. PICK m : m = recovery[a.project][a.root]
      OBVIOUS
    <3>3. /\ a.project \in Projects /\ a.root \in Files /\ a.session \in Sessions
          /\ a.revision \in Nat /\ v \in Nat
      BY SessionNumbers, PersistenceAssumption DEF Versions
    <3>4. m # None /\ p \in m.points
      BY <3>1, <3>2 DEF Points
    <3>5. /\ m \in Manifest /\ m.file \in Files
          /\ p.version \in Nat /\ p.revision \in Nat
          /\ lastSuccessful[a.session] # None => lastSuccessful[a.session] \in Nat
      BY <3>2, <3>3, <3>4, RecordNumbers DEF LifecycleInv, ServiceInv, Manifest
    <3>6. files[m.file] # None =>
              files[m.file].project = a.project /\ p.revision >= files[m.file].revision
      <4> SUFFICES ASSUME files[m.file] # None
                   PROVE  /\ files[m.file].project = a.project
                          /\ p.revision >= files[m.file].revision
        OBVIOUS
      <4>1. files[m.file].revision \in Nat
        BY <3>5, Numbers DEF LifecycleInv, ServiceInv
      <4>2. /\ files[m.file].project = a.project
            /\ \/ files[m.file].revision <= a.revision
               \/ /\ lastSuccessful[a.session] # None
                  /\ files[m.file].revision <= lastSuccessful[a.session]
        BY <2>1, <3>2, <3>4 DEF ManifestIsCurrent
      <4> QED
        BY <3>1, <3>3, <3>5, <4>1, <4>2 DEF Offered
    <3>7. p \in Recoverable(a.project, a.root)
      BY <3>2, <3>4, <3>6 DEF Recoverable
    <3> QED
      BY <2>1, <2>2, <3>1, <3>3, <3>5, <3>7 DEF IsPreserved
  <2> QED
    BY <2>3, <2>4, <2>5 DEF Kept
<1> QED
  BY <1>1, LifecycleInvariance, RecoveryInvariance, PTL

=============================================================================
