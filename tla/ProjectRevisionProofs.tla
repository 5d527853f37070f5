------------------------- MODULE ProjectRevisionProofs -------------------------
(***************************************************************************)
(* Proof that document revisions on disk only increase, for every set of   *)
(* sessions and paths, every queue capacity and every bound.               *)
(*                                                                         *)
(* The invariant follows the manual saves of a session from their          *)
(* reservation to the disk: what waits in the channel is in the order of   *)
(* its reservation, all of it above what runs, and that above the disk.    *)
(***************************************************************************)
EXTENDS ProjectLifecycleProofs

LastReserved(s) == admission[s].lastReserved

\* r is a manual save of session s.
SavesOf(r, s) == r.kind = "Manual" /\ r.session = s

\* Path f holds what session s wrote last.
WrittenBy(f, s) == files[f] # None /\ files[f].session = s

\* a was reserved before b, with work that is not newer.
Before(a, b) == a.revision < b.revision /\ a.version <= b.version

\* Every reservation stays below the last one.
ReservationsCounted ==
    \A s \in Sessions :
        /\ \A r \in Outstanding : SavesOf(r, s) =>
               LastReserved(s) # None /\ r.revision <= LastReserved(s)
        /\ \A f \in Files : WrittenBy(f, s) =>
               LastReserved(s) # None /\ files[f].revision <= LastReserved(s)

\* The order of reservations along the channel, the worker and the disk.
ChannelOrdered ==
    \A s \in Sessions : \A i, j \in DOMAIN channel :
        i < j /\ SavesOf(channel[i], s) /\ SavesOf(channel[j], s) =>
            Before(channel[i], channel[j])

RunningFirst ==
    \A s \in Sessions : \A i \in DOMAIN channel :
        running # None /\ SavesOf(running, s) /\ SavesOf(channel[i], s) =>
            Before(running, channel[i])

DiskFirst ==
    \A s \in Sessions : \A r \in Outstanding, f \in Files :
        SavesOf(r, s) /\ WrittenBy(f, s) => Before(files[f], r)

\* No version is newer than the last edit.
VersionsKnown ==
    /\ \A r \in Outstanding : r.version <= lastVersion
    /\ \A f \in Files : files[f] # None => files[f].version <= lastVersion
    /\ \A p \in Projects, f \in Files :
           recovery[p][f] # None =>
               \A point \in recovery[p][f].points : point.version <= lastVersion

\* x is the newest state of its session.
IsNewest(x) ==
    /\ x.version <= lastVersion
    /\ \A r \in Outstanding : SavesOf(r, x.session) => r.version <= x.version
    /\ \A f \in Files : WrittenBy(f, x.session) => files[f].version <= x.version

SessionsNewest ==
    /\ authoring # None => IsNewest(authoring)
    /\ task # None /\ task.stage = "Publish" => IsNewest(task.candidate)

\* A session that never existed has written nothing.
FreshUnwritten ==
    \A s \in Fresh :
        /\ \A r \in Outstanding : r.session # s
        /\ \A f \in Files : ~WrittenBy(f, s)

ReservationInv == ReservationsCounted /\ ChannelOrdered /\ RunningFirst /\ DiskFirst

VersionInv == VersionsKnown /\ SessionsNewest /\ FreshUnwritten

-----------------------------------------------------------------------------
\* Reservations: what each step does to the order.

\* What a publication of request r leaves in its file.
Published(r) ==
    [session |-> r.session, lineage |-> r.lineage, project |-> r.project,
     version |-> r.version, revision |-> r.revision]

\* The numbers the order speaks of.
LEMMA Numbers ==
    ASSUME ServiceTyped
    PROVE  /\ \A r \in Outstanding :
                  /\ r \in RequestRecord
                  /\ r.session \in Sessions /\ r.revision \in Nat
                  /\ r.version \in Nat /\ r.file \in Files
           /\ \A f \in Files : files[f] # None =>
                  files[f].revision \in Nat /\ files[f].version \in Nat
           /\ \A s \in Sessions : LastReserved(s) # None => LastReserved(s) \in Nat
           /\ \A p \in Projects, f \in Files : recovery[p][f] # None =>
                  \A point \in recovery[p][f].points : point.version \in Nat
<1>1. Versions \subseteq Nat
  BY PersistenceAssumption DEF Versions
<1>2. \A r \in RequestRecord :
          /\ r.session \in Sessions /\ r.revision \in Nat
          /\ r.version \in Nat /\ r.file \in Files
  BY <1>1 DEF RequestRecord
<1>3. Outstanding \subseteq RequestRecord
  BY OutstandingFacts
<1>4. \A f \in Files : files[f] # None => files[f] \in Content
  BY DEF ServiceTyped, Option
<1>5. \A x \in Content : x.revision \in Nat /\ x.version \in Nat
  BY <1>1 DEF Content
<1>6. \A s \in Sessions : LastReserved(s) # None => LastReserved(s) \in Nat
  BY AdmissionFacts DEF LastReserved, Option
<1>7. \A p \in Projects, f \in Files : recovery[p][f] # None => recovery[p][f] \in Manifest
  BY DEF ServiceTyped, Option
<1>8. \A m \in Manifest : \A point \in m.points : point.version \in Nat
  BY <1>1 DEF Manifest
<1> QED
  BY <1>2, <1>3, <1>4, <1>5, <1>6, <1>7, <1>8

\* What leaves the channel, and what does not enter it, disturbs nothing.
LEMMA ReservationFrame ==
    ASSUME ReservationInv, UNCHANGED <<channel, files>>,
           running' = running \/ running' = None,
           \A s \in Sessions : LastReserved(s)' = LastReserved(s)
    PROVE  ReservationInv' /\ Outstanding' \subseteq Outstanding
<1>1. Outstanding' \subseteq Outstanding
  BY DEF Outstanding
<1>2. \A f \in Files, s \in Sessions : WrittenBy(f, s)' <=> WrittenBy(f, s)
  BY DEF WrittenBy
<1>3. ReservationsCounted'
  BY <1>1, <1>2 DEF ReservationInv, ReservationsCounted
<1>4. ChannelOrdered' /\ RunningFirst'
  BY DEF ReservationInv, ChannelOrdered, RunningFirst
<1>5. DiskFirst'
  BY <1>1, <1>2 DEF ReservationInv, DiskFirst
<1> QED
  BY <1>1, <1>3, <1>4, <1>5 DEF ReservationInv

LEMMA PanicReserves ==
    ASSUME ReservationInv, WorkerPanics
    PROVE  ReservationInv' /\ Outstanding' \subseteq Outstanding
<1>1. /\ running' = None /\ channel' = <<>> /\ DOMAIN channel' = {}
      /\ UNCHANGED <<admission, files>>
  BY DEF WorkerPanics, clientVars, diskVars
<1>2. Outstanding' = {}
  BY <1>1 DEF Outstanding
<1>3. ReservationsCounted'
  BY <1>1, <1>2 DEF ReservationInv, ReservationsCounted, WrittenBy, LastReserved
<1>4. ChannelOrdered' /\ RunningFirst' /\ DiskFirst'
  BY <1>1, <1>2 DEF ChannelOrdered, RunningFirst, DiskFirst
<1> QED
  BY <1>2, <1>3, <1>4 DEF ReservationInv

\* The head of the channel was reserved before everything behind it.
LEMMA TakeReserves ==
    ASSUME ServiceInv, ReservationInv, TakeRequest \/ ServeBarrier
    PROVE  ReservationInv' /\ Outstanding' \subseteq Outstanding
<1>1. /\ running = None /\ channel # <<>> /\ channel' = Tail(channel)
      /\ \/ running' = None
         \/ running' = Head(channel) /\ Head(channel).kind # "Barrier"
      /\ UNCHANGED <<admission, files>>
  <2>1. CASE TakeRequest
    BY <2>1 DEF TakeRequest, clientVars, diskVars
  <2>2. CASE ServeBarrier
    BY <2>2 DEF ServeBarrier, clientVars, diskVars, workerVars
  <2> QED
    BY <2>1, <2>2
<1>2. channel \in Seq(RequestRecord \cup Barrier)
  BY DEF ServiceInv, ServiceTyped
<1>3. /\ 1 \in DOMAIN channel /\ Head(channel) = channel[1]
      /\ DOMAIN channel' \subseteq Nat
      /\ \A i \in DOMAIN channel' :
             i >= 1 /\ i + 1 \in DOMAIN channel /\ channel'[i] = channel[i + 1]
  <2>1. channel' \in Seq(RequestRecord \cup Barrier)
    BY <1>1, <1>2, TailFacts
  <2> QED
    BY <1>1, <1>2, <2>1, TailFacts
<1>4. Outstanding' \subseteq Outstanding
  <2>1. \A x \in Outstanding' :
            \/ \E i \in DOMAIN channel' : channel'[i] = x /\ x.kind # "Barrier"
            \/ x = channel[1] /\ x.kind # "Barrier"
    BY <1>1, <1>3 DEF Outstanding
  <2>2. \A x \in Outstanding' : \E i \in DOMAIN channel : channel[i] = x /\ x.kind # "Barrier"
    BY <1>3, <2>1
  <2> QED
    BY <2>2, OutstandingFacts DEF ServiceInv
<1>5. \A f \in Files, s \in Sessions :
          (WrittenBy(f, s)' <=> WrittenBy(f, s)) /\ LastReserved(s)' = LastReserved(s)
  BY <1>1 DEF WrittenBy, LastReserved
<1>6. ReservationsCounted'
  BY <1>1, <1>4, <1>5 DEF ReservationInv, ReservationsCounted, LastReserved
<1>7. \A s \in Sessions : \A i, j \in DOMAIN channel :
          i < j /\ SavesOf(channel[i], s) /\ SavesOf(channel[j], s) =>
              Before(channel[i], channel[j])
  BY DEF ReservationInv, ChannelOrdered
<1>8. ChannelOrdered'
  <2>1. \A i, j \in DOMAIN channel' : i < j => i + 1 < j + 1
    BY <1>3
  <2> QED
    BY <1>3, <1>7, <2>1 DEF ChannelOrdered
<1>9. RunningFirst'
  <2>1. \A i \in DOMAIN channel' : 1 < i + 1
    BY <1>3
  <2> QED
    BY <1>1, <1>3, <1>7, <2>1 DEF RunningFirst
<1>10. DiskFirst'
  BY <1>1, <1>4, <1>5 DEF ReservationInv, DiskFirst
<1> QED
  BY <1>4, <1>6, <1>8, <1>9, <1>10 DEF ReservationInv

\* A publication replaces what the session wrote by what it reserved next.
LEMMA PublishReserves ==
    ASSUME ServiceInv, ReservationInv, running # None, running.kind = "Manual",
           running' = None, UNCHANGED <<channel, admission>>,
           files' = [files EXCEPT ![running.file] = Published(running)]
    PROVE  ReservationInv' /\ Outstanding' \subseteq Outstanding
<1>1. running \in Outstanding
  BY OutstandingFacts DEF ServiceInv
<1>2. running \in RequestRecord /\ running.session \in Sessions /\ running.file \in Files
  BY <1>1, Numbers DEF ServiceInv
<1>3. /\ Published(running).session = running.session
      /\ Published(running).version = running.version
      /\ Published(running).revision = running.revision
  BY DEF Published
<1>4. Outstanding' \subseteq Outstanding
  BY DEF Outstanding
<1>5. \A f \in Files : f # running.file => files'[f] = files[f]
  BY DEF ServiceInv, ServiceTyped
<1>6. files'[running.file] = Published(running)
  BY <1>2 DEF ServiceInv, ServiceTyped
<1>7. \A f \in Files, s \in Sessions : WrittenBy(f, s)' =>
          \/ f # running.file /\ WrittenBy(f, s) /\ files'[f] = files[f]
          \/ f = running.file /\ s = running.session /\ files'[f] = Published(running)
  BY <1>3, <1>5, <1>6 DEF WrittenBy
<1>8. ReservationsCounted'
  <2>1. \A s \in Sessions : LastReserved(s)' = LastReserved(s)
    BY DEF LastReserved
  <2>2. /\ LastReserved(running.session) # None
        /\ running.revision <= LastReserved(running.session)
    BY <1>1, <1>2 DEF ReservationInv, ReservationsCounted, SavesOf
  <2> SUFFICES ASSUME NEW s \in Sessions
               PROVE  /\ \A r \in Outstanding' : SavesOf(r, s) =>
                             LastReserved(s) # None /\ r.revision <= LastReserved(s)
                      /\ \A f \in Files : WrittenBy(f, s)' =>
                             LastReserved(s) # None /\ files'[f].revision <= LastReserved(s)
    BY <2>1 DEF ReservationsCounted
  <2>3. \A r \in Outstanding' : SavesOf(r, s) =>
            LastReserved(s) # None /\ r.revision <= LastReserved(s)
    BY <1>4 DEF ReservationInv, ReservationsCounted
  <2>4. \A f \in Files : WrittenBy(f, s) =>
            LastReserved(s) # None /\ files[f].revision <= LastReserved(s)
    BY DEF ReservationInv, ReservationsCounted
  <2> QED
    BY <1>3, <1>7, <2>2, <2>3, <2>4
<1>9. ChannelOrdered' /\ RunningFirst'
  BY DEF ReservationInv, ChannelOrdered, RunningFirst
<1>10. DiskFirst'
  <2> SUFFICES ASSUME NEW s \in Sessions, NEW r \in Outstanding', NEW f \in Files,
                      SavesOf(r, s), WrittenBy(f, s)'
               PROVE  files'[f].revision < r.revision /\ files'[f].version <= r.version
    BY DEF DiskFirst, Before
  <2>1. CASE WrittenBy(f, s) /\ files'[f] = files[f]
    BY <1>4, <2>1 DEF ReservationInv, DiskFirst, Before
  <2>2. CASE s = running.session /\ files'[f] = Published(running)
    <3>1. \E i \in DOMAIN channel : channel[i] = r
      BY DEF Outstanding
    <3>2. Before(running, r)
      BY <2>2, <3>1 DEF ReservationInv, RunningFirst, SavesOf
    <3> QED
      BY <1>3, <2>2, <3>2 DEF Before
  <2> QED
    BY <1>7, <2>1, <2>2
<1> QED
  BY <1>4, <1>8, <1>9, <1>10 DEF ReservationInv

\* A barrier is nobody's save.
LEMMA BeginPauseReserves ==
    ASSUME ServiceInv, ReservationInv, NEW s \in Sessions, BeginPause(s)
    PROVE  /\ ReservationInv'
           /\ Outstanding' \subseteq Outstanding
           /\ UNCHANGED <<files, recovery>>
<1> DEFINE b == [kind |-> "Barrier", session |-> s, generation |-> Generation(s)]
<1>1. /\ channel' = channel \/ channel' = Append(channel, b)
      /\ UNCHANGED <<running, files, recovery>>
      /\ admission' = [admission EXCEPT ![s].phase =
                          IF workerLive THEN "Pausing" ELSE "Poisoned"]
  BY DEF BeginPause, workerVars, diskVars, Generation
<1>2. channel \in Seq(RequestRecord \cup Barrier) /\ b \in Barrier
  BY AdmissionFacts DEF ServiceInv, ServiceTyped, Barrier
<1>3. b.kind = "Barrier"
  OBVIOUS
<1> HIDE DEF b
<1>4. \A i \in DOMAIN channel' :
          \/ i \in DOMAIN channel /\ channel'[i] = channel[i]
          \/ channel'[i].kind = "Barrier"
  <2>1. CASE channel' = channel
    BY <2>1
  <2>2. CASE channel' = Append(channel, b)
    BY <1>2, <1>3, <2>2, AppendFacts
  <2> QED
    BY <1>1, <2>1, <2>2
<1>5. \A o \in Sessions : LastReserved(o)' = LastReserved(o)
  BY <1>1 DEF ServiceInv, ServiceTyped, LastReserved
<1>6. Outstanding' \subseteq Outstanding
  BY <1>1, <1>4 DEF Outstanding
<1>7. \A f \in Files, o \in Sessions : WrittenBy(f, o)' <=> WrittenBy(f, o)
  BY <1>1 DEF WrittenBy
<1>8. ReservationsCounted'
  BY <1>1, <1>5, <1>6, <1>7 DEF ReservationInv, ReservationsCounted
<1>9. \A i \in DOMAIN channel', o \in Sessions : SavesOf(channel'[i], o) =>
          i \in DOMAIN channel /\ channel'[i] = channel[i]
  BY <1>4 DEF SavesOf
<1>10. ChannelOrdered' /\ RunningFirst'
  BY <1>1, <1>9 DEF ReservationInv, ChannelOrdered, RunningFirst
<1>11. DiskFirst'
  BY <1>1, <1>6, <1>7 DEF ReservationInv, DiskFirst
<1> QED
  BY <1>1, <1>6, <1>8, <1>10, <1>11 DEF ReservationInv

\* What is submitted is reserved above everything of its session.
LEMMA SubmitReserves ==
    ASSUME ServiceInv, ReservationInv, NEW r \in RequestRecord, Submit(r),
           SavesOf(r, r.session) =>
               /\ LastReserved(r.session) # None => r.revision > LastReserved(r.session)
               /\ \A x \in Outstanding : SavesOf(x, r.session) => x.version <= r.version
               /\ \A f \in Files : WrittenBy(f, r.session) => files[f].version <= r.version
    PROVE  /\ ReservationInv'
           /\ Outstanding' \subseteq Outstanding \cup {r}
           /\ UNCHANGED <<files, recovery>>
<1> USE DEF ServiceInv
<1>1. /\ channel' = Append(channel, r)
      /\ UNCHANGED <<running, files, recovery>>
      /\ admission' = IF r.kind = "Manual"
                      THEN [admission EXCEPT ![r.session].lastReserved = r.revision]
                      ELSE admission
  BY DEF Submit, workerVars, diskVars
<1>2. /\ DOMAIN channel' = DOMAIN channel \cup {Len(channel) + 1}
      /\ DOMAIN channel \subseteq Nat /\ Len(channel) + 1 \in Nat
      /\ \A i \in DOMAIN channel : channel'[i] = channel[i] /\ i <= Len(channel)
      /\ channel'[Len(channel) + 1] = r
      /\ Len(channel) \in Nat
  BY <1>1, AppendFacts DEF ServiceTyped
<1>3. r.session \in Sessions /\ r.revision \in Nat /\ r.kind # "Barrier" /\ r.revision # None
  BY NoneFacts DEF RequestRecord
<1>4. Outstanding' \subseteq Outstanding \cup {r}
  BY <1>1, <1>2 DEF Outstanding
<1>5. \A f \in Files, o \in Sessions : WrittenBy(f, o)' <=> WrittenBy(f, o)
  BY <1>1 DEF WrittenBy
<1>6. \A o \in Sessions :
          LastReserved(o)' = IF SavesOf(r, o) THEN r.revision ELSE LastReserved(o)
  BY <1>1, <1>3 DEF ServiceTyped, LastReserved, SavesOf
<1>7. /\ \A x \in Outstanding : x.session \in Sessions /\ x.revision \in Nat /\ x.version \in Nat
      /\ \A f \in Files : files[f] # None => files[f].revision \in Nat /\ files[f].version \in Nat
      /\ \A o \in Sessions : LastReserved(o) # None => LastReserved(o) \in Nat
  BY Numbers
<1>8. \A o \in Sessions :
          /\ \A x \in Outstanding : SavesOf(x, o) =>
                 LastReserved(o) # None /\ x.revision <= LastReserved(o)
          /\ \A f \in Files : WrittenBy(f, o) =>
                 LastReserved(o) # None /\ files[f].revision <= LastReserved(o)
  BY DEF ReservationInv, ReservationsCounted
<1>9. ReservationsCounted'
  <2> SUFFICES ASSUME NEW o \in Sessions
               PROVE  /\ \A x \in Outstanding' : SavesOf(x, o) =>
                             LastReserved(o)' # None /\ x.revision <= LastReserved(o)'
                      /\ \A f \in Files : WrittenBy(f, o) =>
                             LastReserved(o)' # None /\ files[f].revision <= LastReserved(o)'
    BY <1>1, <1>5 DEF ReservationsCounted
  <2>1. CASE SavesOf(r, o)
    <3>1. o = r.session /\ LastReserved(o)' = r.revision
      BY <1>6, <2>1 DEF SavesOf
    <3>2. LastReserved(o) # None => r.revision > LastReserved(o)
      BY <2>1, <3>1
    <3>3. \A x \in Outstanding : SavesOf(x, o) => x.revision <= r.revision
      BY <1>3, <1>7, <1>8, <3>2
    <3>4. \A f \in Files : WrittenBy(f, o) => files[f].revision <= r.revision
      BY <1>3, <1>7, <1>8, <3>2 DEF WrittenBy
    <3> QED
      BY <1>3, <1>4, <3>1, <3>3, <3>4
  <2>2. CASE ~SavesOf(r, o)
    BY <1>4, <1>6, <1>8, <2>2
  <2> QED
    BY <2>1, <2>2
<1>10. \A o \in Sessions : SavesOf(r, o) =>
          /\ \A x \in Outstanding : SavesOf(x, o) => Before(x, r)
          /\ \A f \in Files : WrittenBy(f, o) => Before(files[f], r)
  <2> SUFFICES ASSUME NEW o \in Sessions, SavesOf(r, o)
               PROVE  /\ \A x \in Outstanding : SavesOf(x, o) => Before(x, r)
                      /\ \A f \in Files : WrittenBy(f, o) => Before(files[f], r)
    OBVIOUS
  <2>1. o = r.session /\ (LastReserved(o) # None => r.revision > LastReserved(o))
    BY DEF SavesOf
  <2>2. \A x \in Outstanding : SavesOf(x, o) => x.revision < r.revision
    BY <1>3, <1>7, <1>8, <2>1
  <2>3. \A f \in Files : WrittenBy(f, o) => files[f].revision < r.revision
    BY <1>3, <1>7, <1>8, <2>1 DEF WrittenBy
  <2> QED
    BY <2>1, <2>2, <2>3 DEF Before
<1>11. \A i \in DOMAIN channel, o \in Sessions :
          SavesOf(channel[i], o) => channel[i] \in Outstanding
  BY OutstandingFacts DEF SavesOf
<1>12. ChannelOrdered'
  <2> SUFFICES ASSUME NEW o \in Sessions, NEW i \in DOMAIN channel', NEW j \in DOMAIN channel',
                      i < j, SavesOf(channel'[i], o), SavesOf(channel'[j], o)
               PROVE  Before(channel'[i], channel'[j])
    BY DEF ChannelOrdered, Before
  <2>1. i \in DOMAIN channel /\ channel'[i] = channel[i]
    BY <1>2
  <2>2. CASE j \in DOMAIN channel
    BY <1>2, <2>1, <2>2 DEF ReservationInv, ChannelOrdered
  <2>3. CASE j = Len(channel) + 1
    BY <1>2, <1>10, <1>11, <2>1, <2>3
  <2> QED
    BY <1>2, <2>2, <2>3
<1>13. RunningFirst'
  <2> SUFFICES ASSUME NEW o \in Sessions, NEW i \in DOMAIN channel',
                      running # None, SavesOf(running, o), SavesOf(channel'[i], o)
               PROVE  Before(running, channel'[i])
    BY <1>1 DEF RunningFirst, Before
  <2>1. running \in Outstanding
    BY OutstandingFacts
  <2>2. CASE i \in DOMAIN channel
    BY <1>2, <2>2 DEF ReservationInv, RunningFirst
  <2>3. CASE i = Len(channel) + 1
    BY <1>2, <1>10, <2>1, <2>3
  <2> QED
    BY <1>2, <2>2, <2>3
<1>14. DiskFirst'
  <2> SUFFICES ASSUME NEW o \in Sessions, NEW x \in Outstanding', NEW f \in Files,
                      SavesOf(x, o), WrittenBy(f, o)
               PROVE  Before(files[f], x)
    BY <1>1, <1>5 DEF DiskFirst, Before
  <2> QED
    BY <1>4, <1>10 DEF ReservationInv, DiskFirst
<1> QED
  BY <1>1, <1>4, <1>9, <1>12, <1>13, <1>14 DEF ReservationInv

\* Another program's file is nobody's save.
LEMMA ExternalReserves ==
    ASSUME ServiceInv, ReservationInv, NEW g \in Files, ExternalCreates(g)
    PROVE  ReservationInv' /\ Outstanding' \subseteq Outstanding
<1>1. /\ UNCHANGED <<channel, running, admission>>
      /\ files' = [files EXCEPT ![g] =
            [session |-> None, lineage |-> None, project |-> None,
             version |-> 0, revision |-> 0]]
  BY DEF ExternalCreates, queueVars, workerVars, clientVars
<1>2. Outstanding' \subseteq Outstanding
  BY <1>1 DEF Outstanding
<1>3. \A f \in Files, s \in Sessions : WrittenBy(f, s)' =>
          WrittenBy(f, s) /\ files'[f] = files[f]
  BY <1>1, NoneFacts DEF WrittenBy, ServiceInv, ServiceTyped
<1>4. \A s \in Sessions : LastReserved(s)' = LastReserved(s)
  BY <1>1 DEF LastReserved
<1>5. ReservationsCounted'
  BY <1>2, <1>3, <1>4 DEF ReservationInv, ReservationsCounted
<1>6. ChannelOrdered' /\ RunningFirst'
  BY <1>1 DEF ReservationInv, ChannelOrdered, RunningFirst
<1>7. DiskFirst'
  BY <1>2, <1>3 DEF ReservationInv, DiskFirst
<1> QED
  BY <1>2, <1>5, <1>6, <1>7 DEF ReservationInv

-----------------------------------------------------------------------------
\* Versions: what each step may write.

\* A file keeps what it names, takes a save on its way, or is another program's.
FilesStep ==
    \A f \in Files :
        \/ files'[f] = files[f]
        \/ \E r \in Outstanding : r.kind = "Manual" /\ files'[f] = Published(r)
        \/ files'[f].session = None /\ files'[f].version = 0

\* A manifest offers what it offered, and what is on its way.
PointsStep ==
    \A p \in Projects, f \in Files :
        recovery'[p][f] # None =>
            \A point \in recovery'[p][f].points :
                \/ recovery[p][f] # None /\ point \in recovery[p][f].points
                \/ \E r \in Outstanding : point.version = r.version

\* What is on its way was there before, or is of a session in use.
WorkStep ==
    \A r \in Outstanding' :
        \/ r \in Outstanding
        \/ r.session \in used' /\ r.version <= lastVersion'

ClockStep ==
    /\ lastVersion \in Nat /\ lastVersion' \in Nat
    /\ lastVersion <= lastVersion'
    /\ used \subseteq used'

LEMMA KnownFrame ==
    ASSUME ServiceTyped, ServiceTyped', VersionsKnown,
           FilesStep, PointsStep, WorkStep, ClockStep
    PROVE  VersionsKnown'
<1>1. \A r \in Outstanding : r.version \in Nat /\ r.version <= lastVersion'
  BY Numbers DEF VersionsKnown, ClockStep
<1>2. \A r \in Outstanding' : r.version <= lastVersion'
  BY <1>1 DEF WorkStep
<1>3. \A f \in Files : files'[f] # None => files'[f].version <= lastVersion'
  <2> SUFFICES ASSUME NEW f \in Files, files'[f] # None
               PROVE  files'[f].version <= lastVersion'
    OBVIOUS
  <2>1. CASE files'[f] = files[f]
    BY <2>1, Numbers DEF VersionsKnown, ClockStep
  <2>2. CASE \E r \in Outstanding : r.kind = "Manual" /\ files'[f] = Published(r)
    BY <1>1, <2>2 DEF Published
  <2>3. CASE files'[f].session = None /\ files'[f].version = 0
    BY <2>3 DEF ClockStep
  <2> QED
    BY <2>1, <2>2, <2>3 DEF FilesStep
<1>4. \A p \in Projects, f \in Files : recovery[p][f] # None =>
          \A point \in recovery[p][f].points : point.version <= lastVersion'
  BY Numbers DEF VersionsKnown, ClockStep
<1>5. \A p \in Projects, f \in Files : recovery'[p][f] # None =>
          \A point \in recovery'[p][f].points : point.version <= lastVersion'
  BY <1>1, <1>4 DEF PointsStep
<1> QED
  BY <1>2, <1>3, <1>5 DEF VersionsKnown

LEMMA FreshFrame ==
    ASSUME FreshUnwritten, FilesStep, WorkStep, ClockStep
    PROVE  FreshUnwritten'
<1> SUFFICES ASSUME NEW s \in Sessions, s \notin used'
             PROVE  /\ \A r \in Outstanding' : r.session # s
                    /\ \A f \in Files : ~WrittenBy(f, s)'
  BY DEF FreshUnwritten, Fresh
<1>1. s \in Fresh
  BY DEF Fresh, ClockStep
<1>2. \A r \in Outstanding : r.session # s
  BY <1>1 DEF FreshUnwritten
<1>3. \A r \in Outstanding' : r.session # s
  BY <1>2 DEF WorkStep
<1>4. ASSUME NEW f \in Files, WrittenBy(f, s)'
      PROVE  FALSE
  <2>1. files'[f] # None /\ files'[f].session = s
    BY <1>4 DEF WrittenBy
  <2>2. CASE files'[f] = files[f]
    BY <1>1, <2>1, <2>2 DEF FreshUnwritten, WrittenBy
  <2>3. CASE \E r \in Outstanding : r.kind = "Manual" /\ files'[f] = Published(r)
    BY <1>2, <2>1, <2>3 DEF Published
  <2>4. CASE files'[f].session = None
    BY <2>1, <2>4, NoneFacts
  <2> QED
    BY <2>2, <2>3, <2>4 DEF FilesStep
<1> QED
  BY <1>3, <1>4

\* The newest state of a session stays the newest as long as nothing newer of
\* the session is submitted.
LEMMA NewestFrame ==
    ASSUME ServiceTyped, NEW x, NEW y, IsNewest(x),
           x.session \in Sessions, y.session = x.session,
           x.version \in Nat, y.version \in Nat, x.version <= y.version,
           y.version <= lastVersion',
           FilesStep,
           \A r \in Outstanding' : SavesOf(r, x.session) =>
               r \in Outstanding \/ r.version <= y.version
    PROVE  IsNewest(y)'
<1>1. \A r \in Outstanding : r.version \in Nat /\ (SavesOf(r, x.session) => r.version <= y.version)
  BY Numbers DEF IsNewest
<1>2. \A r \in Outstanding' : SavesOf(r, y.session) => r.version <= y.version
  BY <1>1
<1>3. ASSUME NEW f \in Files, WrittenBy(f, y.session)'
      PROVE  files'[f].version <= y.version
  <2>1. files'[f] # None /\ files'[f].session = x.session
    BY <1>3 DEF WrittenBy
  <2>2. CASE files'[f] = files[f]
    <3>1. WrittenBy(f, x.session) /\ files[f].version \in Nat
      BY <2>1, <2>2, Numbers DEF WrittenBy
    <3>2. files[f].version <= x.version
      BY <3>1 DEF IsNewest
    <3> QED
      BY <2>2, <3>1, <3>2
  <2>3. CASE \E r \in Outstanding : r.kind = "Manual" /\ files'[f] = Published(r)
    BY <1>1, <2>1, <2>3 DEF Published, SavesOf
  <2>4. CASE files'[f].session = None
    BY <2>1, <2>4, NoneFacts
  <2> QED
    BY <2>2, <2>3, <2>4 DEF FilesStep
<1> QED
  BY <1>2, <1>3 DEF IsNewest

LEMMA MainNumbers ==
    ASSUME LifecycleInv
    PROVE  /\ lastVersion \in Nat
           /\ authoring # None => /\ authoring \in AuthoringSession
                                  /\ authoring.session \in Sessions
                                  /\ authoring.session \in used
                                  /\ authoring.version \in Nat
           /\ task # None /\ task.stage = "Publish" =>
                  /\ task.candidate.session \in Sessions
                  /\ task.candidate.session \in used
                  /\ task.candidate.version \in Nat
<1>1. Versions \subseteq Nat
  BY PersistenceAssumption DEF Versions
<1>2. \A x \in AuthoringSession : x.session \in Sessions /\ x.version \in Nat
  BY <1>1 DEF AuthoringSession
<1>3. authoring # None => authoring \in AuthoringSession /\ authoring.session \in used
  BY DEF LifecycleInv, MainInv, MainTyped, SessionsUsed, Option
<1>4. task # None /\ task.stage = "Publish" =>
          task.candidate \in AuthoringSession /\ task.candidate.session \in used
  BY TaskFacts DEF LifecycleInv, Shaped, Creating
<1> QED
  BY <1>1, <1>2, <1>3, <1>4 DEF LifecycleInv, MainInv, MainTyped

\* A step that submits nothing and installs nothing.
LEMMA VersionFrame ==
    ASSUME LifecycleInv, ServiceTyped', VersionInv,
           FilesStep, PointsStep, ClockStep,
           Outstanding' \subseteq Outstanding,
           authoring' # None =>
               /\ authoring # None /\ authoring'.session = authoring.session
               /\ authoring'.version = authoring.version \/ authoring'.version = lastVersion',
           task' # None /\ task'.stage = "Publish" =>
               /\ task # None /\ task.stage = "Publish"
               /\ task'.candidate = task.candidate
    PROVE  VersionInv'
<1> USE DEF VersionInv
<1>1. WorkStep
  BY DEF WorkStep
<1>2. ServiceTyped
  BY DEF LifecycleInv, ServiceInv
<1>3. VersionsKnown' /\ FreshUnwritten'
  BY <1>1, <1>2, KnownFrame, FreshFrame
<1>4. ASSUME authoring' # None
      PROVE  IsNewest(authoring)'
  <2>1. PICK x, y : x = authoring /\ y = authoring'
    OBVIOUS
  <2>2. /\ IsNewest(x) /\ x.session \in Sessions /\ y.session = x.session
        /\ x.version \in Nat
        /\ y.version = x.version \/ y.version = lastVersion'
    BY <1>4, <2>1, MainNumbers DEF SessionsNewest
  <2>3. x.version <= lastVersion /\ lastVersion \in Nat /\ lastVersion' \in Nat
        /\ lastVersion <= lastVersion'
    BY <2>2 DEF IsNewest, ClockStep
  <2>4. y.version \in Nat /\ x.version <= y.version /\ y.version <= lastVersion'
    BY <2>2, <2>3
  <2>5. IsNewest(y)'
    BY <1>2, <2>2, <2>4, NewestFrame
  <2> QED
    BY <2>1, <2>5 DEF IsNewest
<1>5. ASSUME task' # None, task'.stage = "Publish"
      PROVE  IsNewest(task.candidate)'
  <2>1. PICK x : x = task.candidate
    OBVIOUS
  <2>2. task # None /\ task.stage = "Publish" /\ task'.candidate = x
    BY <1>5, <2>1
  <2>3. IsNewest(x) /\ x.session \in Sessions /\ x.version \in Nat
    BY <2>1, <2>2, MainNumbers DEF SessionsNewest
  <2>4. x.version <= lastVersion'
    BY <2>3, MainNumbers DEF IsNewest, ClockStep
  <2>5. IsNewest(x)'
    BY <1>2, <2>3, <2>4, NewestFrame
  <2> QED
    BY <2>2, <2>5 DEF IsNewest
<1> QED
  BY <1>3, <1>4, <1>5 DEF SessionsNewest

RevisionInv == ReservationInv /\ VersionInv

-----------------------------------------------------------------------------
\* Every step keeps RevisionInv.

\* A step of the main thread that neither submits, writes nor installs.
LEMMA QuietKeeps ==
    ASSUME LifecycleInv, LifecycleInv', RevisionInv, ReservationInv',
           Outstanding' \subseteq Outstanding,
           UNCHANGED <<files, recovery, lastVersion, used>>,
           authoring' = authoring \/ authoring' = None,
           task' # None => task'.stage # "Publish" \/ task' = task
    PROVE  RevisionInv'
<1>1. FilesStep /\ PointsStep
  BY DEF FilesStep, PointsStep
<1>2. ClockStep
  BY MainNumbers DEF ClockStep
<1>3. ServiceTyped'
  BY DEF LifecycleInv, ServiceInv
<1>4. VersionInv'
  BY <1>1, <1>2, <1>3, VersionFrame DEF RevisionInv
<1> QED
  BY <1>4 DEF RevisionInv

LEMMA SilentKeeps ==
    ASSUME LifecycleInv, LifecycleInv', RevisionInv,
           UNCHANGED <<channel, running, files, recovery, lastVersion, used>>,
           \A s \in Sessions : LastReserved(s)' = LastReserved(s),
           authoring' = authoring \/ authoring' = None,
           task' # None => task'.stage # "Publish" \/ task' = task
    PROVE  RevisionInv'
<1>1. ReservationInv' /\ Outstanding' \subseteq Outstanding
  BY ReservationFrame DEF RevisionInv
<1> QED
  BY <1>1, QuietKeeps

\* No change of admission forgets a reservation.
LEMMA PauseReserved ==
    ASSUME ServiceInv, NEW t, CompletePause(t) \/ PoisonPause(t)
    PROVE  /\ UNCHANGED <<channel, running, files, recovery>>
           /\ \A s \in Sessions : LastReserved(s)' = LastReserved(s)
<1>1. UNCHANGED <<channel, running, files, recovery>>
  BY DEF CompletePause, PoisonPause, queueVars, workerVars, diskVars
<1>2. PICK phase : admission' = [admission EXCEPT ![t].phase = phase]
  BY DEF CompletePause, PoisonPause
<1>3. \A s \in Sessions : LastReserved(s)' = LastReserved(s)
  BY <1>2 DEF LastReserved, ServiceInv, ServiceTyped
<1> QED
  BY <1>1, <1>3

LEMMA AdmissionReserved ==
    ASSUME NEW adm \in AdmissionMap, NEW t
    PROVE  /\ \A s \in Sessions : Retired(adm, t)[s].lastReserved = adm[s].lastReserved
           /\ \A s \in Sessions : Resumed(adm, t)[s].lastReserved = adm[s].lastReserved
<1>1. \A s \in Sessions : Retired(adm, t)[s].lastReserved = adm[s].lastReserved
  BY DEF Retired, AdmissionMap
<1>2. \A s \in Sessions : Resumed(adm, t)[s].lastReserved = adm[s].lastReserved
  BY DEF Resumed, AdmissionMap
<1> QED
  BY <1>1, <1>2

LEMMA OnlyAdmissionReserved ==
    ASSUME ServiceInv, NEW t,
           \/ OnlyAdmission(Retired(admission, t))
           \/ OnlyAdmission(Resumed(admission, t))
    PROVE  /\ UNCHANGED <<channel, running, files, recovery>>
           /\ \A s \in Sessions : LastReserved(s)' = LastReserved(s)
<1>1. admission \in AdmissionMap
  BY DEF ServiceInv, ServiceTyped, AdmissionMap
<1>2. /\ UNCHANGED <<channel, running, files, recovery>>
      /\ admission' = Retired(admission, t) \/ admission' = Resumed(admission, t)
  BY DEF OnlyAdmission, queueVars, workerVars, diskVars
<1> QED
  BY <1>1, <1>2, AdmissionReserved DEF LastReserved

\* The worker and the disk.

LEMMA WorkerRevises ==
    ASSUME LifecycleInv, LifecycleInv', RevisionInv, Worker
    PROVE  RevisionInv'
<1> USE DEF LifecycleInv, RevisionInv
<1>1. WorkerStep /\ UNCHANGED <<authoring, task, used, lastVersion>>
  BY DEF Worker, mainVars, openVars
<1>2. ClockStep
  BY <1>1, MainNumbers DEF ClockStep
<1>3. ServiceTyped' /\ ServiceTyped
  BY DEF ServiceInv
<1>4. ASSUME FilesStep, PointsStep, Outstanding' \subseteq Outstanding
      PROVE  VersionInv'
  BY <1>1, <1>2, <1>3, <1>4, VersionFrame
<1>5. ASSUME UNCHANGED <<files, recovery>>, Outstanding' \subseteq Outstanding
      PROVE  VersionInv'
  BY <1>4, <1>5 DEF FilesStep, PointsStep
<1>6. CASE TakeRequest \/ ServeBarrier
  <2>1. UNCHANGED <<files, recovery>>
    BY <1>6 DEF TakeRequest, ServeBarrier, diskVars
  <2>2. ReservationInv' /\ Outstanding' \subseteq Outstanding
    BY <1>6, TakeReserves
  <2> QED
    BY <1>5, <2>1, <2>2
<1>7. CASE RejectManual
  <2>1. UNCHANGED <<files, recovery, channel, admission>> /\ running' = None
    BY <1>7 DEF RejectManual, Complete, diskVars, clientVars
  <2>2. \A s \in Sessions : LastReserved(s)' = LastReserved(s)
    BY <2>1 DEF LastReserved
  <2>3. ReservationInv' /\ Outstanding' \subseteq Outstanding
    BY <2>1, <2>2, ReservationFrame
  <2> QED
    BY <1>5, <2>1, <2>3
<1>8. ASSUME NEW outcome \in Outcomes, PublishManual(outcome)
      PROVE  RevisionInv'
  <2>1. /\ running # None /\ running.kind = "Manual" /\ running' = None
        /\ UNCHANGED <<recovery, channel, admission>>
        /\ files' = files \/ files' = [files EXCEPT ![running.file] = Published(running)]
    BY <1>8 DEF PublishManual, Complete, clientVars, Published
  <2>2. \A s \in Sessions : LastReserved(s)' = LastReserved(s)
    BY <2>1 DEF LastReserved
  <2>3. ReservationInv' /\ Outstanding' \subseteq Outstanding
    <3>1. CASE files' = files
      BY <2>1, <2>2, <3>1, ReservationFrame
    <3>2. CASE files' = [files EXCEPT ![running.file] = Published(running)]
      BY <2>1, <3>2, PublishReserves
    <3> QED
      BY <2>1, <3>1, <3>2
  <2>4. FilesStep
    <3>1. running \in Outstanding
      BY <1>3, <2>1, OutstandingFacts
    <3>2. \A f \in Files : files'[f] = files[f] \/ files'[f] = Published(running)
      BY <1>3, <2>1 DEF ServiceTyped
    <3> QED
      BY <2>1, <3>1, <3>2 DEF FilesStep
  <2>5. PointsStep
    BY <2>1 DEF PointsStep
  <2> QED
    BY <1>4, <2>3, <2>4, <2>5
<1>9. ASSUME NEW outcome \in Outcomes, NEW kept \in SUBSET RetainablePoints,
             PublishAutosave(outcome, kept)
      PROVE  RevisionInv'
  <2> DEFINE old == recovery[running.project][running.root]
             point == [version |-> running.version, revision |-> AutosaveRevision(running)]
             new == [file |-> IF old = None THEN running.file ELSE old.file,
                     points |-> kept \cup {point}]
  <2>1. /\ running # None /\ running' = None
        /\ UNCHANGED <<files, channel, admission>>
        /\ recovery' = recovery
           \/ recovery' = [recovery EXCEPT ![running.project][running.root] = new]
    BY <1>9 DEF PublishAutosave, Complete, clientVars
  <2>2. \A s \in Sessions : LastReserved(s)' = LastReserved(s)
    BY <2>1 DEF LastReserved
  <2>3. ReservationInv' /\ Outstanding' \subseteq Outstanding
    BY <2>1, <2>2, ReservationFrame
  <2>4. FilesStep
    BY <2>1 DEF FilesStep
  <2>5. running \in Outstanding
    BY <1>3, <2>1, OutstandingFacts
  <2>6. kept # {} => old # None /\ kept \subseteq old.points
    BY <2>1 DEF RetainablePoints
  <2>7. point.version = running.version /\ new.points = kept \cup {point}
    OBVIOUS
  <2> HIDE DEF old, point, new
  <2>8. PointsStep
    <3> SUFFICES ASSUME NEW p \in Projects, NEW f \in Files, recovery'[p][f] # None,
                        NEW q \in recovery'[p][f].points
                 PROVE  \/ recovery[p][f] # None /\ q \in recovery[p][f].points
                        \/ \E r \in Outstanding : q.version = r.version
      BY DEF PointsStep
    <3>1. CASE recovery'[p][f] = recovery[p][f]
      BY <3>1
    <3>2. CASE recovery'[p][f] # recovery[p][f]
      <4>1. p = running.project /\ f = running.root /\ recovery'[p][f] = new
        BY <1>3, <2>1, <3>2 DEF ServiceTyped
      <4>2. q \in kept \/ q = point
        BY <2>7, <4>1
      <4>3. q \in kept => recovery[p][f] # None /\ q \in recovery[p][f].points
        BY <2>6, <4>1 DEF old
      <4> QED
        BY <2>5, <2>7, <4>2, <4>3
    <3> QED
      BY <3>1, <3>2
  <2> QED
    BY <1>4, <2>3, <2>4, <2>8
<1> QED
  BY <1>1, <1>6, <1>7, <1>8, <1>9 DEF WorkerStep

LEMMA PanicRevises ==
    ASSUME LifecycleInv, LifecycleInv', RevisionInv, Panic
    PROVE  RevisionInv'
<1>1. WorkerPanics /\ UNCHANGED <<authoring, task, used, lastVersion, files, recovery>>
  BY DEF Panic, WorkerPanics, mainVars, openVars, diskVars
<1>2. ReservationInv' /\ Outstanding' \subseteq Outstanding
  BY <1>1, PanicReserves DEF RevisionInv
<1> QED
  BY <1>1, <1>2, QuietKeeps

LEMMA ExternalRevises ==
    ASSUME LifecycleInv, LifecycleInv', RevisionInv, NEW g \in Files, ExternalCreates(g)
    PROVE  RevisionInv'
<1> USE DEF LifecycleInv, RevisionInv
<1>1. /\ UNCHANGED <<authoring, task, used, lastVersion, recovery>>
      /\ files' = [files EXCEPT ![g] =
            [session |-> None, lineage |-> None, project |-> None,
             version |-> 0, revision |-> 0]]
  BY DEF ExternalCreates, mainVars, openVars
<1>2. ReservationInv' /\ Outstanding' \subseteq Outstanding
  BY ExternalReserves
<1>3. FilesStep /\ PointsStep /\ ClockStep
  <2>1. FilesStep
    BY <1>1 DEF FilesStep, ServiceInv, ServiceTyped
  <2> QED
    BY <1>1, <2>1, MainNumbers DEF PointsStep, ClockStep
<1>4. VersionInv'
  BY <1>1, <1>2, <1>3, VersionFrame DEF ServiceInv
<1> QED
  BY <1>2, <1>4

\* The handlers that neither submit, install nor apply.

LEMMA PollCloseRevises ==
    ASSUME LifecycleInv, LifecycleInv', RevisionInv, PollCloseQuiesced \/ PollCloseFaults
    PROVE  RevisionInv'
<1>1. /\ CompletePause(close.session) \/ PoisonPause(close.session)
      /\ UNCHANGED <<authoring, used, lastVersion>>
  BY DEF PollCloseQuiesced, PollCloseFaults, openVars
<1>2. task' # None => task'.stage # "Publish" \/ task' = task
  BY DEF PollCloseQuiesced, PollCloseFaults, NewTask
<1>3. /\ UNCHANGED <<channel, running, files, recovery>>
      /\ \A s \in Sessions : LastReserved(s)' = LastReserved(s)
  BY <1>1, PauseReserved DEF LifecycleInv
<1> QED
  BY <1>1, <1>2, <1>3, SilentKeeps

LEMMA WaitRevises ==
    ASSUME LifecycleInv, LifecycleInv', RevisionInv, HandoffQuiesced \/ HandoffTimesOut \/ Discard
    PROVE  RevisionInv'
<1>1. PICK t : CompletePause(t) \/ PoisonPause(t)
  BY DEF HandoffQuiesced, HandoffTimesOut, Discard
<1>2. UNCHANGED <<authoring, used, lastVersion>>
  BY DEF HandoffQuiesced, HandoffTimesOut, Discard, openVars
<1>3. task' # None => task'.stage # "Publish"
  <2>1. PICK x : x = task
    OBVIOUS
  <2>2. CASE HandoffTimesOut
    BY <2>2 DEF HandoffTimesOut
  <2>3. CASE HandoffQuiesced \/ Discard
    <3>1. task # None /\ x \in Task
      BY <2>1, <2>3, TaskFacts DEF HandoffQuiesced, Discard, LifecycleInv
    <3>2. \/ task' = [x EXCEPT !.stage = "Drain"]
          \/ task' = [x EXCEPT !.stage = "EndDiscard"]
      BY <2>1, <2>3 DEF HandoffQuiesced, Discard
    <3> QED
      BY <3>1, <3>2 DEF Task
  <2> QED
    BY <2>2, <2>3
<1>4. /\ UNCHANGED <<channel, running, files, recovery>>
      /\ \A s \in Sessions : LastReserved(s)' = LastReserved(s)
  BY <1>1, PauseReserved DEF LifecycleInv
<1> QED
  BY <1>2, <1>3, <1>4, SilentKeeps

LEMMA EndRevises ==
    ASSUME LifecycleInv, LifecycleInv', RevisionInv,
           FinishClose \/ ForceClose \/ RejectClose \/ HandoffFails
    PROVE  RevisionInv'
<1>1. /\ authoring' = authoring \/ authoring' = None
      /\ task' = None \/ task' = task
      /\ UNCHANGED <<used, lastVersion>>
  BY DEF FinishClose, ForceClose, RejectClose, HandoffFails, Finalize, openVars
<1>2. PICK t : OnlyAdmission(Retired(admission, t)) \/ OnlyAdmission(Resumed(admission, t))
  BY DEF FinishClose, ForceClose, RejectClose, HandoffFails
<1>3. /\ UNCHANGED <<channel, running, files, recovery>>
      /\ \A s \in Sessions : LastReserved(s)' = LastReserved(s)
  BY <1>2, OnlyAdmissionReserved DEF LifecycleInv
<1> QED
  BY <1>1, <1>3, SilentKeeps

LEMMA EndDiscardRevises ==
    ASSUME LifecycleInv, LifecycleInv', RevisionInv, EndDiscard
    PROVE  RevisionInv'
<1>1. /\ task' = None
      /\ UNCHANGED <<authoring, used, lastVersion, channel, running, files, recovery>>
  BY DEF EndDiscard, OnlyAdmission, openVars, queueVars, workerVars, diskVars
<1>2. admission \in AdmissionMap
  BY DEF LifecycleInv, ServiceInv, ServiceTyped, AdmissionMap
<1>3. PICK d : /\ d = admission \/ d = Retired(admission, task.candidate.session)
               /\ admission' = Resumed(d, task.token)
  BY DEF EndDiscard, OnlyAdmission
<1>4. task.candidate.session \in Option(Sessions)
  BY TaskFacts DEF EndDiscard, LifecycleInv, Shaped, Creating, AuthoringSession, Option
<1>5. d \in AdmissionMap /\ \A s \in Sessions : d[s].lastReserved = admission[s].lastReserved
  BY <1>2, <1>3, <1>4, RetiredFacts, AdmissionReserved
<1>6. \A s \in Sessions : admission'[s].lastReserved = d[s].lastReserved
  BY <1>3, <1>5, AdmissionReserved
<1>7. \A s \in Sessions : LastReserved(s)' = LastReserved(s)
  BY <1>5, <1>6 DEF LastReserved
<1> QED
  BY <1>1, <1>7, SilentKeeps

LEMMA CreateFailsRevises ==
    ASSUME LifecycleInv, LifecycleInv', RevisionInv, CreateFails
    PROVE  RevisionInv'
<1>1. UNCHANGED <<authoring, used, lastVersion, channel, running, files, recovery, admission>>
  BY DEF CreateFails, openVars, clientVars, queueVars, workerVars, diskVars
<1>2. \A s \in Sessions : LastReserved(s)' = LastReserved(s)
  BY <1>1 DEF LastReserved
<1>3. task'.stage # "Publish"
  <2>1. PICK x : x = task
    OBVIOUS
  <2>2. x \in Task /\ task' = [x EXCEPT !.stage = "BeginDiscard"]
    BY <2>1, TaskFacts DEF CreateFails, LifecycleInv
  <2> QED
    BY <2>2 DEF Task
<1> QED
  BY <1>1, <1>2, <1>3, SilentKeeps

LEMMA BeginPauseRevises ==
    ASSUME LifecycleInv, LifecycleInv', RevisionInv,
           NEW s \in Sessions, BeginPause(s),
           UNCHANGED <<authoring, used, lastVersion>>,
           task' # None => task'.stage # "Publish"
    PROVE  RevisionInv'
<1>1. ReservationInv' /\ Outstanding' \subseteq Outstanding /\ UNCHANGED <<files, recovery>>
  BY BeginPauseReserves DEF LifecycleInv, RevisionInv
<1> QED
  BY <1>1, QuietKeeps

LEMMA BeginCloseRevises ==
    ASSUME LifecycleInv, LifecycleInv', RevisionInv, BeginClose
    PROVE  RevisionInv'
<1>1. /\ authoring # None /\ BeginPause(authoring.session) /\ task' = None
      /\ UNCHANGED <<authoring, used, lastVersion>>
  BY DEF BeginClose, openVars
<1>2. PICK s \in Sessions : s = authoring.session
  BY <1>1, MainNumbers
<1> QED
  BY <1>1, <1>2, BeginPauseRevises

LEMMA BeginDiscardRevises ==
    ASSUME LifecycleInv, LifecycleInv', RevisionInv, BeginDiscard
    PROVE  RevisionInv'
<1>1. /\ task # None /\ task.stage = "BeginDiscard"
      /\ BeginPause(task.candidate.session)
      /\ task' = [task EXCEPT !.stage = IF workerLive THEN "Discard" ELSE "EndDiscard"]
      /\ UNCHANGED <<authoring, used, lastVersion>>
  BY DEF BeginDiscard, openVars
<1>2. PICK t \in Task : t = task
  BY <1>1, TaskFacts DEF LifecycleInv
<1>3. PICK s \in Sessions : s = task.candidate.session
  BY <1>1, TaskFacts DEF LifecycleInv, Shaped, Creating, AuthoringSession
<1>4. task'.stage # "Publish"
  BY <1>1, <1>2 DEF Task
<1> QED
  BY <1>1, <1>3, <1>4, BeginPauseRevises

LEMMA BeginHandoffRevises ==
    ASSUME LifecycleInv, LifecycleInv', RevisionInv, NEW op, NEW file, BeginHandoff(op, file)
    PROVE  RevisionInv'
<1>1. UNCHANGED <<authoring, used, lastVersion>>
  BY DEF BeginHandoff, openVars
<1>2. task' # None => task'.stage # "Publish"
  BY DEF BeginHandoff, NewTask
<1>3. CASE authoring = None
  <2>1. UNCHANGED <<channel, running, files, recovery, admission>>
    BY <1>3 DEF BeginHandoff, persistenceVars, clientVars, queueVars, workerVars, diskVars
  <2>2. \A s \in Sessions : LastReserved(s)' = LastReserved(s)
    BY <2>1 DEF LastReserved
  <2> QED
    BY <1>1, <1>2, <2>1, <2>2, SilentKeeps
<1>4. CASE authoring # None
  <2>1. BeginPause(authoring.session)
    BY <1>4 DEF BeginHandoff
  <2>2. PICK s \in Sessions : s = authoring.session
    BY <1>4, MainNumbers
  <2> QED
    BY <1>1, <1>2, <2>1, <2>2, BeginPauseRevises
<1> QED
  BY <1>3, <1>4

\* A completion moves baselines, never versions, and offers no new point.
LEMMA MarkKeepsVersion ==
    ASSUME NEW x \in AuthoringSession, NEW c
    PROVE  /\ MarkSaved(x, c).version = x.version
           /\ MarkAutosaved(x, c).version = x.version
BY DEF MarkSaved, MarkAutosaved, AuthoringSession

LEMMA ReconciledPoints ==
    ASSUME ServiceTyped, NEW x, NEW p \in Projects, NEW f \in Files,
           Reconciled(x)[p][f] # None, NEW q \in Reconciled(x)[p][f].points
    PROVE  recovery[p][f] # None /\ q \in recovery[p][f].points
<1> DEFINE manifest == recovery[x.project][x.root]
           new == [file |-> x.file, points |-> IF IsDirty(x) THEN manifest.points ELSE {}]
<1>1. Reconciled(x) = IF manifest = None THEN recovery
                      ELSE [recovery EXCEPT ![x.project][x.root] = new]
  BY DEF Reconciled
<1>2. new.points \subseteq manifest.points \/ new.points = {}
  OBVIOUS
<1>3. recovery \in [Projects -> [Files -> Option(Manifest)]]
  BY DEF ServiceTyped
<1> HIDE DEF new
<1>4. CASE Reconciled(x)[p][f] = recovery[p][f]
  BY <1>4
<1>5. CASE Reconciled(x)[p][f] # recovery[p][f]
  <2>1. p = x.project /\ f = x.root /\ manifest # None /\ Reconciled(x)[p][f] = new
    BY <1>1, <1>3, <1>5
  <2> QED
    BY <1>2, <2>1
<1> QED
  BY <1>4, <1>5

LEMMA ApplyRevises ==
    ASSUME LifecycleInv, LifecycleInv', RevisionInv, NEW reconciles \in BOOLEAN,
           ApplyCompletion(reconciles), UNCHANGED task
    PROVE  RevisionInv'
<1> USE DEF LifecycleInv, RevisionInv
<1> DEFINE c == Head(completions)
           mine == BelongsToOpenSession(c)
           covered == mine /\ ForCurrentDestination(c) /\ Covered(c)
           saves == mine /\ ForCurrentDestination(c) /\ ~covered /\ c.ok
           autosaves == mine /\ c.request.kind = "Autosave" /\ c.ok
           after == IF saves THEN MarkSaved(authoring, c)
                    ELSE IF autosaves THEN MarkAutosaved(authoring, c)
                    ELSE authoring
<1>1. /\ completions # <<>>
      /\ authoring' = after
      /\ recovery' = Reconciled(after) \/ recovery' = recovery
      /\ UNCHANGED <<used, lastVersion, admission, channel, running, files>>
  BY DEF ApplyCompletion, clientVars, queueVars, workerVars
<1>2. c \in Completion
  BY <1>1, TailFacts DEF ServiceInv, ServiceTyped
<1>3. mine => authoring # None /\ authoring \in AuthoringSession
  BY MainNumbers DEF BelongsToOpenSession
<1>4. authoring' # None =>
          /\ authoring # None /\ authoring'.session = authoring.session
          /\ authoring'.version = authoring.version
  <2> HIDE DEF mine, c, covered
  <2>1. CASE saves \/ autosaves
    <3>1. /\ authoring # None /\ after.session = authoring.session
          /\ after.version = authoring.version
      BY <1>2, <1>3, <2>1, MarkTypes, MarkKeepsVersion
    <3> QED
      BY <1>1, <3>1
  <2>2. CASE ~saves /\ ~autosaves
    BY <1>1, <2>2
  <2> QED
    BY <2>1, <2>2
<1> HIDE DEF c, mine, covered, saves, autosaves, after
<1>5. \A s \in Sessions : LastReserved(s)' = LastReserved(s)
  BY <1>1 DEF LastReserved
<1>6. ReservationInv' /\ Outstanding' \subseteq Outstanding
  BY <1>1, <1>5, ReservationFrame
<1>7. FilesStep /\ ClockStep
  BY <1>1, MainNumbers DEF FilesStep, ClockStep
<1>8. PointsStep
  BY <1>1, ReconciledPoints DEF PointsStep, ServiceInv
<1>9. VersionInv'
  BY <1>1, <1>4, <1>6, <1>7, <1>8, VersionFrame DEF ServiceInv
<1> QED
  BY <1>6, <1>9

LEMMA DrainRevises ==
    ASSUME LifecycleInv, LifecycleInv', RevisionInv, Drain
    PROVE  RevisionInv'
<1>1. CASE /\ \E reconciles \in BOOLEAN : ApplyCompletion(reconciles)
           /\ UNCHANGED task
  BY <1>1, ApplyRevises
<1>2. CASE /\ task' = [task EXCEPT !.stage = "Finish"]
           /\ UNCHANGED <<openVars, used, lastVersion, persistenceVars>>
  <2>1. UNCHANGED <<authoring, used, lastVersion, channel, running, files, recovery, admission>>
    BY <1>2 DEF openVars, persistenceVars, clientVars, queueVars, workerVars, diskVars
  <2>2. \A s \in Sessions : LastReserved(s)' = LastReserved(s)
    BY <2>1 DEF LastReserved
  <2>3. PICK t \in Task : t = task
    BY TaskFacts DEF LifecycleInv, Drain
  <2>4. task'.stage # "Publish"
    BY <1>2, <2>3 DEF Task
  <2> QED
    BY <2>1, <2>2, <2>4, SilentKeeps
<1> QED
  BY <1>1, <1>2 DEF Drain

LEMMA EditRevises ==
    ASSUME LifecycleInv, LifecycleInv', RevisionInv, Edit
    PROVE  RevisionInv'
<1> USE DEF LifecycleInv, RevisionInv
<1>1. /\ authoring # None
      /\ lastVersion' = lastVersion + 1
      /\ authoring' = [authoring EXCEPT !.version = lastVersion + 1]
      /\ UNCHANGED <<task, used, channel, running, files, recovery, admission>>
  BY DEF Edit, persistenceVars, clientVars, queueVars, workerVars, diskVars
<1>2. \A s \in Sessions : LastReserved(s)' = LastReserved(s)
  BY <1>1 DEF LastReserved
<1>3. ReservationInv' /\ Outstanding' \subseteq Outstanding
  BY <1>1, <1>2, ReservationFrame
<1>4. FilesStep /\ PointsStep /\ ClockStep
  BY <1>1, MainNumbers DEF FilesStep, PointsStep, ClockStep
<1>5. authoring'.session = authoring.session /\ authoring'.version = lastVersion'
  BY <1>1, MainNumbers DEF AuthoringSession
<1>6. VersionInv'
  BY <1>1, <1>3, <1>4, <1>5, VersionFrame DEF ServiceInv
<1> QED
  BY <1>3, <1>6

\* A candidate from the disk is of a session that has written nothing.
LEMMA InstallRevises ==
    ASSUME LifecycleInv, LifecycleInv', RevisionInv, NEW x, x.session \in Fresh,
           x.version \in Nat, x.version <= lastVersion, Install(x)
    PROVE  RevisionInv'
<1> USE DEF LifecycleInv, RevisionInv, VersionInv
<1>1. /\ authoring' = x /\ task' = None /\ lastVersion' = lastVersion
      /\ used' = used \cup {x.session}
      /\ OnlyAdmission(Retired(admission, task.token))
  BY DEF Install
<1>2. /\ UNCHANGED <<channel, running, files, recovery>>
      /\ \A s \in Sessions : LastReserved(s)' = LastReserved(s)
  BY <1>1, OnlyAdmissionReserved
<1>3. ReservationInv' /\ Outstanding' \subseteq Outstanding
  BY <1>2, ReservationFrame
<1>4. FilesStep /\ PointsStep /\ ClockStep /\ WorkStep
  BY <1>1, <1>2, <1>3, MainNumbers DEF FilesStep, PointsStep, ClockStep, WorkStep
<1>5. ServiceTyped /\ ServiceTyped'
  BY DEF ServiceInv
<1>6. VersionsKnown' /\ FreshUnwritten'
  BY <1>4, <1>5, KnownFrame, FreshFrame
<1>7. IsNewest(x) /\ x.session \in Sessions
  BY DEF IsNewest, FreshUnwritten, SavesOf, Fresh
<1>8. IsNewest(x)'
  BY <1>1, <1>3, <1>4, <1>5, <1>7, NewestFrame
<1>9. SessionsNewest'
  BY <1>1, <1>8 DEF SessionsNewest, IsNewest
<1> QED
  BY <1>3, <1>6, <1>9

LEMMA InstallOpenedRevises ==
    ASSUME LifecycleInv, LifecycleInv', RevisionInv, NEW s \in Fresh, InstallOpened(s)
    PROVE  RevisionInv'
<1> DEFINE content == files[task.file]
           x == [session |-> s, project |-> content.project,
                 root |-> task.file, file |-> task.file,
                 version |-> content.version, revision |-> content.revision,
                 saved |-> content.version, autosaved |-> None]
<1>1. task # None /\ task.op = "Open" /\ content # None /\ Install(x)
  BY DEF InstallOpened
<1>2. task.file \in Files
  BY <1>1, TaskFacts DEF LifecycleInv, Shaped
<1>3. content.version \in Nat /\ content.version <= lastVersion
  BY <1>1, <1>2, Numbers DEF RevisionInv, VersionInv, VersionsKnown, LifecycleInv, ServiceInv
<1>4. x.session = s /\ x.version = content.version
  OBVIOUS
<1> HIDE DEF content, x
<1> QED
  BY <1>1, <1>3, <1>4, InstallRevises

LEMMA InstallRecoveredRevises ==
    ASSUME LifecycleInv, LifecycleInv', RevisionInv, NEW s \in Fresh, InstallRecovered(s)
    PROVE  RevisionInv'
<1>1. task # None /\ task.op = "Recover"
  BY DEF InstallRecovered
<1>2. task.file \in Files
  BY <1>1, TaskFacts DEF LifecycleInv, Shaped
<1>3. PICK project \in Projects : \E p \in Recoverable(project, task.file) :
          Install([session |-> s, project |-> project, root |-> task.file,
                   file |-> recovery[project][task.file].file, version |-> p.version,
                   revision |-> p.revision, saved |-> None, autosaved |-> None])
  BY DEF InstallRecovered
<1> DEFINE manifest == recovery[project][task.file]
           x(p) == [session |-> s, project |-> project, root |-> task.file,
                    file |-> manifest.file, version |-> p.version,
                    revision |-> p.revision, saved |-> None, autosaved |-> None]
<1>4. PICK p \in Recoverable(project, task.file) : Install(x(p))
  BY <1>3
<1>5. manifest # None /\ p \in manifest.points
  BY <1>4 DEF Recoverable
<1>6. p.version \in Nat /\ p.version <= lastVersion
  BY <1>2, <1>5, Numbers DEF RevisionInv, VersionInv, VersionsKnown, LifecycleInv, ServiceInv
<1>7. x(p).session = s /\ x(p).version = p.version
  OBVIOUS
<1> HIDE DEF manifest, x
<1> QED
  BY <1>4, <1>6, <1>7, InstallRevises

LEMMA InstallCreatedRevises ==
    ASSUME LifecycleInv, LifecycleInv', RevisionInv, InstallCreated
    PROVE  RevisionInv'
<1> USE DEF LifecycleInv, RevisionInv, VersionInv
<1> DEFINE c == Head(completions)
<1>1. /\ task # None /\ task.stage = "Publish" /\ completions # <<>>
      /\ authoring' = MarkSaved(task.candidate, c)
      /\ admission' = Retired(admission, task.token)
      /\ task' = None
      /\ UNCHANGED <<used, lastVersion, channel, running, files, recovery>>
  BY DEF InstallCreated, queueVars, workerVars, diskVars
<1>2. c \in Completion
  BY <1>1, TailFacts DEF ServiceInv, ServiceTyped
<1> HIDE DEF c
<1>3. PICK x, y : x \in AuthoringSession /\ x = task.candidate /\ y = authoring'
  BY <1>1, TaskFacts DEF Shaped, Creating
<1>4. y.session = x.session /\ y.version = x.version
  BY <1>1, <1>2, <1>3, MarkTypes, MarkKeepsVersion
<1>5. IsNewest(x) /\ x.session \in Sessions /\ x.version \in Nat
  BY <1>1, <1>3, MainNumbers DEF SessionsNewest
<1>6. admission \in AdmissionMap
  BY DEF ServiceInv, ServiceTyped, AdmissionMap
<1>7. \A s \in Sessions : LastReserved(s)' = LastReserved(s)
  BY <1>1, <1>6, AdmissionReserved DEF LastReserved
<1>8. ReservationInv' /\ Outstanding' \subseteq Outstanding
  BY <1>1, <1>7, ReservationFrame
<1>9. FilesStep /\ PointsStep /\ ClockStep /\ WorkStep
  BY <1>1, <1>8, MainNumbers DEF FilesStep, PointsStep, ClockStep, WorkStep
<1>10. ServiceTyped /\ ServiceTyped'
  BY DEF ServiceInv
<1>11. VersionsKnown' /\ FreshUnwritten'
  BY <1>9, <1>10, KnownFrame, FreshFrame
<1>12. y.version <= lastVersion'
  BY <1>1, <1>4, <1>5 DEF IsNewest
<1>13. IsNewest(y)'
  BY <1>4, <1>5, <1>8, <1>9, <1>10, <1>12, NewestFrame
<1>14. SessionsNewest'
  BY <1>1, <1>3, <1>13 DEF SessionsNewest, IsNewest
<1> QED
  BY <1>8, <1>11, <1>14

\* A request of the newest state of its session.
LEMMA SubmitKeeps ==
    ASSUME LifecycleInv, LifecycleInv', RevisionInv, ClockStep,
           NEW r \in RequestRecord, Submit(r),
           r.session \in used', r.version <= lastVersion',
           SavesOf(r, r.session) =>
               /\ LastReserved(r.session) # None => r.revision > LastReserved(r.session)
               /\ \A x \in Outstanding : SavesOf(x, r.session) => x.version <= r.version
               /\ \A f \in Files : WrittenBy(f, r.session) => files[f].version <= r.version
    PROVE  /\ ReservationInv' /\ VersionsKnown' /\ FreshUnwritten' /\ FilesStep
           /\ Outstanding' \subseteq Outstanding \cup {r}
<1> USE DEF LifecycleInv, RevisionInv, VersionInv
<1>1. /\ ReservationInv'
      /\ Outstanding' \subseteq Outstanding \cup {r}
      /\ UNCHANGED <<files, recovery>>
  BY SubmitReserves
<1>2. FilesStep /\ PointsStep /\ WorkStep
  BY <1>1 DEF FilesStep, PointsStep, WorkStep
<1>3. VersionsKnown' /\ FreshUnwritten'
  BY <1>2, KnownFrame, FreshFrame DEF ServiceInv
<1> QED
  BY <1>1, <1>2, <1>3

\* The open session submits what it is.
LEMMA OpenSubmitKeeps ==
    ASSUME LifecycleInv, LifecycleInv', RevisionInv,
           authoring # None, UNCHANGED <<authoring, used, lastVersion>>,
           task' # None => task'.stage # "Publish",
           NEW r \in RequestRecord, Submit(r),
           r.session = authoring.session, r.version = authoring.version,
           SavesOf(r, r.session) /\ LastReserved(r.session) # None =>
               r.revision > LastReserved(r.session)
    PROVE  RevisionInv'
<1> USE DEF LifecycleInv, RevisionInv, VersionInv
<1>1. PICK x : x = authoring
  OBVIOUS
<1>2. IsNewest(x) /\ x.session \in Sessions /\ x.session \in used /\ x.version \in Nat
  BY <1>1, MainNumbers DEF SessionsNewest
<1>3. ClockStep /\ x.version <= lastVersion'
  BY <1>2, MainNumbers DEF ClockStep, IsNewest
<1>4. /\ ReservationInv' /\ VersionsKnown' /\ FreshUnwritten' /\ FilesStep
      /\ Outstanding' \subseteq Outstanding \cup {r}
  BY <1>1, <1>2, <1>3, SubmitKeeps DEF IsNewest
<1>5. IsNewest(x)'
  BY <1>1, <1>2, <1>3, <1>4, NewestFrame DEF ServiceInv
<1>6. SessionsNewest'
  BY <1>1, <1>5 DEF SessionsNewest, IsNewest
<1> QED
  BY <1>4, <1>6

\* A reservation is above the last one (project_persistence.rs:645).
LEMMA ReservedAbove ==
    ASSUME ServiceTyped, NEW s \in Sessions, NEW n \in Nat, LastReserved(s) # None
    PROVE  ReservedRevision(s, n) > LastReserved(s)
BY Numbers DEF ReservedRevision, LastReserved

LEMMA SubmitSaveRevises ==
    ASSUME LifecycleInv, LifecycleInv', RevisionInv, NEW target \in Option(Files),
           SubmitSave(target), task' # None => task'.stage # "Publish"
    PROVE  RevisionInv'
<1> USE DEF LifecycleInv, MainInv, ServiceInv
<1> DEFINE d == Retargeted(target)
           r == ManualRequest(authoring.session, authoring.project, authoring.root,
                              authoring.version, authoring.revision, d)
<1>1. /\ authoring # None /\ CanSubmit(authoring.session) /\ Submit(r)
      /\ UNCHANGED <<authoring, used, lastVersion>>
  BY DEF SubmitSave
<1>2. d \in ManualProjectFileDestination
  BY <1>1, RetargetedType
<1>3. /\ authoring.session \in Sessions /\ authoring.project \in Projects
      /\ authoring.root \in Files /\ authoring.version \in Versions
      /\ authoring.revision \in Nat
  BY <1>1 DEF MainTyped, Option, AuthoringSession
<1>4. nextRequestId <= MaxRequests
  BY <1>1 DEF CanSubmit
<1> HIDE DEF d
<1>5. r \in RequestRecord /\ r.session = authoring.session
  BY <1>2, <1>3, <1>4, ManualRequestType
<1>6. /\ r.version = authoring.version
      /\ r.revision = ReservedRevision(authoring.session, authoring.revision)
  BY DEF ManualRequest
<1> HIDE DEF r
<1>7. LastReserved(r.session) # None => r.revision > LastReserved(r.session)
  BY <1>3, <1>5, <1>6, ReservedAbove
<1> QED
  BY <1>1, <1>5, <1>6, <1>7, OpenSubmitKeeps

LEMMA RequestAutosaveRevises ==
    ASSUME LifecycleInv, LifecycleInv', RevisionInv, RequestAutosave
    PROVE  RevisionInv'
<1> USE DEF LifecycleInv, MainInv, ServiceInv
<1> DEFINE r == AutosaveRequest(authoring.session, authoring.project, authoring.root,
                                authoring.version, authoring.revision, authoring.file)
<1>1. /\ authoring # None /\ CanSubmit(authoring.session) /\ Submit(r)
      /\ task' = None
      /\ UNCHANGED <<authoring, used, lastVersion>>
  BY DEF RequestAutosave, Idle
<1>2. /\ authoring.session \in Sessions /\ authoring.project \in Projects
      /\ authoring.root \in Files /\ authoring.version \in Versions
      /\ authoring.revision \in Nat /\ authoring.file \in Files
  BY <1>1 DEF MainTyped, Option, AuthoringSession
<1>3. nextRequestId <= MaxRequests
  BY <1>1 DEF CanSubmit
<1>4. r \in RequestRecord /\ r.session = authoring.session
  BY <1>2, <1>3, AutosaveRequestType
<1>5. r.version = authoring.version /\ r.kind # "Manual"
  BY DEF AutosaveRequest
<1> HIDE DEF r
<1>6. ~SavesOf(r, r.session)
  BY <1>5 DEF SavesOf
<1> QED
  BY <1>1, <1>4, <1>5, <1>6, OpenSubmitKeeps

\* The first save of a session that has written nothing.
LEMMA CreateSubmitsRevises ==
    ASSUME LifecycleInv, LifecycleInv', RevisionInv, NEW s \in Fresh, CreateSubmits(s)
    PROVE  RevisionInv'
<1> USE DEF LifecycleInv, RevisionInv, VersionInv, ServiceInv
<1> DEFINE d == [revision |-> 1, file |-> task.file, publication |-> "CreateNew"]
           r == ManualRequest(s, s, task.file, lastVersion + 1, 1, d)
           new == [session |-> s, project |-> s, root |-> task.file,
                   file |-> task.file, version |-> lastVersion + 1, revision |-> 1,
                   saved |-> None, autosaved |-> None]
<1>1. /\ task # None /\ task.op = "Create" /\ task.stage = "Finish"
      /\ CanSubmit(s) /\ lastVersion < MaxVersion /\ Submit(r)
      /\ lastVersion' = lastVersion + 1
      /\ used' = used \cup {s}
      /\ task' = [task EXCEPT !.stage = "Publish", !.request = nextRequestId,
                              !.candidate = new]
      /\ authoring' = authoring
  BY DEF CreateSubmits, openVars
<1>2. PICK t \in Task : t = task
  BY <1>1, TaskFacts
<1>3. t.file \in Files
  BY <1>1, <1>2, TaskFacts DEF Shaped
<1>4. s \in Sessions /\ s \in Projects /\ s \notin used
  BY DEF Fresh, Projects
<1>5. lastVersion \in Nat /\ lastVersion + 1 \in Versions
  BY <1>1, MainNumbers, PersistenceAssumption DEF Versions
<1>6. nextRequestId <= MaxRequests
  BY <1>1 DEF CanSubmit
<1>7. d \in ManualProjectFileDestination
  BY <1>2, <1>3 DEF ManualProjectFileDestination, Publications
<1>8. r \in RequestRecord /\ r.session = s
  <2> HIDE DEF d
  <2>1. task.file \in Files /\ 1 \in Nat
    BY <1>2, <1>3
  <2> QED
    BY <1>4, <1>5, <1>6, <1>7, <2>1, ManualRequestType
<1>9. r.version = lastVersion + 1 /\ r.revision = ReservedRevision(s, 1)
  BY DEF ManualRequest
<1>10. new.session = s /\ new.version = lastVersion + 1
  OBVIOUS
<1> HIDE DEF r, d, new
<1>11. ClockStep /\ r.version <= lastVersion' /\ r.session \in used'
  BY <1>1, <1>5, <1>8, <1>9, MainNumbers DEF ClockStep
<1>12. /\ \A x \in Outstanding : ~SavesOf(x, s)
       /\ \A f \in Files : ~WrittenBy(f, s)
  BY DEF FreshUnwritten, SavesOf
<1>13. LastReserved(s) # None => r.revision > LastReserved(s)
  BY <1>4, <1>9, ReservedAbove
<1>14. /\ ReservationInv' /\ VersionsKnown' /\ FreshUnwritten' /\ FilesStep
       /\ Outstanding' \subseteq Outstanding \cup {r}
  BY <1>1, <1>8, <1>11, <1>12, <1>13, SubmitKeeps
<1>15. ASSUME authoring' # None
       PROVE  IsNewest(authoring)'
  <2>1. PICK x : x = authoring
    OBVIOUS
  <2>2. /\ IsNewest(x) /\ x.session \in Sessions /\ x.session \in used
        /\ x.version \in Nat /\ authoring' = x
    BY <1>1, <1>15, <2>1, MainNumbers DEF SessionsNewest
  <2>3. x.version <= lastVersion' /\ ~SavesOf(r, x.session)
    BY <1>4, <1>5, <1>8, <1>11, <2>2 DEF IsNewest, ClockStep, SavesOf
  <2>4. IsNewest(x)'
    BY <1>14, <2>2, <2>3, NewestFrame
  <2> QED
    BY <2>2, <2>4 DEF IsNewest
<1>16. PICK v, n, x : v = lastVersion + 1 /\ n = nextRequestId /\ x = new
  OBVIOUS
<1>17. IsNewest(x)'
  <2>1. x.session = s /\ x.version = v /\ v = lastVersion' /\ v \in Nat
    BY <1>1, <1>5, <1>10, <1>16
  <2>2. \A q \in Outstanding' : SavesOf(q, s) => q.version <= v
    BY <1>9, <1>12, <1>14, <1>16, <1>5
  <2>3. \A f \in Files : ~WrittenBy(f, s)'
    <3>1. UNCHANGED files
      BY <1>1 DEF Submit, diskVars
    <3> QED
      BY <1>12, <3>1 DEF WrittenBy
  <2> QED
    BY <2>1, <2>2, <2>3 DEF IsNewest
<1>18. task' # None => task'.candidate = x
  BY <1>1, <1>2, <1>16 DEF Task
<1>19. SessionsNewest'
  BY <1>15, <1>17, <1>18 DEF SessionsNewest, IsNewest
<1> QED
  BY <1>14, <1>19

-----------------------------------------------------------------------------
\* The theorem.

LEMMA InitRevision == Init => RevisionInv
<1> SUFFICES ASSUME Init
             PROVE  RevisionInv
  OBVIOUS
<1> USE DEF Init, PersistenceInit
<1>1. DOMAIN channel = {} /\ running = None /\ Outstanding = {}
  BY DEF Outstanding
<1>2. \A f \in Files : files[f] # None => files[f].session = None /\ files[f].version = 0
  BY DEF ProjectFile
<1>3. \A s \in Sessions, f \in Files : ~WrittenBy(f, s)
  BY <1>2, NoneFacts DEF WrittenBy
<1>4. ReservationInv
  BY <1>1, <1>3 DEF ReservationInv, ReservationsCounted, ChannelOrdered, RunningFirst, DiskFirst
<1>5. VersionsKnown
  BY <1>1, <1>2 DEF VersionsKnown
<1>6. SessionsNewest /\ FreshUnwritten
  BY <1>1, <1>3 DEF SessionsNewest, FreshUnwritten, Fresh
<1> QED
  BY <1>4, <1>5, <1>6 DEF RevisionInv, VersionInv

LEMMA HandlerRevises ==
    ASSUME LifecycleInv, LifecycleInv', RevisionInv, HandlerStep
    PROVE  RevisionInv'
<1>1. CASE BeginClose \/ HandoffQuiesced \/ HandoffTimesOut \/ Drain
  BY <1>1, BeginCloseRevises, WaitRevises, DrainRevises
<1>2. CASE \E s \in Fresh : InstallOpened(s) \/ InstallRecovered(s) \/ CreateSubmits(s)
  BY <1>2, InstallOpenedRevises, InstallRecoveredRevises, CreateSubmitsRevises
<1>3. CASE HandoffFails \/ FinishClose \/ RejectClose
  BY <1>3, EndRevises
<1>4. CASE CreateAppliesOther \/ InstallCreated \/ CreateFails
  <2>1. CASE CreateAppliesOther
    BY <2>1, ApplyRevises DEF CreateAppliesOther
  <2> QED
    BY <1>4, <2>1, InstallCreatedRevises, CreateFailsRevises
<1>5. CASE BeginDiscard \/ Discard \/ EndDiscard
  BY <1>5, BeginDiscardRevises, WaitRevises, EndDiscardRevises
<1> QED
  BY <1>1, <1>2, <1>3, <1>4, <1>5 DEF HandlerStep

LEMMA UserRevises ==
    ASSUME LifecycleInv, LifecycleInv', RevisionInv, UserStep
    PROVE  RevisionInv'
<1>1. CASE Edit \/ RequestAutosave \/ BeginClose \/ ForceClose
  BY <1>1, EditRevises, RequestAutosaveRevises, BeginCloseRevises, EndRevises
<1>2. CASE \E target \in Option(Files) : RequestSave(target)
  <2>1. PICK target \in Option(Files) : SubmitSave(target) /\ UNCHANGED task
    BY <1>2 DEF RequestSave
  <2>2. task' = None
    BY <2>1 DEF SubmitSave, Idle
  <2> QED
    BY <2>1, <2>2, SubmitSaveRevises
<1>3. CASE SaveThenClose
  <2>1. /\ SubmitSave(None) /\ None \in Option(Files)
        /\ task' = [NewTask("SaveThenClose", "BeginClose") EXCEPT !.request = nextRequestId]
    BY <1>3 DEF SaveThenClose, Option
  <2>2. task'.stage # "Publish"
    BY <2>1 DEF NewTask
  <2> QED
    BY <2>1, <2>2, SubmitSaveRevises
<1>4. CASE \E op \in {"Open", "Recover", "Create"}, f \in Files : BeginHandoff(op, f)
  BY <1>4, BeginHandoffRevises
<1>5. CASE BeginHandoff("CloseNow", None)
  BY <1>5, BeginHandoffRevises
<1> QED
  BY <1>1, <1>2, <1>3, <1>4, <1>5 DEF UserStep

\* Every step keeps the order of reservations and of versions.
LEMMA NextRevises ==
    ASSUME LifecycleInv, RevisionInv, [Next]_vars
    PROVE  RevisionInv'
<1>1. LifecycleInv'
  BY NextKeeps
<1>2. CASE Worker \/ Panic
  BY <1>1, <1>2, WorkerRevises, PanicRevises
<1>3. CASE PollCompletion
  BY <1>1, <1>3, ApplyRevises DEF PollCompletion
<1>4. CASE PollCloseQuiesced \/ PollCloseFaults
  BY <1>1, <1>4, PollCloseRevises
<1>5. CASE HandlerStep
  BY <1>1, <1>5, HandlerRevises
<1>6. CASE UserStep
  BY <1>1, <1>6, UserRevises
<1>7. CASE \E f \in Files : ExternalCreates(f)
  BY <1>1, <1>7, ExternalRevises
<1>8. CASE UNCHANGED vars
  <2>1. UNCHANGED <<channel, running, files, recovery, admission, lastVersion, used,
                    authoring, task>>
    BY <1>8 DEF vars, persistenceVars, mainVars, openVars, clientVars, queueVars,
                workerVars, diskVars
  <2>2. \A s \in Sessions : LastReserved(s)' = LastReserved(s)
    BY <2>1 DEF LastReserved
  <2> QED
    BY <1>1, <2>1, <2>2, SilentKeeps
<1> QED
  BY <1>2, <1>3, <1>4, <1>5, <1>6, <1>7, <1>8 DEF Next

\* Only the worker and other programs change the project files.
LEMMA FilesWriters ==
    ASSUME LifecycleInv, [Next]_vars, files' # files
    PROVE  Worker \/ \E g \in Files : ExternalCreates(g)
<1>1. CASE Panic
  BY <1>1 DEF Panic, WorkerPanics, diskVars
<1>2. CASE PollCompletion \/ PollCloseQuiesced \/ PollCloseFaults
  BY <1>2 DEF PollCompletion, ApplyCompletion, PollCloseQuiesced, PollCloseFaults,
              CompletePause, PoisonPause, diskVars
<1>3. CASE HandlerStep
  <2>1. CASE BeginClose \/ HandoffQuiesced \/ HandoffTimesOut \/ BeginDiscard \/ Discard
    BY <2>1 DEF BeginClose, HandoffQuiesced, HandoffTimesOut, BeginDiscard, Discard,
                BeginPause, CompletePause, PoisonPause, diskVars
  <2>2. CASE Drain \/ CreateAppliesOther
    BY <2>2 DEF Drain, CreateAppliesOther, ApplyCompletion, persistenceVars, diskVars
  <2>3. CASE \E s \in Fresh : InstallOpened(s) \/ InstallRecovered(s) \/ CreateSubmits(s)
    BY <2>3 DEF InstallOpened, InstallRecovered, CreateSubmits, Install, OnlyAdmission,
                Submit, diskVars
  <2>4. CASE HandoffFails \/ FinishClose \/ RejectClose \/ EndDiscard
    BY <2>4 DEF HandoffFails, FinishClose, RejectClose, EndDiscard, OnlyAdmission, diskVars
  <2>5. CASE InstallCreated \/ CreateFails
    BY <2>5 DEF InstallCreated, CreateFails, diskVars
  <2> QED
    BY <1>3, <2>1, <2>2, <2>3, <2>4, <2>5 DEF HandlerStep
<1>4. CASE UserStep
  <2>1. CASE Edit \/ ForceClose \/ BeginClose
    BY <2>1 DEF Edit, ForceClose, BeginClose, OnlyAdmission, BeginPause, persistenceVars,
                diskVars
  <2>2. CASE RequestAutosave \/ SaveThenClose \/ \E target \in Option(Files) : RequestSave(target)
    BY <2>2 DEF RequestAutosave, SaveThenClose, RequestSave, SubmitSave, Submit, diskVars
  <2>3. CASE \/ \E op \in {"Open", "Recover", "Create"}, f \in Files : BeginHandoff(op, f)
             \/ BeginHandoff("CloseNow", None)
    BY <2>3 DEF BeginHandoff, BeginPause, persistenceVars, diskVars
  <2> QED
    BY <1>4, <2>1, <2>2, <2>3 DEF UserStep
<1>5. CASE UNCHANGED vars
  BY <1>5 DEF vars, persistenceVars, diskVars
<1> QED
  BY <1>1, <1>2, <1>3, <1>4, <1>5 DEF Next

\* The only step by which a session writes over its own file is the worker's.
LEMMA FilesChange ==
    ASSUME LifecycleInv, [Next]_vars, files' # files
    PROVE  \/ /\ running # None /\ running.kind = "Manual"
              /\ files' = [files EXCEPT ![running.file] = Published(running)]
           \/ \E g \in Files : files[g] = None /\ \A f \in Files : f # g => files'[f] = files[f]
<1>1. CASE Worker
  BY <1>1 DEF Worker, WorkerStep, TakeRequest, ServeBarrier, PublishManual, RejectManual,
              PublishAutosave, Published, diskVars
<1>2. CASE \E g \in Files : ExternalCreates(g)
  BY <1>2 DEF ExternalCreates, LifecycleInv, ServiceInv, ServiceTyped
<1> QED
  BY <1>1, <1>2, FilesWriters

\* A session that writes over a file of its own raises its document revision
\* and never goes back to an older version (project_persistence.rs:645).
THEOREM RevisionsOnlyIncrease == SafetySpec => ManualRevisionsIncrease
<1> DEFINE Increase ==
        \A f \in Files :
            LET old == files[f] new == files'[f] IN
            old # new /\ old # None /\ old.session = new.session =>
                /\ new.revision > old.revision
                /\ new.version >= old.version
<1>1. Init => RevisionInv
  BY InitRevision
<1>2. LifecycleInv /\ RevisionInv /\ [Next]_vars => RevisionInv'
  BY NextRevises
<1>3. LifecycleInv /\ RevisionInv /\ [Next]_vars => [Increase]_vars
  <2> SUFFICES ASSUME LifecycleInv, RevisionInv, [Next]_vars,
                      NEW f \in Files, files[f] # files'[f], files[f] # None,
                      files[f].session = files'[f].session
               PROVE  files'[f].revision > files[f].revision
                      /\ files'[f].version >= files[f].version
    OBVIOUS
  <2>1. /\ running # None /\ running.kind = "Manual"
        /\ files' = [files EXCEPT ![running.file] = Published(running)]
    BY FilesChange
  <2>2. running \in Outstanding
    BY <2>1, OutstandingFacts DEF LifecycleInv, ServiceInv
  <2>3. files'[f] = Published(running)
    BY <2>1 DEF LifecycleInv, ServiceInv, ServiceTyped
  <2>4. /\ SavesOf(running, running.session) /\ WrittenBy(f, running.session)
        /\ running.session \in Sessions
    BY <2>1, <2>2, <2>3, Numbers DEF SavesOf, WrittenBy, Published, LifecycleInv, ServiceInv
  <2>5. Before(files[f], running)
    BY <2>2, <2>4 DEF RevisionInv, ReservationInv, DiskFirst
  <2>6. /\ files[f].revision \in Nat /\ files[f].version \in Nat
        /\ running.revision \in Nat /\ running.version \in Nat
    BY <2>2, Numbers DEF LifecycleInv, ServiceInv
  <2> QED
    BY <2>3, <2>5, <2>6 DEF Before, Published
<1>4. SafetySpec => [][Increase]_vars
  BY <1>1, <1>2, <1>3, LifecycleInvariance, PTL DEF SafetySpec
<1> QED
  BY <1>4 DEF ManualRevisionsIncrease

=============================================================================
