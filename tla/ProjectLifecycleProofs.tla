------------------------- MODULE ProjectLifecycleProofs -------------------------
(***************************************************************************)
(* Proofs about the Project lifecycle and its persistence service, for     *)
(* every set of sessions and paths, every queue capacity and every bound.  *)
(*                                                                         *)
(* The invariant joins the types with what the handlers carry while they   *)
(* wait and with the order of barriers in the channel: a session's barrier *)
(* stands behind everything it has submitted, and nothing is submitted     *)
(* behind it.                                                              *)
(***************************************************************************)
EXTENDS ProjectLifecycleProperties, SequenceTheorems, FiniteSetTheorems, TLAPS

-----------------------------------------------------------------------------
\* The inductive invariant.

Phase(s) == admission[s].phase
Generation(s) == admission[s].generation

\* The worker thread executes only while it lives; a panic leaves it nothing.
WorkerAlive ==
    /\ running # None => workerLive
    /\ ~workerLive => channel = <<>>

\* The stages of a creation that has submitted its first save.
Creating == {"Publish", "BeginDiscard", "Discard", "EndDiscard"}

\* What a handler carries while it waits.
Shaped(t) ==
    /\ t.op \in {"Open", "Recover", "Create"} => t.file \in Files
    /\ t.stage \in Creating =>
           /\ t.file \in Files
           /\ t.request \in RequestIds
           /\ t.candidate \in AuthoringSession
           /\ t.candidate.session \in used \ {t.token}
           /\ t.stage \in {"Publish", "BeginDiscard"} =>
                  Phase(t.candidate.session) = "Open"
    /\ t.stage = "Quiesce" => t.token \in Sessions
    /\ t.token # None =>
           /\ t.token \in used
           /\ Generation(t.token) < MaxGeneration
           /\ t.stage # "Quiesce" => Phase(t.token) = "Paused"

TaskShaped == task # None => Shaped(task)

\* The sessions the main thread speaks of have existed, and a close is pending
\* between two handlers only.
SessionsUsed ==
    /\ task # None => close = None
    /\ authoring # None => authoring.session \in used
    /\ close # None =>
           /\ close.session \in used
           /\ Generation(close.session) < MaxGeneration

\* A barrier of the current generation of its session: nothing of that session
\* stands behind it, and the session neither submits nor is paused already.
BarriersInOrder ==
    \A s \in Sessions : \A i \in DOMAIN channel :
        channel[i].kind = "Barrier" /\ channel[i].session = s =>
            /\ channel[i].generation <= Generation(s)
            /\ channel[i].generation = Generation(s) =>
                   /\ Phase(s) \notin {"Open", "Paused"}
                   /\ <<s, Generation(s)>> \notin acknowledged
                   /\ \A j \in DOMAIN channel : j > i => channel[j].session # s

\* An acknowledgement nobody has received: the session is idle.
AcknowledgedAreIdle ==
    \A s \in Sessions :
        /\ \A a \in acknowledged : a[1] = s => a[2] <= Generation(s)
        /\ <<s, Generation(s)>> \in acknowledged =>
               /\ Phase(s) \notin {"Open", "Paused"}
               /\ \A r \in Outstanding : r.session # s

\* The first half of QuiescedSessionsAreIdle, about the service alone.
OutstandingAdmitted ==
    \A r \in Outstanding :
        /\ Phase(r.session) # "Paused"
        /\ Phase(r.session) \in {"Open", "Pausing"} =>
               r.generation = Generation(r.session)

\* The second half: what is left to apply behind a handler that has drained.
FinishDrained ==
    task # None /\ task.stage = "Finish" =>
        \A i \in DOMAIN completions : completions[i].request.session # task.token

\* What holds of the service whoever calls it, and of the main thread above it.
ServiceInv ==
    /\ ServiceTyped
    /\ CountersMatchWork
    /\ WorkerAlive
    /\ BarriersInOrder
    /\ AcknowledgedAreIdle
    /\ OutstandingAdmitted

MainInv ==
    /\ MainTyped
    /\ TaskShaped
    /\ SessionsUsed
    /\ FinishDrained

LifecycleInv == ServiceInv /\ MainInv

-----------------------------------------------------------------------------
\* Constants and sequences.

LEMMA NoneFacts ==
    /\ None \notin Nat
    /\ None \notin Sessions
    /\ None \notin Projects
    /\ None \notin Files
    /\ None \notin RequestRecord
BY PersistenceAssumption, NoneAssumption DEF Projects

\* The last element of a sequence stands behind all others.
LEMMA AppendFacts ==
    ASSUME NEW S, NEW q \in Seq(S), NEW e \in S
    PROVE  /\ Append(q, e) \in Seq(S)
           /\ DOMAIN Append(q, e) = DOMAIN q \cup {Len(q) + 1}
           /\ Len(q) + 1 \notin DOMAIN q
           /\ DOMAIN q \subseteq Nat
           /\ \A i \in DOMAIN q : Append(q, e)[i] = q[i] /\ i <= Len(q)
           /\ Append(q, e)[Len(q) + 1] = e
           /\ Len(q) + 1 \in Nat
BY AppendProperties

\* Behind its head a sequence moves up by one.
LEMMA TailFacts ==
    ASSUME NEW S, NEW q \in Seq(S), q # <<>>
    PROVE  /\ Tail(q) \in Seq(S)
           /\ 1 \in DOMAIN q
           /\ Head(q) = q[1]
           /\ Head(q) \in S
           /\ DOMAIN q \subseteq Nat
           /\ \A i \in DOMAIN q : i >= 1
           /\ \A i \in DOMAIN Tail(q) : i + 1 \in DOMAIN q /\ Tail(q)[i] = q[i + 1]
           /\ \A i \in DOMAIN q : i # 1 =>
                  i - 1 \in DOMAIN Tail(q) /\ Tail(q)[i - 1] = q[i]
<1>1. Len(q) \in Nat /\ Len(q) # 0 /\ DOMAIN q = 1 .. Len(q)
  OBVIOUS
<1>2. /\ Tail(q) \in Seq(S)
      /\ Len(Tail(q)) = Len(q) - 1
      /\ \A i \in 1 .. Len(Tail(q)) : Tail(q)[i] = q[i + 1]
      /\ Head(q) \in S
  BY HeadTailProperties
<1>3. DOMAIN Tail(q) = 1 .. Len(q) - 1
  BY <1>2
<1>4. Head(q) = q[1]
  OBVIOUS
<1>5. \A i \in DOMAIN q : i # 1 => i - 1 \in 1 .. Len(q) - 1 /\ (i - 1) + 1 = i
  BY <1>1
<1>6. \A i \in DOMAIN Tail(q) : i + 1 \in DOMAIN q
  BY <1>1, <1>3
<1> QED
  BY <1>1, <1>2, <1>3, <1>4, <1>5, <1>6

\* The positions of a channel that hold work.
Work(q) == {i \in DOMAIN q : q[i].kind # "Barrier"}

LEMMA WorkIsFinite ==
    ASSUME NEW S, NEW q \in Seq(S)
    PROVE  IsFiniteSet(Work(q)) /\ Cardinality(Work(q)) \in Nat
<1>1. IsFiniteSet(1 .. Len(q))
  BY FS_Interval
<1>2. Work(q) \in SUBSET (1 .. Len(q))
  BY DEF Work
<1>3. IsFiniteSet(Work(q))
  BY <1>1, <1>2, FS_Subset
<1> QED
  BY <1>3, FS_CardinalityType

LEMMA WorkAppend ==
    ASSUME NEW S, NEW q \in Seq(S), NEW e \in S
    PROVE  Cardinality(Work(Append(q, e))) =
               Cardinality(Work(q)) + (IF e.kind # "Barrier" THEN 1 ELSE 0)
<1>1. CASE e.kind # "Barrier"
  <2>1. Work(Append(q, e)) = Work(q) \cup {Len(q) + 1}
    BY <1>1, AppendFacts DEF Work
  <2>2. Len(q) + 1 \notin Work(q)
    BY AppendFacts DEF Work
  <2> QED
    BY <1>1, <2>1, <2>2, WorkIsFinite, FS_AddElement
<1>2. CASE e.kind = "Barrier"
  <2>1. Work(Append(q, e)) = Work(q)
    BY <1>2, AppendFacts DEF Work
  <2> QED
    BY <1>2, <2>1, WorkIsFinite
<1> QED
  BY <1>1, <1>2

LEMMA WorkTail ==
    ASSUME NEW S, NEW q \in Seq(S), q # <<>>
    PROVE  Cardinality(Work(Tail(q))) =
               Cardinality(Work(q)) - (IF Head(q).kind # "Barrier" THEN 1 ELSE 0)
<1> DEFINE up == [i \in Work(Tail(q)) |-> i + 1]
<1>1. ExistsBijection(Work(Tail(q)), Work(q) \ {1})
  <2>1. \A i \in Work(Tail(q)) : i + 1 \in Work(q) \ {1}
    BY TailFacts DEF Work
  <2>2. \A i \in Work(q) \ {1} : i - 1 \in Work(Tail(q)) /\ (i - 1) + 1 = i
    BY TailFacts DEF Work
  <2>3. Work(Tail(q)) \subseteq Nat
    <3>1. Tail(q) \in Seq(S)
      BY TailFacts
    <3> QED
      BY <3>1 DEF Work
  <2>4. up \in [Work(Tail(q)) -> Work(q) \ {1}]
    BY <2>1
  <2>5. \A i, j \in Work(Tail(q)) : up[i] = up[j] => i = j
    BY <2>3
  <2>6. \A i \in Work(q) \ {1} : \E j \in Work(Tail(q)) : up[j] = i
    BY <2>2
  <2>7. up \in Bijection(Work(Tail(q)), Work(q) \ {1})
    BY <2>4, <2>5, <2>6 DEF Bijection, Injection, Surjection, IsInjective
  <2> QED
    BY <2>7 DEF ExistsBijection
<1>2. Cardinality(Work(q) \ {1}) = Cardinality(Work(Tail(q)))
  BY <1>1, TailFacts, WorkIsFinite, FS_Bijection
<1>3. 1 \in Work(q) <=> Head(q).kind # "Barrier"
  BY TailFacts DEF Work
<1>4. /\ IsFiniteSet(Work(q))
      /\ Cardinality(Work(q)) \in Nat
  BY WorkIsFinite
<1>5. Cardinality(Work(q) \ {1}) =
          IF 1 \in Work(q) THEN Cardinality(Work(q)) - 1 ELSE Cardinality(Work(q))
  BY <1>4, FS_RemoveElement
<1> QED
  BY <1>2, <1>3, <1>4, <1>5

-----------------------------------------------------------------------------
\* The service and its worker: every step keeps ServiceInv.

LEMMA OutstandingFacts ==
    ASSUME ServiceTyped
    PROVE  /\ \A x : x \in Outstanding <=>
                  \/ \E i \in DOMAIN channel : channel[i] = x /\ x.kind # "Barrier"
                  \/ x = running /\ running # None
           /\ Outstanding \subseteq RequestRecord
           /\ \A i \in DOMAIN channel :
                  /\ channel[i].session \in Sessions
                  /\ channel[i].generation \in Nat
                  /\ channel[i].kind = "Barrier" => channel[i] \in Barrier
                  /\ channel[i].kind # "Barrier" => channel[i] \in RequestRecord
<1>1. \A x : x \in Outstanding <=>
          \/ \E i \in DOMAIN channel : channel[i] = x /\ x.kind # "Barrier"
          \/ x = running /\ running # None
  BY DEF Outstanding
<1>2. \A i \in DOMAIN channel : channel[i] \in RequestRecord \cup Barrier
  BY DEF ServiceTyped
<1>3. \A x \in RequestRecord : x.kind # "Barrier" /\ x.session \in Sessions /\ x.generation \in Nat
  BY DEF RequestRecord
<1>4. \A x \in Barrier : x.kind = "Barrier" /\ x.session \in Sessions /\ x.generation \in Nat
  BY DEF Barrier
<1>5. running \in RequestRecord \cup {None}
  BY DEF ServiceTyped, Option
<1> QED
  BY <1>1, <1>2, <1>3, <1>4, <1>5

LEMMA AdmissionFacts ==
    ASSUME ServiceTyped, NEW s \in Sessions
    PROVE  /\ Phase(s) \in Phases
           /\ Generation(s) \in 0 .. MaxGeneration
           /\ Generation(s) \in Nat
           /\ admission[s].lastReserved \in Option(Nat)
BY LifecycleAssumption DEF ServiceTyped, Phase, Generation

\* A request is admitted into an open session only, behind all its others.
LEMMA SubmitService ==
    ASSUME ServiceInv, NEW r \in RequestRecord,
           r.generation = Generation(r.session),
           CanSubmit(r.session), Submit(r)
    PROVE  /\ ServiceInv'
           /\ \A s \in Sessions :
                  Phase(s)' = Phase(s) /\ Generation(s)' = Generation(s)
<1> USE DEF ServiceInv
<1>1. /\ r.session \in Sessions
      /\ r.kind \in {"Manual", "Autosave"}
      /\ r.revision \in Nat
  BY DEF RequestRecord
<1>2. \A s \in Sessions : Phase(s)' = Phase(s) /\ Generation(s)' = Generation(s)
  BY <1>1 DEF Submit, ServiceTyped, Phase, Generation
<1>3. /\ channel' = Append(channel, r)
      /\ channel \in Seq(RequestRecord \cup Barrier)
      /\ UNCHANGED <<acknowledged, workerLive, running>>
  BY DEF Submit, ServiceTyped, workerVars
<1>4. /\ channel' \in Seq(RequestRecord \cup Barrier)
      /\ DOMAIN channel' = DOMAIN channel \cup {Len(channel) + 1}
      /\ \A i \in DOMAIN channel : channel'[i] = channel[i]
      /\ channel'[Len(channel) + 1] = r
  BY <1>3, AppendFacts
<1>5. Phase(r.session) = "Open"
  BY DEF CanSubmit, Phase
<1>6. ServiceTyped'
  <2>1. admission' \in [Sessions -> [phase : Phases, generation : 0 .. MaxGeneration,
                                     lastReserved : Option(Nat)]]
    BY <1>1 DEF Submit, ServiceTyped, Option
  <2>2. nextRequestId' \in 1 .. MaxRequests + 1
    BY PersistenceAssumption DEF Submit, ServiceTyped, CanSubmit
  <2>3. queued' \in Nat /\ pending' \in Nat
    BY DEF Submit, ServiceTyped
  <2> QED
    BY <1>4, <2>1, <2>2, <2>3 DEF Submit, ServiceTyped, workerVars, diskVars
<1>7. CountersMatchWork'
  <2>1. Cardinality(Work(channel')) = Cardinality(Work(channel)) + 1
    BY <1>1, <1>3, WorkAppend
  <2>2. workerLive => queued = Cardinality(Work(channel)) /\ queued + 1 <= QueueCapacity
    BY PersistenceAssumption DEF CountersMatchWork, Work, CanSubmit, ServiceTyped
  <2>3. workerLive' => queued' = Cardinality(Work(channel')) /\ queued' <= QueueCapacity
    BY <1>3, <2>1, <2>2 DEF Submit
  <2>4. workerLive' => pending' = queued' + (IF running' = None THEN 0 ELSE 1)
    BY <1>3 DEF Submit, CountersMatchWork, ServiceTyped
  <2> QED
    BY <2>3, <2>4 DEF CountersMatchWork, Work
<1>8. WorkerAlive'
  BY <1>3 DEF CanSubmit, WorkerAlive
<1>9. BarriersInOrder'
  <2>1. \A i \in DOMAIN channel' : channel'[i].kind = "Barrier" =>
            i \in DOMAIN channel /\ channel'[i] = channel[i]
    BY <1>1, <1>4
  <2>2. \A s \in Sessions : \A j \in DOMAIN channel' :
            Phase(s) # "Open" => j \in DOMAIN channel \/ channel'[j].session # s
    BY <1>4, <1>5
  <2> QED
    BY <1>2, <1>3, <1>4, <2>1, <2>2 DEF BarriersInOrder
<1>10. \A x \in Outstanding' : x \in Outstanding \/ x = r
  <2>1. \A x \in Outstanding' :
            \/ \E i \in DOMAIN channel' : channel'[i] = x /\ x.kind # "Barrier"
            \/ x = running /\ running # None
    BY <1>3 DEF Outstanding
  <2>2. \A x : (\E i \in DOMAIN channel' : channel'[i] = x) =>
            x = r \/ \E i \in DOMAIN channel : channel[i] = x
    BY <1>4
  <2> QED
    BY <2>1, <2>2, OutstandingFacts
<1>11. AcknowledgedAreIdle'
  BY <1>2, <1>3, <1>5, <1>10 DEF AcknowledgedAreIdle
<1>12. OutstandingAdmitted'
  <2>1. \A x \in Outstanding : x.session \in Sessions
    BY OutstandingFacts DEF RequestRecord
  <2> QED
    BY <1>1, <1>2, <1>5, <1>10, <2>1 DEF OutstandingAdmitted
<1> QED
  BY <1>2, <1>6, <1>7, <1>8, <1>9, <1>11, <1>12

\* The main thread may retire or poison a session at any time, and take up a
\* paused one again in a new generation.
LEMMA AdmissionService ==
    ASSUME ServiceInv,
           UNCHANGED <<nextRequestId, queueVars, acknowledged, workerVars>>,
           admission' \in [Sessions -> [phase : Phases, generation : 0 .. MaxGeneration,
                                        lastReserved : Option(Nat)]],
           completions' \in Seq(Completion),
           files' \in [Files -> Option(Content)],
           recovery' \in [Projects -> [Files -> Option(Manifest)]],
           \A s \in Sessions :
               \/ Generation(s)' = Generation(s) /\ Phase(s)' = Phase(s)
               \/ Generation(s)' = Generation(s) /\ Phase(s)' \in {"Retired", "Poisoned"}
               \/ Generation(s)' > Generation(s) /\ Phase(s) = "Paused"
    PROVE  ServiceInv'
<1> USE DEF ServiceInv
<1>1. UNCHANGED <<queued, pending, channel, acknowledged, workerLive, running,
                  createBindings, lastSuccessful, nextRequestId>>
  BY DEF queueVars, workerVars
<1>2. ServiceTyped'
  BY <1>1 DEF ServiceTyped
<1>3. CountersMatchWork'
  BY <1>1 DEF CountersMatchWork
<1>4. WorkerAlive'
  BY <1>1 DEF WorkerAlive
<1>5. Outstanding' = Outstanding
  BY <1>1 DEF Outstanding
<1>6. \A s \in Sessions :
        /\ Generation(s) \in Nat /\ Generation(s)' \in Nat
        /\ Generation(s) <= Generation(s)'
        /\ Generation(s)' = Generation(s) =>
               Phase(s)' = Phase(s) \/ Phase(s)' \in {"Retired", "Poisoned"}
  <2>1. \A s \in Sessions : Generation(s) \in Nat /\ Generation(s)' \in Nat
    BY LifecycleAssumption DEF ServiceTyped, Generation
  <2> QED
    BY <2>1
<1>7. BarriersInOrder'
  <2> SUFFICES ASSUME NEW s \in Sessions, NEW i \in DOMAIN channel,
                      channel[i].kind = "Barrier", channel[i].session = s
               PROVE  /\ channel[i].generation <= Generation(s)'
                      /\ channel[i].generation = Generation(s)' =>
                             /\ Phase(s)' \notin {"Open", "Paused"}
                             /\ <<s, Generation(s)'>> \notin acknowledged
                             /\ \A j \in DOMAIN channel : j > i => channel[j].session # s
    BY <1>1 DEF BarriersInOrder
  <2>1. channel[i].generation \in Nat
    BY OutstandingFacts
  <2>2. channel[i].generation <= Generation(s)
    BY DEF BarriersInOrder
  <2>3. CASE Generation(s)' = Generation(s)
    BY <1>6, <2>1, <2>2, <2>3 DEF BarriersInOrder
  <2>4. CASE Generation(s)' # Generation(s)
    BY <1>6, <2>1, <2>2, <2>4
  <2> QED
    BY <2>3, <2>4
<1>8. AcknowledgedAreIdle'
  <2> SUFFICES ASSUME NEW s \in Sessions
               PROVE  /\ \A a \in acknowledged : a[1] = s => a[2] <= Generation(s)'
                      /\ <<s, Generation(s)'>> \in acknowledged =>
                             /\ Phase(s)' \notin {"Open", "Paused"}
                             /\ \A r \in Outstanding : r.session # s
    BY <1>1, <1>5 DEF AcknowledgedAreIdle
  <2>1. \A a \in acknowledged : a[2] \in Nat
    BY DEF ServiceTyped
  <2>2. \A a \in acknowledged : a[1] = s => a[2] <= Generation(s)
    BY DEF AcknowledgedAreIdle
  <2>3. \A a \in acknowledged : a[1] = s => a[2] <= Generation(s)'
    BY <1>6, <2>1, <2>2
  <2>4. CASE Generation(s)' = Generation(s)
    BY <1>6, <2>3, <2>4 DEF AcknowledgedAreIdle
  <2>5. CASE Generation(s)' # Generation(s)
    <3>1. <<s, Generation(s)'>> \notin acknowledged
      BY <1>6, <2>2, <2>5
    <3> QED
      BY <2>3, <3>1
  <2> QED
    BY <2>4, <2>5
<1>9. OutstandingAdmitted'
  <2>1. \A r \in Outstanding : r.session \in Sessions
    BY OutstandingFacts DEF RequestRecord
  <2> SUFFICES ASSUME NEW r \in Outstanding, NEW s \in Sessions, r.session = s
               PROVE  /\ Phase(s)' # "Paused"
                      /\ Phase(s)' \in {"Open", "Pausing"} => r.generation = Generation(s)'
    BY <1>5, <2>1 DEF OutstandingAdmitted
  <2>2. /\ Phase(s) # "Paused"
        /\ Phase(s) \in {"Open", "Pausing"} => r.generation = Generation(s)
    BY DEF OutstandingAdmitted
  <2>3. Generation(s)' = Generation(s)
    BY <2>2
  <2> QED
    BY <1>6, <2>2, <2>3
<1> QED
  BY <1>2, <1>3, <1>4, <1>7, <1>8, <1>9

\* Closing admission puts a barrier behind everything the session submitted.
LEMMA BeginPauseService ==
    ASSUME ServiceInv, NEW s \in Sessions, Phase(s) = "Open", BeginPause(s)
    PROVE  /\ ServiceInv'
           /\ Phase(s)' = IF workerLive THEN "Pausing" ELSE "Poisoned"
           /\ \A o \in Sessions :
                  /\ Generation(o)' = Generation(o)
                  /\ o # s => Phase(o)' = Phase(o)
<1> USE DEF ServiceInv
<1>1. /\ admission' = [admission EXCEPT ![s].phase =
                          IF workerLive THEN "Pausing" ELSE "Poisoned"]
      /\ admission' \in [Sessions -> [phase : Phases, generation : 0 .. MaxGeneration,
                                      lastReserved : Option(Nat)]]
  BY DEF BeginPause, ServiceTyped, Phases
<1>2. /\ Phase(s)' = IF workerLive THEN "Pausing" ELSE "Poisoned"
      /\ \A o \in Sessions :
             /\ Generation(o)' = Generation(o)
             /\ o # s => Phase(o)' = Phase(o)
  BY <1>1 DEF ServiceTyped, Phase, Generation
<1>3. CASE ~workerLive
  <2>1. UNCHANGED <<nextRequestId, queueVars, acknowledged, workerVars, completions,
                    files, recovery>>
    BY <1>3 DEF BeginPause, queueVars, diskVars
  <2>2. \A o \in Sessions :
            \/ Generation(o)' = Generation(o) /\ Phase(o)' = Phase(o)
            \/ Generation(o)' = Generation(o) /\ Phase(o)' \in {"Retired", "Poisoned"}
    BY <1>2, <1>3
  <2>3. /\ completions' \in Seq(Completion)
        /\ files' \in [Files -> Option(Content)]
        /\ recovery' \in [Projects -> [Files -> Option(Manifest)]]
    BY <2>1 DEF ServiceTyped
  <2>4. ServiceInv'
    BY <1>1, <2>1, <2>2, <2>3, AdmissionService
  <2> QED
    BY <1>2, <2>4
<1>4. CASE workerLive
  <2> DEFINE b == [kind |-> "Barrier", session |-> s, generation |-> Generation(s)]
  <2>1. b \in Barrier
    BY AdmissionFacts DEF Barrier
  <2>2. /\ channel' = Append(channel, b)
        /\ channel \in Seq(RequestRecord \cup Barrier)
        /\ UNCHANGED <<nextRequestId, queued, pending, acknowledged, completions,
                       workerLive, running, createBindings, lastSuccessful, files, recovery>>
    BY <1>4 DEF BeginPause, ServiceTyped, workerVars, diskVars, Generation
  <2>3. b.kind = "Barrier" /\ b.session = s /\ b.generation = Generation(s)
    OBVIOUS
  <2> HIDE DEF b
  <2>4. /\ channel' \in Seq(RequestRecord \cup Barrier)
        /\ DOMAIN channel' = DOMAIN channel \cup {Len(channel) + 1}
        /\ Len(channel) + 1 \notin DOMAIN channel
        /\ DOMAIN channel \subseteq Nat
        /\ Len(channel) + 1 \in Nat
        /\ \A i \in DOMAIN channel : channel'[i] = channel[i] /\ i <= Len(channel)
        /\ channel'[Len(channel) + 1] = b
    BY <2>1, <2>2, AppendFacts
  <2>5. ServiceTyped'
    BY <1>1, <2>2, <2>4 DEF ServiceTyped
  <2>6. Outstanding' = Outstanding
    BY <2>2, <2>3, <2>4 DEF Outstanding
  <2>7. CountersMatchWork'
    <3>1. Cardinality(Work(channel')) = Cardinality(Work(channel))
      BY <2>1, <2>2, <2>3, WorkAppend, WorkIsFinite
    <3> QED
      BY <2>2, <3>1 DEF CountersMatchWork, Work
  <2>8. WorkerAlive'
    BY <1>4, <2>2 DEF WorkerAlive
  <2>9. <<s, Generation(s)>> \notin acknowledged
    BY DEF AcknowledgedAreIdle
  <2>10. BarriersInOrder'
    <3> SUFFICES ASSUME NEW o \in Sessions, NEW i \in DOMAIN channel',
                        channel'[i].kind = "Barrier", channel'[i].session = o
                 PROVE  /\ channel'[i].generation <= Generation(o)
                        /\ channel'[i].generation = Generation(o) =>
                              /\ Phase(o)' \notin {"Open", "Paused"}
                              /\ <<o, Generation(o)>> \notin acknowledged
                              /\ \A j \in DOMAIN channel' : j > i => channel'[j].session # o
      BY <1>2, <2>2 DEF BarriersInOrder
    <3>1. CASE i = Len(channel) + 1
      <4>1. o = s /\ channel'[i].generation = Generation(o)
        BY <2>3, <2>4, <3>1
      <4>2. \A j \in DOMAIN channel' : ~(j > i)
        BY <2>4, <3>1
      <4> QED
        BY <1>2, <1>4, <2>9, <4>1, <4>2, AdmissionFacts
    <3>2. CASE i # Len(channel) + 1
      <4>1. i \in DOMAIN channel /\ channel'[i] = channel[i]
        BY <2>4, <3>2
      <4>2. /\ channel[i].generation <= Generation(o)
            /\ channel[i].generation = Generation(o) =>
                   /\ Phase(o) \notin {"Open", "Paused"}
                   /\ <<o, Generation(o)>> \notin acknowledged
                   /\ \A j \in DOMAIN channel : j > i => channel[j].session # o
        BY <4>1 DEF BarriersInOrder
      <4>3. CASE channel[i].generation = Generation(o)
        <5>1. o # s
          BY <4>2, <4>3
        <5>2. \A j \in DOMAIN channel' : j > i => channel'[j].session # o
          BY <2>3, <2>4, <4>2, <4>3, <5>1
        <5> QED
          BY <1>2, <4>1, <4>2, <4>3, <5>1, <5>2
      <4> QED
        BY <4>1, <4>2, <4>3
    <3> QED
      BY <3>1, <3>2
  <2>11. AcknowledgedAreIdle'
    BY <1>2, <1>4, <2>2, <2>6 DEF AcknowledgedAreIdle
  <2>12. OutstandingAdmitted'
    <3>1. \A r \in Outstanding : r.session \in Sessions
      BY OutstandingFacts DEF RequestRecord
    <3>2. \A o \in Sessions :
              \/ Phase(o)' = Phase(o)
              \/ Phase(o)' = "Pausing" /\ Phase(o) = "Open"
      BY <1>2, <1>4
    <3>3. \A r \in Outstanding : Generation(r.session)' = Generation(r.session)
      BY <1>2, <3>1
    <3> QED
      BY <2>6, <3>1, <3>2, <3>3 DEF OutstandingAdmitted
  <2> QED
    BY <1>2, <2>5, <2>7, <2>8, <2>10, <2>11, <2>12
<1> QED
  BY <1>3, <1>4

\* An acknowledged session is idle, so that it may count as paused.
LEMMA CompletePauseService ==
    ASSUME ServiceInv, NEW s \in Sessions, CompletePause(s)
    PROVE  /\ ServiceInv'
           /\ Phase(s)' = "Paused"
           /\ \A o \in Sessions :
                  /\ Generation(o)' = Generation(o)
                  /\ o # s => Phase(o)' = Phase(o)
<1> USE DEF ServiceInv
<1>1. /\ admission' = [admission EXCEPT ![s].phase = "Paused"]
      /\ acknowledged' = acknowledged \ {<<s, Generation(s)>>}
      /\ <<s, Generation(s)>> \in acknowledged
      /\ Phase(s) = "Pausing"
      /\ UNCHANGED <<nextRequestId, queued, pending, channel, completions, workerLive,
                     running, createBindings, lastSuccessful, files, recovery>>
  BY DEF CompletePause, PauseAcknowledged, Generation, Phase, queueVars, workerVars, diskVars
<1>2. admission' \in [Sessions -> [phase : Phases, generation : 0 .. MaxGeneration,
                                   lastReserved : Option(Nat)]]
  BY <1>1 DEF ServiceTyped, Phases
<1>3. /\ Phase(s)' = "Paused"
      /\ \A o \in Sessions :
             /\ Generation(o)' = Generation(o)
             /\ o # s => Phase(o)' = Phase(o)
  BY <1>1 DEF ServiceTyped, Phase, Generation
<1>4. ServiceTyped'
  BY <1>1, <1>2 DEF ServiceTyped
<1>5. CountersMatchWork' /\ WorkerAlive' /\ Outstanding' = Outstanding
  BY <1>1 DEF CountersMatchWork, WorkerAlive, Outstanding
<1>6. \A r \in Outstanding : r.session \in Sessions /\ r.session # s
  BY <1>1, OutstandingFacts DEF AcknowledgedAreIdle, RequestRecord
<1>7. BarriersInOrder'
  <2> SUFFICES ASSUME NEW o \in Sessions, NEW i \in DOMAIN channel,
                      channel[i].kind = "Barrier", channel[i].session = o
               PROVE  /\ channel[i].generation <= Generation(o)
                      /\ channel[i].generation = Generation(o) =>
                            /\ Phase(o)' \notin {"Open", "Paused"}
                            /\ <<o, Generation(o)>> \notin acknowledged
                            /\ \A j \in DOMAIN channel : j > i => channel[j].session # o
    BY <1>1, <1>3 DEF BarriersInOrder
  <2>1. /\ channel[i].generation <= Generation(o)
        /\ channel[i].generation = Generation(o) =>
               /\ Phase(o) \notin {"Open", "Paused"}
               /\ <<o, Generation(o)>> \notin acknowledged
               /\ \A j \in DOMAIN channel : j > i => channel[j].session # o
    BY DEF BarriersInOrder
  <2> QED
    BY <1>1, <1>3, <2>1
<1>8. AcknowledgedAreIdle'
  <2> SUFFICES ASSUME NEW o \in Sessions
               PROVE  /\ \A a \in acknowledged' : a[1] = o => a[2] <= Generation(o)
                      /\ <<o, Generation(o)>> \in acknowledged' =>
                             /\ Phase(o)' \notin {"Open", "Paused"}
                             /\ \A r \in Outstanding : r.session # o
    BY <1>3, <1>5 DEF AcknowledgedAreIdle
  <2>1. /\ \A a \in acknowledged : a[1] = o => a[2] <= Generation(o)
        /\ <<o, Generation(o)>> \in acknowledged =>
               /\ Phase(o) \notin {"Open", "Paused"}
               /\ \A r \in Outstanding : r.session # o
    BY DEF AcknowledgedAreIdle
  <2> QED
    BY <1>1, <1>3, <2>1
<1>9. OutstandingAdmitted'
  BY <1>3, <1>5, <1>6 DEF OutstandingAdmitted
<1> QED
  BY <1>3, <1>4, <1>5, <1>7, <1>8, <1>9

\* What becomes of the order of barriers when the head of the channel leaves.
LEMMA BarriersBehindHead ==
    ASSUME ServiceInv, channel # <<>>, channel' = Tail(channel),
           UNCHANGED <<admission, acknowledged>>
    PROVE  BarriersInOrder'
<1>1. channel \in Seq(RequestRecord \cup Barrier)
  BY DEF ServiceInv, ServiceTyped
<1>2. /\ \A i \in DOMAIN channel' : i + 1 \in DOMAIN channel /\ channel'[i] = channel[i + 1]
      /\ DOMAIN channel' \subseteq Nat
  <2>1. channel' \in Seq(RequestRecord \cup Barrier)
    BY <1>1, TailFacts
  <2> QED
    BY <1>1, <2>1, TailFacts
<1>3. \A i, j \in DOMAIN channel' : j > i => j + 1 > i + 1
  BY <1>2
<1>4. \A o \in Sessions : Phase(o)' = Phase(o) /\ Generation(o)' = Generation(o)
  BY DEF Phase, Generation
<1>5. \A s \in Sessions : \A i \in DOMAIN channel :
        channel[i].kind = "Barrier" /\ channel[i].session = s =>
            /\ channel[i].generation <= Generation(s)
            /\ channel[i].generation = Generation(s) =>
                   /\ Phase(s) \notin {"Open", "Paused"}
                   /\ <<s, Generation(s)>> \notin acknowledged
                   /\ \A j \in DOMAIN channel : j > i => channel[j].session # s
  BY DEF ServiceInv, BarriersInOrder
<1> QED
  BY <1>2, <1>3, <1>4, <1>5 DEF BarriersInOrder

\* The worker takes what stands first.
LEMMA TakeService ==
    ASSUME ServiceInv, TakeRequest
    PROVE  ServiceInv'
<1> USE DEF ServiceInv
<1>1. /\ workerLive /\ running = None /\ channel # <<>>
      /\ Head(channel).kind # "Barrier"
      /\ running' = Head(channel)
      /\ channel' = Tail(channel)
      /\ queued' = queued - 1
      /\ UNCHANGED <<admission, nextRequestId, pending, acknowledged, completions,
                     workerLive, createBindings, lastSuccessful, files, recovery>>
  BY DEF TakeRequest, clientVars, diskVars
<1>2. channel \in Seq(RequestRecord \cup Barrier)
  BY DEF ServiceTyped
<1>3. /\ Head(channel) \in RequestRecord
      /\ Head(channel) # None
      /\ channel' \in Seq(RequestRecord \cup Barrier)
  <2>1. Head(channel) = channel[1] /\ 1 \in DOMAIN channel
    BY <1>1, <1>2, TailFacts
  <2> QED
    BY <1>1, <1>2, <2>1, TailFacts, OutstandingFacts, NoneFacts
<1>4. /\ Cardinality(Work(channel')) = Cardinality(Work(channel)) - 1
      /\ queued = Cardinality(Work(channel))
      /\ queued <= QueueCapacity
      /\ pending = queued
      /\ Cardinality(Work(channel')) \in Nat
  <2>1. pending = queued + 0
    BY <1>1 DEF CountersMatchWork
  <2>2. queued = Cardinality(Work(channel)) /\ queued <= QueueCapacity
    BY <1>1 DEF CountersMatchWork, Work
  <2>3. Cardinality(Work(channel')) = Cardinality(Work(channel)) - 1
    BY <1>1, <1>2, WorkTail
  <2>4. Cardinality(Work(channel')) \in Nat
    BY <1>3, WorkIsFinite
  <2>5. pending = queued
    BY <2>1 DEF ServiceTyped
  <2> QED
    BY <2>2, <2>3, <2>4, <2>5
<1>5. ServiceTyped'
  <2>1. queued' \in Nat
    BY <1>1, <1>4
  <2> QED
    BY <1>1, <1>3, <2>1 DEF ServiceTyped, Option
<1>6. CountersMatchWork'
  <2>1. queued' = Cardinality(Work(channel')) /\ queued' <= QueueCapacity
    BY <1>1, <1>4, PersistenceAssumption DEF ServiceTyped
  <2>2. pending' = queued' + 1 /\ running' # None
    BY <1>1, <1>3, <1>4 DEF ServiceTyped
  <2> QED
    BY <2>1, <2>2 DEF CountersMatchWork, Work
<1>7. WorkerAlive'
  BY <1>1 DEF WorkerAlive
<1>8. \A x \in Outstanding' : x \in Outstanding
  <2>1. \A x \in Outstanding' :
            \/ \E i \in DOMAIN channel' : channel'[i] = x /\ x.kind # "Barrier"
            \/ x = Head(channel)
    BY <1>1 DEF Outstanding
  <2>2. \A x : (\E i \in DOMAIN channel' : channel'[i] = x) =>
            \E i \in DOMAIN channel : channel[i] = x
    BY <1>1, <1>2, TailFacts
  <2>3. Head(channel) = channel[1] /\ 1 \in DOMAIN channel
    BY <1>1, <1>2, TailFacts
  <2> QED
    BY <1>1, <2>1, <2>2, <2>3, OutstandingFacts
<1>9. BarriersInOrder'
  BY <1>1, BarriersBehindHead
<1>10. AcknowledgedAreIdle' /\ OutstandingAdmitted'
  BY <1>1, <1>8 DEF AcknowledgedAreIdle, OutstandingAdmitted, Phase, Generation
<1> QED
  BY <1>5, <1>6, <1>7, <1>9, <1>10

\* The barrier that stands first has everything of its session behind it.
LEMMA ServeService ==
    ASSUME ServiceInv, ServeBarrier
    PROVE  ServiceInv'
<1> USE DEF ServiceInv
<1> DEFINE b == Head(channel)
<1>1. /\ workerLive /\ running = None /\ channel # <<>>
      /\ b.kind = "Barrier"
      /\ acknowledged' = acknowledged \cup {<<b.session, b.generation>>}
      /\ channel' = Tail(channel)
      /\ UNCHANGED <<admission, nextRequestId, queued, pending, completions, running,
                     workerLive, createBindings, lastSuccessful, files, recovery>>
  BY DEF ServeBarrier, clientVars, diskVars, workerVars
<1>2. channel \in Seq(RequestRecord \cup Barrier)
  BY DEF ServiceTyped
<1>3. b = channel[1] /\ 1 \in DOMAIN channel /\ channel' \in Seq(RequestRecord \cup Barrier)
  BY <1>1, <1>2, TailFacts
<1>4. b.session \in Sessions /\ b.generation \in Nat
  BY <1>3, OutstandingFacts
<1>5. ServiceTyped'
  BY <1>1, <1>3, <1>4 DEF ServiceTyped
<1>6. CountersMatchWork'
  <2>1. Cardinality(Work(channel')) = Cardinality(Work(channel))
    BY <1>1, <1>2, WorkTail, WorkIsFinite
  <2> QED
    BY <1>1, <2>1 DEF CountersMatchWork, Work
<1>7. WorkerAlive'
  BY <1>1 DEF WorkerAlive
<1>8. \A x \in Outstanding' :
        /\ x \in Outstanding
        /\ \E i \in DOMAIN channel : channel[i] = x /\ i > 1
  <2>1. \A x \in Outstanding' :
            \E i \in DOMAIN channel' : channel'[i] = x /\ x.kind # "Barrier"
    BY <1>1 DEF Outstanding
  <2>2. \A i \in DOMAIN channel' :
            i \in Nat /\ i >= 1 /\ i + 1 \in DOMAIN channel /\ channel'[i] = channel[i + 1]
    BY <1>1, <1>2, <1>3, TailFacts
  <2>3. \A x \in Outstanding' :
            \E i \in DOMAIN channel : channel[i] = x /\ x.kind # "Barrier" /\ i > 1
    BY <2>1, <2>2
  <2> QED
    BY <2>3, OutstandingFacts
<1>9. /\ b.generation <= Generation(b.session)
      /\ b.generation = Generation(b.session) =>
             /\ Phase(b.session) \notin {"Open", "Paused"}
             /\ \A j \in DOMAIN channel : j > 1 => channel[j].session # b.session
  BY <1>1, <1>3, <1>4 DEF BarriersInOrder
<1>10. \A o \in Sessions : Phase(o)' = Phase(o) /\ Generation(o)' = Generation(o)
  BY <1>1 DEF Phase, Generation
<1>11. BarriersInOrder'
  <2> SUFFICES ASSUME NEW o \in Sessions, NEW i \in DOMAIN channel',
                      channel'[i].kind = "Barrier", channel'[i].session = o
               PROVE  /\ channel'[i].generation <= Generation(o)
                      /\ channel'[i].generation = Generation(o) =>
                            /\ Phase(o) \notin {"Open", "Paused"}
                            /\ <<o, Generation(o)>> \notin acknowledged'
                            /\ \A j \in DOMAIN channel' : j > i => channel'[j].session # o
    BY <1>10 DEF BarriersInOrder
  <2>1. \A j \in DOMAIN channel' :
            /\ j \in Nat /\ j >= 1
            /\ j + 1 \in DOMAIN channel /\ channel'[j] = channel[j + 1]
    BY <1>1, <1>2, <1>3, TailFacts
  <2>2. i + 1 \in DOMAIN channel /\ channel'[i] = channel[i + 1] /\ i + 1 > 1
    BY <2>1
  <2>3. /\ channel[i + 1].generation <= Generation(o)
        /\ channel[i + 1].generation = Generation(o) =>
               /\ Phase(o) \notin {"Open", "Paused"}
               /\ <<o, Generation(o)>> \notin acknowledged
               /\ \A j \in DOMAIN channel : j > i + 1 => channel[j].session # o
    BY <2>2 DEF BarriersInOrder
  <2>4. \A j \in DOMAIN channel' : j > i => j + 1 > i + 1
    BY <2>1
  <2>5. <<o, Generation(o)>> # <<b.session, b.generation>>
    BY <1>9, <2>2
  <2> QED
    BY <1>1, <2>1, <2>2, <2>3, <2>4, <2>5
<1>12. AcknowledgedAreIdle'
  <2> SUFFICES ASSUME NEW o \in Sessions
               PROVE  /\ \A a \in acknowledged' : a[1] = o => a[2] <= Generation(o)
                      /\ <<o, Generation(o)>> \in acknowledged' =>
                             /\ Phase(o) \notin {"Open", "Paused"}
                             /\ \A r \in Outstanding' : r.session # o
    BY <1>10 DEF AcknowledgedAreIdle
  <2>1. /\ \A a \in acknowledged : a[1] = o => a[2] <= Generation(o)
        /\ <<o, Generation(o)>> \in acknowledged =>
               /\ Phase(o) \notin {"Open", "Paused"}
               /\ \A r \in Outstanding' : r.session # o
    BY <1>8 DEF AcknowledgedAreIdle
  <2>2. <<o, Generation(o)>> = <<b.session, b.generation>> =>
            /\ Phase(o) \notin {"Open", "Paused"}
            /\ \A r \in Outstanding' : r.session # o
    BY <1>8, <1>9
  <2> QED
    BY <1>1, <1>9, <2>1, <2>2
<1>13. OutstandingAdmitted'
  BY <1>1, <1>8 DEF OutstandingAdmitted, Phase, Generation
<1> QED
  BY <1>5, <1>6, <1>7, <1>11, <1>12, <1>13

\* The request that ran is reported; the rest of the service stays.
LEMMA CompleteService ==
    ASSUME ServiceInv, running # None,
           NEW ok \in BOOLEAN, NEW revision \in Nat, Complete(ok, revision),
           createBindings' \in [Sessions -> [RequestIds -> Option(BindingStates)]],
           lastSuccessful' \in [Sessions -> Option(Nat)],
           files' \in [Files -> Option(Content)],
           recovery' \in [Projects -> [Files -> Option(Manifest)]]
    PROVE  /\ ServiceInv'
           /\ UNCHANGED admission
           /\ \E c \in Completion :
                  c.request \in Outstanding /\ completions' = Append(completions, c)
<1> USE DEF ServiceInv
<1> DEFINE c == [request |-> running, ok |-> ok, revision |-> revision]
<1>1. /\ workerLive
      /\ pending' = pending - 1
      /\ running' = None
      /\ completions' = Append(completions, c)
      /\ UNCHANGED <<admission, nextRequestId, queued, channel, acknowledged, workerLive>>
  BY DEF Complete, WorkerAlive, clientVars
<1>2. running \in RequestRecord
  BY DEF ServiceTyped, Option
<1>3. c \in Completion /\ c.request = running
  BY <1>2 DEF Completion
<1> HIDE DEF c
<1>4. completions' \in Seq(Completion)
  BY <1>1, <1>3, AppendFacts DEF ServiceTyped
<1>5. pending = queued + 1 /\ queued \in Nat
  BY <1>1 DEF CountersMatchWork, ServiceTyped
<1>6. ServiceTyped'
  <2>1. pending' \in Nat
    BY <1>1, <1>5
  <2> QED
    BY <1>1, <1>4, <2>1 DEF ServiceTyped, Option
<1>7. CountersMatchWork'
  <2>1. pending' = queued' + 0
    BY <1>1, <1>5
  <2> QED
    BY <1>1, <2>1 DEF CountersMatchWork
<1>8. WorkerAlive'
  BY <1>1 DEF WorkerAlive
<1>9. BarriersInOrder'
  BY <1>1 DEF BarriersInOrder, Phase, Generation
<1>10. \A x \in Outstanding' : x \in Outstanding
  BY <1>1 DEF Outstanding
<1>11. AcknowledgedAreIdle' /\ OutstandingAdmitted'
  BY <1>1, <1>10 DEF AcknowledgedAreIdle, OutstandingAdmitted, Phase, Generation
<1>12. running \in Outstanding
  BY OutstandingFacts
<1> QED
  BY <1>1, <1>3, <1>6, <1>7, <1>8, <1>9, <1>11, <1>12

\* A panic empties the channel.
LEMMA PanicService ==
    ASSUME ServiceInv, WorkerPanics
    PROVE  ServiceInv' /\ UNCHANGED <<admission, completions>>
<1> USE DEF ServiceInv
<1>1. /\ ~workerLive' /\ running' = None /\ channel' = <<>>
      /\ UNCHANGED <<admission, nextRequestId, queued, pending, acknowledged, completions,
                     createBindings, lastSuccessful, files, recovery>>
  BY DEF WorkerPanics, clientVars, diskVars
<1>2. DOMAIN channel' = {} /\ channel' \in Seq(RequestRecord \cup Barrier)
  BY <1>1
<1>3. ServiceTyped'
  <2>1. workerLive' \in BOOLEAN
    BY DEF WorkerPanics
  <2> QED
    BY <1>1, <1>2, <2>1 DEF ServiceTyped, Option
<1>4. CountersMatchWork' /\ WorkerAlive'
  BY <1>1 DEF CountersMatchWork, WorkerAlive
<1>5. BarriersInOrder'
  BY <1>2 DEF BarriersInOrder
<1>6. Outstanding' = {}
  BY <1>1, <1>2 DEF Outstanding
<1>7. AcknowledgedAreIdle' /\ OutstandingAdmitted'
  BY <1>1, <1>6 DEF AcknowledgedAreIdle, OutstandingAdmitted, Phase, Generation
<1> QED
  BY <1>1, <1>3, <1>4, <1>5, <1>7

\* Types of what a publication writes.
LEMMA PublishManualService ==
    ASSUME ServiceInv, NEW outcome \in Outcomes, PublishManual(outcome)
    PROVE  /\ ServiceInv'
           /\ UNCHANGED admission
           /\ \E c \in Completion :
                  c.request \in Outstanding /\ completions' = Append(completions, c)
<1>1. running # None /\ running \in RequestRecord
  BY DEF PublishManual, ServiceInv, ServiceTyped, Option
<1>2. /\ running.session \in Sessions /\ running.lineage \in Option(Nat)
      /\ running.project \in Projects /\ running.version \in Versions
      /\ running.revision \in Nat /\ running.file \in Files
  BY <1>1 DEF RequestRecord
<1>3. files' \in [Files -> Option(Content)]
  <2>1. [session |-> running.session, lineage |-> running.lineage,
         project |-> running.project, version |-> running.version,
         revision |-> running.revision] \in Option(Content)
    BY <1>2 DEF Content, Option
  <2> QED
    BY <1>2, <2>1 DEF PublishManual, ServiceInv, ServiceTyped
<1>4. createBindings' \in [Sessions -> [RequestIds -> Option(BindingStates)]]
  <2>1. BindingAfter(outcome) \in Option(BindingStates)
    BY DEF BindingAfter, BindingStates, Option
  <2>2. createBindings[running.session] \in [RequestIds -> Option(BindingStates)]
    BY <1>2 DEF ServiceInv, ServiceTyped
  <2>3. [createBindings[running.session] EXCEPT ![running.lineage] = BindingAfter(outcome)]
            \in [RequestIds -> Option(BindingStates)]
    BY <2>1, <2>2
  <2> QED
    BY <1>2, <2>3 DEF PublishManual, ServiceInv, ServiceTyped
<1>5. lastSuccessful' \in [Sessions -> Option(Nat)]
  BY <1>2 DEF PublishManual, ServiceInv, ServiceTyped, Option
<1>6. recovery' \in [Projects -> [Files -> Option(Manifest)]]
  BY DEF PublishManual, ServiceInv, ServiceTyped
<1>7. Complete(outcome = "Durable", running.revision)
  BY DEF PublishManual
<1>8. (outcome = "Durable") \in BOOLEAN
  OBVIOUS
<1> QED
  BY <1>1, <1>2, <1>3, <1>4, <1>5, <1>6, <1>7, <1>8, CompleteService

LEMMA RejectManualService ==
    ASSUME ServiceInv, RejectManual
    PROVE  /\ ServiceInv'
           /\ UNCHANGED admission
           /\ \E c \in Completion :
                  c.request \in Outstanding /\ completions' = Append(completions, c)
<1>1. running # None /\ running \in RequestRecord
  BY DEF RejectManual, ServiceInv, ServiceTyped, Option
<1>2. running.revision \in Nat
  BY <1>1 DEF RequestRecord
<1>3. Complete(FALSE, running.revision)
  BY DEF RejectManual
<1>4. /\ createBindings' \in [Sessions -> [RequestIds -> Option(BindingStates)]]
      /\ lastSuccessful' \in [Sessions -> Option(Nat)]
      /\ files' \in [Files -> Option(Content)]
      /\ recovery' \in [Projects -> [Files -> Option(Manifest)]]
  BY DEF RejectManual, ServiceInv, ServiceTyped, diskVars
<1> QED
  BY <1>1, <1>2, <1>3, <1>4, CompleteService

LEMMA PublishAutosaveService ==
    ASSUME ServiceInv, NEW outcome \in Outcomes, NEW kept \in SUBSET RetainablePoints,
           PublishAutosave(outcome, kept)
    PROVE  /\ ServiceInv'
           /\ UNCHANGED admission
           /\ \E c \in Completion :
                  c.request \in Outstanding /\ completions' = Append(completions, c)
<1> DEFINE old == recovery[running.project][running.root]
           point == [version |-> running.version, revision |-> AutosaveRevision(running)]
           new == [file |-> IF old = None THEN running.file ELSE old.file,
                   points |-> kept \cup {point}]
<1>1. running # None /\ running \in RequestRecord
  BY DEF PublishAutosave, ServiceInv, ServiceTyped, Option
<1>2. /\ running.session \in Sessions /\ running.root \in Files
      /\ running.project \in Projects /\ running.version \in Versions
      /\ running.revision \in Nat /\ running.file \in Files
  BY <1>1 DEF RequestRecord
<1>3. AutosaveRevision(running) \in Nat
  <2>1. lastSuccessful[running.session] \in Nat \cup {None}
    BY <1>2 DEF ServiceInv, ServiceTyped, Option
  <2> QED
    BY <1>2, <2>1 DEF AutosaveRevision
<1>4. old \in Option(Manifest)
  BY <1>2 DEF ServiceInv, ServiceTyped
<1>5. kept \subseteq [version : Versions, revision : Nat]
  BY <1>1, <1>4 DEF RetainablePoints, Manifest, Option
<1>6. new \in Option(Manifest)
  <2>1. point \in [version : Versions, revision : Nat]
    BY <1>2, <1>3
  <2>2. (IF old = None THEN running.file ELSE old.file) \in Files
    BY <1>2, <1>4 DEF Manifest, Option
  <2> HIDE DEF old, point
  <2>3. new \in Manifest
    BY <1>5, <2>1, <2>2 DEF Manifest
  <2> QED
    BY <2>3 DEF Option
<1>7. recovery' = recovery \/ recovery' = [recovery EXCEPT ![running.project][running.root] = new]
  BY DEF PublishAutosave
<1> HIDE DEF old, point, new
<1>8. recovery' \in [Projects -> [Files -> Option(Manifest)]]
  <2>1. recovery \in [Projects -> [Files -> Option(Manifest)]]
    BY DEF ServiceInv, ServiceTyped
  <2> QED
    BY <1>2, <1>6, <1>7, <2>1
<1>9. Complete(outcome = "Durable", AutosaveRevision(running))
  BY DEF PublishAutosave
<1>10. /\ createBindings' \in [Sessions -> [RequestIds -> Option(BindingStates)]]
       /\ lastSuccessful' \in [Sessions -> Option(Nat)]
       /\ files' \in [Files -> Option(Content)]
  BY DEF PublishAutosave, ServiceInv, ServiceTyped
<1>11. (outcome = "Durable") \in BOOLEAN
  OBVIOUS
<1> QED
  BY <1>1, <1>3, <1>8, <1>9, <1>10, <1>11, CompleteService

\* What the worker does reports at most one request, of a session that was
\* not paused.
LEMMA WorkerService ==
    ASSUME ServiceInv, WorkerStep
    PROVE  /\ ServiceInv'
           /\ UNCHANGED admission
           /\ \/ UNCHANGED completions
              \/ \E c \in Completion :
                     c.request \in Outstanding /\ completions' = Append(completions, c)
<1>1. CASE TakeRequest
  BY <1>1, TakeService DEF TakeRequest, clientVars
<1>2. CASE ServeBarrier
  BY <1>2, ServeService DEF ServeBarrier, clientVars
<1>3. CASE \E outcome \in Outcomes : PublishManual(outcome)
  BY <1>3, PublishManualService
<1>4. CASE RejectManual
  BY <1>4, RejectManualService
<1>5. CASE \E outcome \in Outcomes, kept \in SUBSET RetainablePoints :
               PublishAutosave(outcome, kept)
  BY <1>5, PublishAutosaveService
<1> QED
  BY <1>1, <1>2, <1>3, <1>4, <1>5 DEF WorkerStep

-----------------------------------------------------------------------------
\* The main thread: every handler keeps MainInv.

AdmissionMap == [Sessions -> [phase : Phases, generation : 0 .. MaxGeneration,
                              lastReserved : Option(Nat)]]

\* Retiring a session keeps every generation.
LEMMA RetiredFacts ==
    ASSUME NEW adm \in AdmissionMap, NEW s \in Option(Sessions)
    PROVE  /\ Retired(adm, s) \in AdmissionMap
           /\ \A o \in Sessions :
                  /\ Retired(adm, s)[o].generation = adm[o].generation
                  /\ o # s => Retired(adm, s)[o].phase = adm[o].phase
                  /\ o = s => Retired(adm, s)[o].phase = "Retired"
BY NoneFacts DEF Retired, AdmissionMap, Phases, Option

\* Resuming a session opens it in its next generation.
LEMMA ResumedFacts ==
    ASSUME NEW adm \in AdmissionMap, NEW s \in Option(Sessions),
           s # None => adm[s].generation < MaxGeneration
    PROVE  /\ Resumed(adm, s) \in AdmissionMap
           /\ \A o \in Sessions :
                  /\ o # s => /\ Resumed(adm, s)[o].phase = adm[o].phase
                              /\ Resumed(adm, s)[o].generation = adm[o].generation
                  /\ o = s => /\ Resumed(adm, s)[o].phase = "Open"
                              /\ Resumed(adm, s)[o].generation > adm[o].generation
<1>1. CASE s = None
  BY <1>1, NoneFacts DEF Resumed
<1>2. CASE s # None
  <2>1. s \in Sessions
    BY <1>2 DEF Option
  <2>2. /\ adm[s].generation \in 0 .. MaxGeneration
        /\ adm[s].generation + 1 \in 0 .. MaxGeneration
        /\ adm[s].generation + 1 > adm[s].generation
    BY <1>2, <2>1, LifecycleAssumption DEF AdmissionMap
  <2>3. Resumed(adm, s) = [adm EXCEPT ![s].phase = "Open", ![s].generation = @ + 1]
    BY <1>2 DEF Resumed
  <2> QED
    BY <2>1, <2>2, <2>3 DEF AdmissionMap, Phases
<1> QED
  BY <1>1, <1>2

LEMMA OnlyAdmissionService ==
    ASSUME ServiceInv, NEW new \in AdmissionMap, OnlyAdmission(new),
           \A s \in Sessions :
               \/ new[s].generation = Generation(s) /\ new[s].phase = Phase(s)
               \/ new[s].generation = Generation(s) /\ new[s].phase \in {"Retired", "Poisoned"}
               \/ new[s].generation > Generation(s) /\ Phase(s) = "Paused"
    PROVE  /\ ServiceInv'
           /\ UNCHANGED <<completions, files, recovery>>
           /\ \A s \in Sessions :
                  Phase(s)' = new[s].phase /\ Generation(s)' = new[s].generation
<1>1. /\ admission' = new
      /\ UNCHANGED <<nextRequestId, queueVars, acknowledged, workerVars,
                     completions, files, recovery>>
  BY DEF OnlyAdmission, diskVars
<1>2. /\ completions' \in Seq(Completion)
      /\ files' \in [Files -> Option(Content)]
      /\ recovery' \in [Projects -> [Files -> Option(Manifest)]]
  BY <1>1 DEF ServiceInv, ServiceTyped
<1>3. \A s \in Sessions :
        Phase(s)' = new[s].phase /\ Generation(s)' = new[s].generation
  BY <1>1 DEF Phase, Generation
<1> QED
  BY <1>1, <1>2, <1>3, AdmissionService DEF AdmissionMap

\* A wait that fails poisons its session.
LEMMA PoisonPauseService ==
    ASSUME ServiceInv, NEW s \in Sessions, PoisonPause(s)
    PROVE  /\ ServiceInv'
           /\ UNCHANGED completions
           /\ \A o \in Sessions :
                  /\ Generation(o)' = Generation(o)
                  /\ o # s => Phase(o)' = Phase(o)
<1> DEFINE new == [admission EXCEPT ![s].phase = "Poisoned"]
<1>1. OnlyAdmission(new)
  BY DEF PoisonPause, OnlyAdmission
<1>2. /\ new \in AdmissionMap
      /\ \A o \in Sessions :
             /\ new[o].generation = Generation(o)
             /\ o # s => new[o].phase = Phase(o)
             /\ o = s => new[o].phase = "Poisoned"
  BY DEF ServiceInv, ServiceTyped, AdmissionMap, Phases, Phase, Generation
<1> HIDE DEF new
<1> QED
  BY <1>1, <1>2, OnlyAdmissionService

\* What the main thread keeps while the service works beside it.
LEMMA MainFrame ==
    ASSUME LifecycleInv, UNCHANGED mainVars, UNCHANGED admission,
           \/ UNCHANGED completions
           \/ \E c \in Completion :
                  c.request \in Outstanding /\ completions' = Append(completions, c)
    PROVE  MainInv'
<1> USE DEF LifecycleInv, MainInv, ServiceInv
<1>1. UNCHANGED <<authoring, destination, applied, autosaveInFlight, close, fault, task,
                  used, lastVersion>>
  BY DEF mainVars, openVars, closeVars
<1>2. MainTyped' /\ TaskShaped' /\ SessionsUsed'
  BY <1>1 DEF MainTyped, TaskShaped, Shaped, SessionsUsed, Phase, Generation
<1>3. FinishDrained'
  <2>1. CASE UNCHANGED completions
    BY <1>1, <2>1 DEF FinishDrained
  <2>2. ASSUME NEW c \in Completion, c.request \in Outstanding,
               completions' = Append(completions, c)
        PROVE  FinishDrained'
    <3> SUFFICES ASSUME task # None, task.stage = "Finish"
                 PROVE  \A i \in DOMAIN completions' :
                            completions'[i].request.session # task.token
      BY <1>1 DEF FinishDrained
    <3>1. /\ DOMAIN completions' = DOMAIN completions \cup {Len(completions) + 1}
          /\ \A i \in DOMAIN completions : completions'[i] = completions[i]
          /\ completions'[Len(completions) + 1] = c
      BY <2>2, AppendFacts DEF ServiceTyped
    <3>2. \A i \in DOMAIN completions : completions[i].request.session # task.token
      BY DEF FinishDrained
    <3>3. c.request.session \in Sessions
      BY <2>2, OutstandingFacts DEF RequestRecord
    <3>4. Phase(c.request.session) # "Paused"
      BY <2>2 DEF OutstandingAdmitted
    <3>5. task.token # None => Phase(task.token) = "Paused"
      BY DEF TaskShaped, Shaped
    <3>6. c.request.session # task.token
      BY <3>3, <3>4, <3>5, NoneFacts
    <3> QED
      BY <3>1, <3>2, <3>6
  <2> QED
    BY <2>1, <2>2
<1> QED
  BY <1>2, <1>3

LEMMA WorkerKeeps ==
    ASSUME LifecycleInv, Worker
    PROVE  LifecycleInv'
BY WorkerService, MainFrame DEF LifecycleInv, Worker

LEMMA PanicKeeps ==
    ASSUME LifecycleInv, Panic
    PROVE  LifecycleInv'
BY PanicService, MainFrame DEF LifecycleInv, Panic

LEMMA ExternalKeeps ==
    ASSUME LifecycleInv, NEW f \in Files, ExternalCreates(f)
    PROVE  LifecycleInv'
<1>1. UNCHANGED <<admission, nextRequestId, queueVars, acknowledged, completions,
                  workerVars, recovery, mainVars>>
  BY DEF ExternalCreates, clientVars
<1>2. [session |-> None, lineage |-> None, project |-> None,
       version |-> 0, revision |-> 0] \in Option(Content)
  BY PersistenceAssumption DEF Content, Option, Versions
<1>3. files' \in [Files -> Option(Content)]
  BY <1>2 DEF ExternalCreates, LifecycleInv, ServiceInv, ServiceTyped
<1>4. \A s \in Sessions : Generation(s)' = Generation(s) /\ Phase(s)' = Phase(s)
  BY <1>1 DEF Generation, Phase
<1>5. /\ admission' \in [Sessions -> [phase : Phases, generation : 0 .. MaxGeneration,
                                      lastReserved : Option(Nat)]]
      /\ completions' \in Seq(Completion)
      /\ recovery' \in [Projects -> [Files -> Option(Manifest)]]
  BY <1>1 DEF LifecycleInv, ServiceInv, ServiceTyped
<1>6. ServiceInv'
  BY <1>1, <1>3, <1>4, <1>5, AdmissionService DEF LifecycleInv
<1> QED
  BY <1>1, <1>6, MainFrame DEF LifecycleInv

\* A baseline is a version.
LEMMA NewestType ==
    ASSUME NEW b \in Option(Versions), NEW v \in Versions
    PROVE  Newest(b, v) \in Option(Versions)
BY DEF Newest, Option

\* A completion moves the baselines of the open session and nothing else.
LEMMA MarkTypes ==
    ASSUME NEW x \in AuthoringSession, NEW c \in Completion
    PROVE  /\ MarkSaved(x, c) \in AuthoringSession
           /\ MarkSaved(x, c).session = x.session
           /\ MarkAutosaved(x, c) \in AuthoringSession
           /\ MarkAutosaved(x, c).session = x.session
<1>1. /\ x.saved \in Option(Versions) /\ x.autosaved \in Option(Versions)
      /\ x.revision \in Nat
      /\ c.revision \in Nat
      /\ c.request.version \in Versions /\ c.request.file \in Files
  BY DEF AuthoringSession, Completion, RequestRecord
<1>2. /\ Newest(x.saved, c.request.version) \in Option(Versions)
      /\ Newest(x.autosaved, c.request.version) \in Option(Versions)
      /\ (IF x.revision > c.revision THEN x.revision ELSE c.revision) \in Nat
  BY <1>1, NewestType
<1>3. /\ MarkSaved(x, c) = [x EXCEPT
              !.revision = IF x.revision > c.revision THEN x.revision ELSE c.revision,
              !.saved = Newest(x.saved, c.request.version), !.file = c.request.file]
      /\ MarkAutosaved(x, c) = [x EXCEPT !.autosaved = Newest(x.autosaved, c.request.version)]
  BY DEF MarkSaved, MarkAutosaved, AuthoringSession
<1> QED
  BY <1>1, <1>2, <1>3 DEF AuthoringSession

LEMMA ReconciledType ==
    ASSUME ServiceTyped, NEW x \in AuthoringSession
    PROVE  Reconciled(x) \in [Projects -> [Files -> Option(Manifest)]]
<1> DEFINE manifest == recovery[x.project][x.root]
           new == [file |-> x.file, points |-> IF IsDirty(x) THEN manifest.points ELSE {}]
<1>1. x.project \in Projects /\ x.root \in Files /\ x.file \in Files
  BY DEF AuthoringSession
<1>2. recovery \in [Projects -> [Files -> Option(Manifest)]]
  BY DEF ServiceTyped
<1>3. manifest \in Option(Manifest)
  BY <1>1, <1>2
<1>4. manifest # None => new \in Option(Manifest)
  <2>1. manifest # None => manifest.points \subseteq [version : Versions, revision : Nat]
    BY <1>3 DEF Option, Manifest
  <2> HIDE DEF manifest
  <2>2. manifest # None => new \in Manifest
    BY <1>1, <2>1 DEF Manifest
  <2> QED
    BY <2>2 DEF Option
<1>5. Reconciled(x) = IF manifest = None THEN recovery
                      ELSE [recovery EXCEPT ![x.project][x.root] = new]
  BY DEF Reconciled
<1> HIDE DEF manifest, new
<1> QED
  BY <1>1, <1>2, <1>4, <1>5

\* Applying a completion takes it from the front and leaves admission alone.
LEMMA ApplyKeeps ==
    ASSUME LifecycleInv, NEW reconciles \in BOOLEAN,
           ApplyCompletion(reconciles), UNCHANGED task
    PROVE  LifecycleInv'
<1> USE DEF LifecycleInv, MainInv
<1> DEFINE c == Head(completions)
           mine == BelongsToOpenSession(c)
           covered == mine /\ ForCurrentDestination(c) /\ Covered(c)
           saves == mine /\ ForCurrentDestination(c) /\ ~covered /\ c.ok
           autosaves == mine /\ c.request.kind = "Autosave" /\ c.ok
           after == IF saves THEN MarkSaved(authoring, c)
                    ELSE IF autosaves THEN MarkAutosaved(authoring, c)
                    ELSE authoring
<1>1. /\ completions # <<>>
      /\ completions' = Tail(completions)
      /\ autosaveInFlight' = AutosaveSlotAfter(c)
      /\ authoring' = after
      /\ applied' = IF saves
                    THEN [destination |-> destination, request |-> c.request.id]
                    ELSE applied
      /\ \/ /\ covered \/ saves \/ autosaves
            /\ recovery' = Reconciled(after)
         \/ recovery' = recovery
      /\ UNCHANGED <<destination, close, fault, used, lastVersion, admission, nextRequestId,
                     queueVars, acknowledged, workerVars, files>>
  BY DEF ApplyCompletion, closeVars, clientVars
<1>2. completions \in Seq(Completion)
  BY DEF ServiceInv, ServiceTyped
<1>3. c \in Completion /\ completions' \in Seq(Completion)
  BY <1>1, <1>2, TailFacts
<1>4. /\ c.request \in RequestRecord
      /\ c.request.id \in RequestIds
      /\ c.request.lineage \in Option(Nat) /\ c.request.file \in Files
      /\ c.request.publication \in Publications
  BY <1>3 DEF Completion, RequestRecord
<1>5. mine => authoring # None /\ authoring \in AuthoringSession
  BY DEF BelongsToOpenSession, MainTyped, Option
<1>6. /\ after \in Option(AuthoringSession)
      /\ mine => after \in AuthoringSession
      /\ authoring' # None => authoring # None /\ authoring'.session = authoring.session
  <2> HIDE DEF mine, c, covered
  <2>1. authoring \in Option(AuthoringSession)
    BY DEF MainTyped
  <2>2. CASE saves \/ autosaves
    <3>1. after \in AuthoringSession /\ after.session = authoring.session /\ authoring # None
      BY <1>3, <1>5, <2>2, MarkTypes
    <3> QED
      BY <1>1, <3>1 DEF Option
  <2>3. CASE ~saves /\ ~autosaves
    BY <1>1, <1>5, <2>1, <2>3
  <2> QED
    BY <2>2, <2>3
<1>7. applied' \in Option(AppliedRequest)
  <2>1. CASE saves
    <3>1. destination = DestinationOf(c.request)
      BY <2>1 DEF ForCurrentDestination
    <3>2. destination # None
      BY <1>4, <3>1, NoDestinationAssumption DEF DestinationOf
    <3>3. destination \in ManualProjectFileDestination
      BY <3>2 DEF MainTyped, Option
    <3> QED
      BY <1>1, <1>4, <2>1, <3>3 DEF AppliedRequest, Option
  <2>2. CASE ~saves
    BY <1>1, <2>2 DEF MainTyped
  <2> QED
    BY <2>1, <2>2
<1>8. autosaveInFlight' \in Option(RequestIds)
  BY <1>1 DEF AutosaveSlotAfter, MainTyped, Option
<1>9. recovery' \in [Projects -> [Files -> Option(Manifest)]]
  <2> HIDE DEF mine, c, after
  <2>1. recovery \in [Projects -> [Files -> Option(Manifest)]]
    BY DEF ServiceInv, ServiceTyped
  <2>2. mine => Reconciled(after) \in [Projects -> [Files -> Option(Manifest)]]
    BY <1>6, ReconciledType DEF ServiceInv
  <2> QED
    BY <1>1, <2>1, <2>2
<1> HIDE DEF c, mine, covered, saves, autosaves, after
<1>10. ServiceInv'
  <2>1. \A s \in Sessions : Generation(s)' = Generation(s) /\ Phase(s)' = Phase(s)
    BY <1>1 DEF Generation, Phase
  <2>2. /\ admission' \in [Sessions -> [phase : Phases, generation : 0 .. MaxGeneration,
                                        lastReserved : Option(Nat)]]
        /\ files' \in [Files -> Option(Content)]
    BY <1>1 DEF ServiceInv, ServiceTyped
  <2> QED
    BY <1>1, <1>3, <1>9, <2>1, <2>2, AdmissionService
<1>11. MainTyped'
  BY <1>1, <1>6, <1>7, <1>8 DEF MainTyped
<1>12. TaskShaped'
  BY <1>1 DEF TaskShaped, Shaped, Phase, Generation
<1>13. SessionsUsed'
  BY <1>1, <1>6 DEF SessionsUsed, Phase, Generation
<1>14. FinishDrained'
  <2>1. \A i \in DOMAIN completions' :
            i + 1 \in DOMAIN completions /\ completions'[i] = completions[i + 1]
    BY <1>1, <1>2, TailFacts
  <2> QED
    BY <2>1 DEF FinishDrained
<1> QED
  BY <1>10, <1>11, <1>12, <1>13, <1>14

LEMMA PollCompletionKeeps ==
    ASSUME LifecycleInv, PollCompletion
    PROVE  LifecycleInv'
BY ApplyKeeps DEF PollCompletion

LEMMA CreateAppliesOtherKeeps ==
    ASSUME LifecycleInv, CreateAppliesOther
    PROVE  LifecycleInv'
BY ApplyKeeps DEF CreateAppliesOther

\* A handler that ends leaves nothing to carry.
LEMMA EndedTask ==
    ASSUME task' = None, MainTyped',
           (authoring # None => authoring.session \in used)',
           (close # None => /\ close.session \in used
                            /\ Generation(close.session) < MaxGeneration)'
    PROVE  MainInv'
<1>1. TaskShaped' /\ FinishDrained'
  BY DEF TaskShaped, Shaped, FinishDrained
<1>2. SessionsUsed'
  BY DEF SessionsUsed
<1> QED
  BY <1>1, <1>2 DEF MainInv

\* What a handler that goes on has to carry.
LEMMA NextTask ==
    ASSUME NEW t \in Task, task' = t, MainTyped', close' = None,
           (authoring # None => authoring.session \in used)',
           Shaped(t)',
           t.stage = "Finish" =>
               \A i \in DOMAIN completions' : completions'[i].request.session # t.token
    PROVE  MainInv'
<1>1. TaskShaped'
  BY DEF TaskShaped, Shaped, Phase, Generation
<1>2. SessionsUsed'
  BY DEF SessionsUsed
<1>3. FinishDrained'
  BY DEF FinishDrained
<1> QED
  BY <1>1, <1>2, <1>3 DEF MainInv

LEMMA TaskFacts ==
    ASSUME MainInv, task # None
    PROVE  task \in Task /\ Shaped(task) /\ close = None
BY DEF MainInv, MainTyped, TaskShaped, SessionsUsed, Option

\* Closing behind a barrier.

LEMMA PollCloseQuiescedKeeps ==
    ASSUME LifecycleInv, PollCloseQuiesced
    PROVE  LifecycleInv'
<1> USE DEF LifecycleInv, MainInv
<1>1. /\ close # None /\ CompletePause(close.session)
      /\ close' = None
      /\ task' = [NewTask("Close", "Drain") EXCEPT !.token = close.session,
                                                  !.request = close.required]
      /\ UNCHANGED <<authoring, destination, applied, autosaveInFlight, fault, used,
                     lastVersion>>
  BY DEF PollCloseQuiesced, openVars
<1>2. /\ close.session \in Sessions /\ close.required \in Option(RequestIds)
      /\ close.session \in used /\ Generation(close.session) < MaxGeneration
  BY <1>1 DEF MainTyped, SessionsUsed, Option
<1>3. PICK s \in Sessions, n \in Option(RequestIds) : s = close.session /\ n = close.required
  BY <1>2
<1> DEFINE t == [NewTask("Close", "Drain") EXCEPT !.token = s, !.request = n]
<1>4. /\ ServiceInv'
      /\ Phase(s)' = "Paused"
      /\ Generation(s)' = Generation(s)
  BY <1>1, <1>3, CompletePauseService
<1>5. t \in Task /\ t.op = "Close" /\ t.stage = "Drain" /\ t.token = s
  BY DEF NewTask, Task, Handlers, Stages, Option
<1>6. task' = t
  BY <1>1, <1>3
<1> HIDE DEF t
<1>7. MainTyped'
  BY <1>1, <1>5, <1>6 DEF MainTyped, Option
<1>8. Shaped(t)'
  BY <1>1, <1>2, <1>3, <1>4, <1>5 DEF Shaped, Creating
<1>9. (authoring # None => authoring.session \in used)'
  BY <1>1 DEF SessionsUsed
<1> QED
  BY <1>1, <1>4, <1>5, <1>6, <1>7, <1>8, <1>9, NextTask

LEMMA PollCloseFaultsKeeps ==
    ASSUME LifecycleInv, PollCloseFaults
    PROVE  LifecycleInv'
<1> USE DEF LifecycleInv, MainInv
<1>1. /\ task = None /\ close # None /\ PoisonPause(close.session)
      /\ fault' = close.session /\ close' = None
      /\ UNCHANGED <<authoring, destination, applied, autosaveInFlight, task, used,
                     lastVersion>>
  BY DEF PollCloseFaults, openVars
<1>2. close.session \in Sessions
  BY <1>1 DEF MainTyped, Option
<1>3. ServiceInv'
  BY <1>1, <1>2, PoisonPauseService
<1>4. MainTyped'
  BY <1>1, <1>2 DEF MainTyped, Option
<1>5. (authoring # None => authoring.session \in used)'
  BY <1>1 DEF SessionsUsed
<1> QED
  BY <1>1, <1>3, <1>4, <1>5, EndedTask

LEMMA BeginCloseKeeps ==
    ASSUME LifecycleInv, BeginClose
    PROVE  LifecycleInv'
<1> USE DEF LifecycleInv, MainInv
<1>1. /\ authoring # None
      /\ CanPause(authoring.session)
      /\ BeginPause(authoring.session)
      /\ close' = IF workerLive
                  THEN [session |-> authoring.session,
                        required |-> IF task = None THEN None ELSE task.request]
                  ELSE None
      /\ task' = None
      /\ UNCHANGED <<authoring, destination, applied, autosaveInFlight, fault, used,
                     lastVersion>>
  BY DEF BeginClose, openVars
<1>2. PICK s \in Sessions : s = authoring.session
  BY <1>1 DEF MainTyped, AuthoringSession, Option
<1>3. s \in used /\ Phase(s) = "Open" /\ Generation(s) < MaxGeneration
  BY <1>1, <1>2 DEF SessionsUsed, CanPause, Phase, Generation
<1>4. ServiceInv' /\ Generation(s)' = Generation(s)
  BY <1>1, <1>2, <1>3, BeginPauseService
<1>5. (IF task = None THEN None ELSE task.request) \in Option(RequestIds)
  BY DEF MainTyped, Task, Option
<1>6. close' # None => close'.session = s
  BY <1>1, <1>2
<1>7. MainTyped'
  BY <1>1, <1>2, <1>5 DEF MainTyped, Option
<1>8. (authoring # None => authoring.session \in used)'
  BY <1>1 DEF SessionsUsed
<1>9. (close # None => /\ close.session \in used
                       /\ Generation(close.session) < MaxGeneration)'
  BY <1>1, <1>3, <1>4, <1>6 DEF Generation
<1> QED
  BY <1>1, <1>4, <1>7, <1>8, <1>9, EndedTask

\* Handoffs that wait for a barrier.

LEMMA HandoffQuiescedKeeps ==
    ASSUME LifecycleInv, HandoffQuiesced
    PROVE  LifecycleInv'
<1> USE DEF LifecycleInv
<1>1. /\ task # None /\ task.stage = "Quiesce" /\ CompletePause(task.token)
      /\ task' = [task EXCEPT !.stage = "Drain"]
      /\ UNCHANGED <<authoring, destination, applied, autosaveInFlight, close, fault, used,
                     lastVersion>>
  BY DEF HandoffQuiesced, openVars, closeVars
<1>2. PICK t \in Task : t = task
  BY <1>1, TaskFacts
<1>3. Shaped(t) /\ close = None
  BY <1>1, <1>2, TaskFacts
<1>4. t.token \in Sessions
  BY <1>1, <1>2, <1>3 DEF Shaped
<1>5. /\ ServiceInv'
      /\ Phase(t.token)' = "Paused"
      /\ Generation(t.token)' = Generation(t.token)
  BY <1>1, <1>2, <1>4, CompletePauseService
<1> DEFINE u == [t EXCEPT !.stage = "Drain"]
<1>6. u \in Task /\ u.stage = "Drain" /\ u.op = t.op /\ u.file = t.file /\ u.token = t.token
  BY DEF Task, Stages
<1>7. task' = u
  BY <1>1, <1>2
<1> HIDE DEF u
<1>8. MainTyped'
  BY <1>1, <1>6, <1>7 DEF MainInv, MainTyped, Option
<1>9. Shaped(u)'
  BY <1>1, <1>3, <1>4, <1>5, <1>6, NoneFacts DEF Shaped, Creating
<1>10. (authoring # None => authoring.session \in used)'
  BY <1>1 DEF MainInv, SessionsUsed
<1> QED
  BY <1>1, <1>3, <1>5, <1>6, <1>7, <1>8, <1>9, <1>10, NextTask

LEMMA HandoffTimesOutKeeps ==
    ASSUME LifecycleInv, HandoffTimesOut
    PROVE  LifecycleInv'
<1> USE DEF LifecycleInv
<1>1. /\ task # None /\ task.stage = "Quiesce" /\ PoisonPause(task.token)
      /\ task' = None
      /\ UNCHANGED <<authoring, destination, applied, autosaveInFlight, close, fault, used,
                     lastVersion>>
  BY DEF HandoffTimesOut, openVars, closeVars
<1>2. task.token \in Sessions /\ close = None
  BY <1>1, TaskFacts DEF Shaped
<1>3. ServiceInv'
  BY <1>1, <1>2, PoisonPauseService
<1>4. MainTyped'
  BY <1>1 DEF MainInv, MainTyped, Option
<1>5. (authoring # None => authoring.session \in used)'
  BY <1>1 DEF MainInv, SessionsUsed
<1> QED
  BY <1>1, <1>2, <1>3, <1>4, <1>5, EndedTask

\* A step of the main thread that leaves the service alone.
LEMMA ServiceFrame ==
    ASSUME ServiceInv, UNCHANGED persistenceVars
    PROVE  /\ ServiceInv'
           /\ UNCHANGED <<admission, completions>>
<1>1. UNCHANGED <<admission, nextRequestId, queueVars, acknowledged, workerVars,
                  completions, files, recovery>>
  BY DEF persistenceVars, clientVars, diskVars
<1>2. /\ admission' \in [Sessions -> [phase : Phases, generation : 0 .. MaxGeneration,
                                      lastReserved : Option(Nat)]]
      /\ completions' \in Seq(Completion)
      /\ files' \in [Files -> Option(Content)]
      /\ recovery' \in [Projects -> [Files -> Option(Manifest)]]
  BY <1>1 DEF ServiceInv, ServiceTyped
<1>3. \A s \in Sessions : Generation(s)' = Generation(s) /\ Phase(s)' = Phase(s)
  BY <1>1 DEF Generation, Phase
<1> QED
  BY <1>1, <1>2, <1>3, AdmissionService

LEMMA DrainKeeps ==
    ASSUME LifecycleInv, Drain
    PROVE  LifecycleInv'
<1> USE DEF LifecycleInv
<1>1. CASE /\ \E reconciles \in BOOLEAN : ApplyCompletion(reconciles)
           /\ UNCHANGED task
  BY <1>1, ApplyKeeps
<1>2. CASE /\ completions = <<>>
           /\ task' = [task EXCEPT !.stage = "Finish"]
           /\ UNCHANGED <<openVars, closeVars, used, lastVersion, persistenceVars>>
  <2>1. /\ task # None /\ task.stage = "Drain"
        /\ UNCHANGED <<authoring, destination, applied, autosaveInFlight, close, fault, used,
                       lastVersion>>
    BY <1>2 DEF Drain, openVars, closeVars
  <2>2. PICK t \in Task : t = task
    BY <2>1, TaskFacts
  <2>3. Shaped(t) /\ close = None /\ t.stage = "Drain"
    BY <2>1, <2>2, TaskFacts
  <2>4. ServiceInv' /\ UNCHANGED <<admission, completions>>
    BY <1>2, ServiceFrame
  <2> DEFINE u == [t EXCEPT !.stage = "Finish"]
  <2>5. u \in Task /\ u.stage = "Finish" /\ u.op = t.op /\ u.file = t.file /\ u.token = t.token
    BY DEF Task, Stages
  <2>6. task' = u
    BY <1>2, <2>2
  <2> HIDE DEF u
  <2>7. MainTyped'
    BY <2>1, <2>5, <2>6 DEF MainInv, MainTyped, Option
  <2>8. Shaped(u)'
    BY <2>1, <2>3, <2>4, <2>5 DEF Shaped, Creating, Phase, Generation
  <2>9. (authoring # None => authoring.session \in used)'
    BY <2>1 DEF MainInv, SessionsUsed
  <2>10. DOMAIN completions' = {}
    BY <1>2, <2>4
  <2> QED
    BY <2>1, <2>3, <2>4, <2>5, <2>6, <2>7, <2>8, <2>9, <2>10, NextTask
<1> QED
  BY <1>1, <1>2 DEF Drain

LEMMA BeginHandoffKeeps ==
    ASSUME LifecycleInv, NEW op \in Handlers, NEW file \in Option(Files),
           op \in {"Open", "Recover", "Create"} => file \in Files,
           BeginHandoff(op, file)
    PROVE  LifecycleInv'
<1> USE DEF LifecycleInv
<1>1. /\ task = None /\ close = None
      /\ UNCHANGED <<authoring, destination, applied, autosaveInFlight, close, fault, used,
                     lastVersion>>
  BY DEF BeginHandoff, Idle, CloseBlocksActions, openVars, closeVars
<1> DEFINE n == [NewTask(op, "Finish") EXCEPT !.file = file]
<1>2. /\ n \in Task /\ n.stage = "Finish" /\ n.op = op /\ n.file = file /\ n.token = None
      /\ n = [op |-> op, stage |-> "Finish", token |-> None, request |-> None,
              file |-> file, candidate |-> None]
  BY DEF NewTask, Task, Handlers, Stages, Option
<1>3. (authoring # None => authoring.session \in used)'
  BY <1>1 DEF MainInv, SessionsUsed
<1>4. CASE authoring = None
  <2>1. task' = n /\ UNCHANGED persistenceVars
    BY <1>4 DEF BeginHandoff
  <2>2. ServiceInv' /\ UNCHANGED <<admission, completions>>
    BY <2>1, ServiceFrame
  <2> HIDE DEF n
  <2>3. MainTyped'
    BY <1>1, <1>2, <2>1 DEF MainInv, MainTyped, Option
  <2>4. Shaped(n)'
    BY <1>2 DEF Shaped, Creating
  <2>5. \A i \in DOMAIN completions' : completions'[i].request.session # n.token
    <3>1. \A i \in DOMAIN completions : completions[i] \in Completion
      BY DEF ServiceInv, ServiceTyped
    <3>2. \A i \in DOMAIN completions : completions[i].request.session \in Sessions
      BY <3>1 DEF Completion, RequestRecord
    <3> QED
      BY <1>2, <2>2, <3>2, NoneFacts
  <2> QED
    BY <1>1, <1>2, <1>3, <2>1, <2>2, <2>3, <2>4, <2>5, NextTask
<1>5. CASE authoring # None
  <2>1. /\ CanPause(authoring.session)
        /\ BeginPause(authoring.session)
        /\ task' = IF workerLive
                   THEN [n EXCEPT !.stage = "Quiesce", !.token = authoring.session]
                   ELSE None
    BY <1>5 DEF BeginHandoff
  <2>2. PICK s \in Sessions : s = authoring.session
    BY <1>5 DEF MainInv, MainTyped, AuthoringSession, Option
  <2>3. s \in used /\ Phase(s) = "Open" /\ Generation(s) < MaxGeneration
    BY <1>5, <2>1, <2>2 DEF MainInv, SessionsUsed, CanPause, Phase, Generation
  <2>4. ServiceInv' /\ Generation(s)' = Generation(s)
    BY <2>1, <2>2, <2>3, BeginPauseService
  <2>5. CASE workerLive
    <3> DEFINE u == [n EXCEPT !.stage = "Quiesce", !.token = s]
    <3>1. u \in Task /\ u.stage = "Quiesce" /\ u.op = op /\ u.file = file /\ u.token = s
      <4> HIDE DEF n
      <4>1. "Quiesce" \in Stages /\ s \in Option(Sessions)
        BY DEF Stages, Option
      <4>2. u \in Task
        BY <1>2, <4>1 DEF Task
      <4> QED
        BY <1>2, <4>2
    <3>2. task' = u
      BY <2>1, <2>2, <2>5
    <3> HIDE DEF u, n
    <3>3. MainTyped'
      BY <1>1, <3>1, <3>2 DEF MainInv, MainTyped, Option
    <3>4. Shaped(u)'
      BY <1>1, <2>3, <2>4, <3>1 DEF Shaped, Creating
    <3> QED
      BY <1>1, <1>3, <2>4, <3>1, <3>2, <3>3, <3>4, NextTask
  <2>6. CASE ~workerLive
    <3>1. task' = None
      BY <2>1, <2>6
    <3>2. MainTyped'
      BY <1>1, <3>1 DEF MainInv, MainTyped, Option
    <3> QED
      BY <1>1, <1>3, <2>4, <3>1, <3>2, EndedTask
  <2> QED
    BY <2>5, <2>6
<1> QED
  BY <1>4, <1>5

\* Handlers that end by retiring or resuming the session they paused.

LEMMA RetireService ==
    ASSUME ServiceInv, NEW s \in Option(Sessions), OnlyAdmission(Retired(admission, s))
    PROVE  ServiceInv' /\ \A o \in Sessions : Generation(o)' = Generation(o)
<1> DEFINE new == Retired(admission, s)
<1>1. admission \in AdmissionMap
  BY DEF ServiceInv, ServiceTyped, AdmissionMap
<1>2. /\ new \in AdmissionMap
      /\ \A o \in Sessions :
             /\ new[o].generation = Generation(o)
             /\ o # s => new[o].phase = Phase(o)
             /\ o = s => new[o].phase = "Retired"
  BY <1>1, RetiredFacts DEF Phase, Generation
<1>3. OnlyAdmission(new)
  OBVIOUS
<1> HIDE DEF new
<1> QED
  BY <1>2, <1>3, OnlyAdmissionService

LEMMA ResumeService ==
    ASSUME ServiceInv, NEW s \in Option(Sessions), OnlyAdmission(Resumed(admission, s)),
           s # None => Generation(s) < MaxGeneration /\ Phase(s) = "Paused"
    PROVE  ServiceInv'
<1> DEFINE new == Resumed(admission, s)
<1>1. admission \in AdmissionMap
  BY DEF ServiceInv, ServiceTyped, AdmissionMap
<1>2. s # None => admission[s].generation < MaxGeneration
  BY DEF Generation
<1>3. /\ new \in AdmissionMap
      /\ \A o \in Sessions :
             /\ o # s => new[o].phase = Phase(o) /\ new[o].generation = Generation(o)
             /\ o = s => new[o].phase = "Open" /\ new[o].generation > Generation(o)
  BY <1>1, <1>2, ResumedFacts DEF Phase, Generation
<1>4. OnlyAdmission(new)
  OBVIOUS
<1> HIDE DEF new
<1>5. \A o \in Sessions : o = s => Phase(o) = "Paused"
  BY NoneFacts
<1> QED
  BY <1>3, <1>4, <1>5, OnlyAdmissionService

LEMMA FinishCloseKeeps ==
    ASSUME LifecycleInv, FinishClose
    PROVE  LifecycleInv'
<1> USE DEF LifecycleInv
<1>1. /\ task # None /\ OnlyAdmission(Retired(admission, task.token))
      /\ authoring' = None /\ destination' = None /\ applied' = None
      /\ autosaveInFlight' = None /\ fault' = None /\ task' = None
      /\ UNCHANGED <<close, used, lastVersion>>
  BY DEF FinishClose, Finalize
<1>2. task.token \in Option(Sessions) /\ close = None
  BY <1>1, TaskFacts DEF Task
<1>3. ServiceInv'
  BY <1>1, <1>2, RetireService
<1>4. MainTyped'
  BY <1>1 DEF MainInv, MainTyped, Option
<1> QED
  BY <1>1, <1>2, <1>3, <1>4, EndedTask

LEMMA ForceCloseKeeps ==
    ASSUME LifecycleInv, ForceClose
    PROVE  LifecycleInv'
<1> USE DEF LifecycleInv
<1>1. /\ task = None /\ OnlyAdmission(Retired(admission, fault))
      /\ authoring' = None /\ destination' = None /\ applied' = None
      /\ autosaveInFlight' = None /\ fault' = None
      /\ UNCHANGED <<close, task, used, lastVersion>>
  BY DEF ForceClose, Finalize
<1>2. fault \in Option(Sessions)
  BY DEF MainInv, MainTyped
<1>3. ServiceInv' /\ \A o \in Sessions : Generation(o)' = Generation(o)
  BY <1>1, <1>2, RetireService
<1>4. MainTyped'
  BY <1>1 DEF MainInv, MainTyped, Option
<1>5. (close # None => /\ close.session \in used
                       /\ Generation(close.session) < MaxGeneration)'
  <2>1. close # None => /\ close.session \in Sessions /\ close.session \in used
                        /\ Generation(close.session) < MaxGeneration
    BY DEF MainInv, MainTyped, SessionsUsed, Option
  <2> QED
    BY <1>1, <1>3, <2>1 DEF Generation
<1> QED
  BY <1>1, <1>3, <1>4, <1>5, EndedTask

\* What a handler that has drained resumes or retires is paused.
LEMMA FinishToken ==
    ASSUME MainInv, task # None, task.stage \in {"Finish", "EndDiscard"}
    PROVE  /\ task.token \in Option(Sessions)
           /\ task.token # None =>
                  /\ Generation(task.token) < MaxGeneration
                  /\ Phase(task.token) = "Paused"
BY TaskFacts DEF Task, Shaped

\* A handler that ends with nothing but admission changed.
LEMMA EndsInAdmission ==
    ASSUME MainInv, task # None, task' = None,
           UNCHANGED <<openVars, closeVars, used, lastVersion>>
    PROVE  MainInv'
<1>1. close = None
  BY TaskFacts
<1>2. UNCHANGED <<authoring, destination, applied, autosaveInFlight, close, fault, used,
                  lastVersion>>
  BY DEF openVars, closeVars
<1>3. MainTyped'
  BY <1>2 DEF MainInv, MainTyped, Option
<1>4. (authoring # None => authoring.session \in used)'
  BY <1>2 DEF MainInv, SessionsUsed
<1> QED
  BY <1>1, <1>2, <1>3, <1>4, EndedTask

LEMMA RejectCloseKeeps ==
    ASSUME LifecycleInv, RejectClose
    PROVE  LifecycleInv'
BY FinishToken, ResumeService, EndsInAdmission DEF LifecycleInv, RejectClose

LEMMA HandoffFailsKeeps ==
    ASSUME LifecycleInv, HandoffFails
    PROVE  LifecycleInv'
BY FinishToken, ResumeService, EndsInAdmission DEF LifecycleInv, HandoffFails

LEMMA EndDiscardKeeps ==
    ASSUME LifecycleInv, EndDiscard
    PROVE  LifecycleInv'
<1> USE DEF LifecycleInv
<1> DEFINE d == IF admission[task.candidate.session].phase = "Paused"
                THEN Retired(admission, task.candidate.session) ELSE admission
           new == Resumed(d, task.token)
<1>1. /\ task # None /\ task.stage = "EndDiscard" /\ OnlyAdmission(new)
      /\ task' = None
      /\ UNCHANGED <<openVars, closeVars, used, lastVersion>>
  BY DEF EndDiscard
<1>2. /\ task.candidate.session \in Sessions
      /\ task.candidate.session # task.token
  BY <1>1, TaskFacts DEF Shaped, Creating, AuthoringSession
<1>3. /\ task.token \in Option(Sessions)
      /\ task.token # None =>
             /\ Generation(task.token) < MaxGeneration
             /\ Phase(task.token) = "Paused"
  BY <1>1, FinishToken
<1>4. admission \in AdmissionMap
  BY DEF ServiceInv, ServiceTyped, AdmissionMap
<1>5. /\ d \in AdmissionMap
      /\ \A o \in Sessions :
             /\ d[o].generation = Generation(o)
             /\ d[o].phase = Phase(o) \/ d[o].phase = "Retired"
      /\ task.token # None => d[task.token].phase = Phase(task.token)
  <2>1. task.candidate.session \in Option(Sessions)
    BY <1>2 DEF Option
  <2>2. task.token # None => task.token \in Sessions
    BY <1>3 DEF Option
  <2> QED
    BY <1>2, <1>4, <2>1, <2>2, RetiredFacts DEF Phase, Generation
<1> HIDE DEF d
<1>6. task.token # None => d[task.token].generation < MaxGeneration
  BY <1>3, <1>5 DEF Option
<1>7. /\ new \in AdmissionMap
      /\ \A o \in Sessions :
             /\ o # task.token => /\ new[o].phase = d[o].phase
                                  /\ new[o].generation = d[o].generation
             /\ o = task.token => /\ new[o].phase = "Open"
                                  /\ new[o].generation > d[o].generation
  BY <1>3, <1>5, <1>6, ResumedFacts
<1> HIDE DEF new
<1>8. \A o \in Sessions :
          \/ new[o].generation = Generation(o) /\ new[o].phase = Phase(o)
          \/ new[o].generation = Generation(o) /\ new[o].phase \in {"Retired", "Poisoned"}
          \/ new[o].generation > Generation(o) /\ Phase(o) = "Paused"
  BY <1>3, <1>5, <1>7, NoneFacts
<1>9. ServiceInv'
  BY <1>1, <1>7, <1>8, OnlyAdmissionService
<1> QED
  BY <1>1, <1>9, EndsInAdmission

\* Installing a candidate.

LEMMA InstallKeeps ==
    ASSUME LifecycleInv, task # None, NEW x \in AuthoringSession, Install(x)
    PROVE  LifecycleInv'
<1> USE DEF LifecycleInv
<1>1. /\ authoring' = x /\ destination' = None /\ applied' = None
      /\ autosaveInFlight' = None /\ task' = None
      /\ used' = used \cup {x.session}
      /\ OnlyAdmission(Retired(admission, task.token))
      /\ UNCHANGED <<close, fault, lastVersion>>
  BY DEF Install, closeVars
<1>2. task.token \in Option(Sessions) /\ close = None
  BY TaskFacts DEF Task
<1>3. ServiceInv'
  BY <1>1, <1>2, RetireService
<1>4. x.session \in Sessions
  BY DEF AuthoringSession
<1>5. MainTyped'
  BY <1>1, <1>4 DEF MainInv, MainTyped, Option
<1>6. (authoring # None => authoring.session \in used)'
  BY <1>1
<1> QED
  BY <1>1, <1>2, <1>3, <1>5, <1>6, EndedTask

LEMMA InstallOpenedKeeps ==
    ASSUME LifecycleInv, NEW s \in Sessions, InstallOpened(s)
    PROVE  LifecycleInv'
<1> DEFINE content == files[task.file]
           x == [session |-> s, project |-> content.project,
                 root |-> task.file, file |-> task.file,
                 version |-> content.version, revision |-> content.revision,
                 saved |-> content.version, autosaved |-> None]
<1>1. task # None /\ task.op = "Open" /\ Install(x)
      /\ content # None /\ content.project # None
  BY DEF InstallOpened
<1>2. task.file \in Files
  BY <1>1, TaskFacts DEF LifecycleInv, Shaped
<1>3. content \in Content
  BY <1>1, <1>2 DEF LifecycleInv, ServiceInv, ServiceTyped, Option
<1>4. /\ content.project \in Projects /\ content.version \in Versions
      /\ content.revision \in Nat
  BY <1>1, <1>3 DEF Content, Option
<1>5. x \in AuthoringSession
  BY <1>2, <1>4 DEF AuthoringSession, Option
<1> QED
  BY <1>1, <1>5, InstallKeeps

LEMMA InstallRecoveredKeeps ==
    ASSUME LifecycleInv, NEW s \in Sessions, InstallRecovered(s)
    PROVE  LifecycleInv'
<1>1. task # None /\ task.op = "Recover"
  BY DEF InstallRecovered
<1>2. task.file \in Files
  BY <1>1, TaskFacts DEF LifecycleInv, Shaped
<1>3. PICK project \in Projects : \E p \in Recoverable(project, task.file) :
          Install([session |-> s, project |-> project, root |-> task.file,
                   file |-> recovery[project][task.file].file, version |-> p.version,
                   revision |-> p.revision, saved |-> None, autosaved |-> None])
  BY DEF InstallRecovered
<1> DEFINE manifest == recovery[project][task.file]
<1>4. PICK p \in Recoverable(project, task.file) :
          Install([session |-> s, project |-> project, root |-> task.file,
                   file |-> manifest.file, version |-> p.version,
                   revision |-> p.revision, saved |-> None, autosaved |-> None])
  BY <1>3
<1>5. manifest # None /\ p \in manifest.points
  BY <1>4 DEF Recoverable
<1>6. manifest \in Manifest
  <2>1. manifest \in Option(Manifest)
    BY <1>2, <1>3 DEF LifecycleInv, ServiceInv, ServiceTyped
  <2> QED
    BY <1>5, <2>1 DEF Option
<1>7. manifest.file \in Files /\ p.version \in Versions /\ p.revision \in Nat
  BY <1>5, <1>6 DEF Manifest
<1> HIDE DEF manifest
<1>8. [session |-> s, project |-> project, root |-> task.file,
       file |-> manifest.file, version |-> p.version,
       revision |-> p.revision, saved |-> None, autosaved |-> None] \in AuthoringSession
  BY <1>2, <1>7 DEF AuthoringSession, Option
<1> QED
  BY <1>1, <1>4, <1>8, InstallKeeps

\* Requests that are submitted.

\* A manual request carries the generation its session is admitted in.
LEMMA ManualRequestType ==
    ASSUME ServiceTyped, nextRequestId <= MaxRequests,
           NEW s \in Sessions, NEW project \in Projects, NEW root \in Files,
           NEW version \in Versions, NEW documentRevision \in Nat,
           NEW d \in ManualProjectFileDestination
    PROVE  LET r == ManualRequest(s, project, root, version, documentRevision, d) IN
           /\ r \in RequestRecord
           /\ r.session = s
           /\ r.generation = Generation(s)
<1>1. nextRequestId \in RequestIds
  BY PersistenceAssumption DEF ServiceTyped, RequestIds
<1>2. Generation(s) \in Nat /\ admission[s].lastReserved \in Nat \cup {None}
  BY AdmissionFacts DEF Option
<1>3. ReservedRevision(s, documentRevision) \in Nat
  BY <1>2 DEF ReservedRevision
<1>4. d.revision \in Option(Nat) /\ d.file \in Files /\ d.publication \in Publications
  BY DEF ManualProjectFileDestination, Option
<1> QED
  BY <1>1, <1>2, <1>3, <1>4 DEF ManualRequest, RequestRecord, Generation

LEMMA AutosaveRequestType ==
    ASSUME ServiceTyped, nextRequestId <= MaxRequests,
           NEW s \in Sessions, NEW project \in Projects, NEW root \in Files,
           NEW version \in Versions, NEW documentRevision \in Nat, NEW locator \in Files
    PROVE  LET r == AutosaveRequest(s, project, root, version, documentRevision, locator) IN
           /\ r \in RequestRecord
           /\ r.session = s
           /\ r.generation = Generation(s)
<1>1. nextRequestId \in RequestIds
  BY PersistenceAssumption DEF ServiceTyped, RequestIds
<1>2. Generation(s) \in Nat
  BY AdmissionFacts
<1> QED
  BY <1>1, <1>2 DEF AutosaveRequest, RequestRecord, Generation, Option, Publications

LEMMA RetargetedType ==
    ASSUME MainTyped, authoring # None, NEW target \in Option(Files)
    PROVE  Retargeted(target) \in ManualProjectFileDestination
<1>1. authoring.file \in Files
  BY DEF MainTyped, Option, AuthoringSession
<1>2. \A f \in Files : PublicationTo(f) \in Publications
  BY DEF PublicationTo, Publications
<1>3. "ReplaceExisting" \in Publications
  BY DEF Publications
<1>4. destination # None =>
          destination \in ManualProjectFileDestination /\ destination.revision \in Nat
  BY DEF MainTyped, Option, ManualProjectFileDestination
<1>5. target # None => target \in Files
  BY DEF Option
<1> QED
  BY <1>1, <1>2, <1>3, <1>4, <1>5 DEF Retargeted, ManualProjectFileDestination

LEMMA SubmitSaveKeeps ==
    ASSUME LifecycleInv, NEW target \in Option(Files), SubmitSave(target)
    PROVE  /\ ServiceInv'
           /\ nextRequestId \in RequestIds
           /\ destination' \in ManualProjectFileDestination
           /\ applied' \in Option(AppliedRequest)
           /\ task = None /\ close = None
           /\ UNCHANGED <<authoring, autosaveInFlight, close, fault, used, lastVersion>>
           /\ \A o \in Sessions : Phase(o)' = Phase(o) /\ Generation(o)' = Generation(o)
<1> USE DEF LifecycleInv, MainInv
<1> DEFINE d == Retargeted(target)
           r == ManualRequest(authoring.session, authoring.project, authoring.root,
                              authoring.version, authoring.revision, d)
<1>1. /\ authoring # None /\ task = None /\ close = None
      /\ CanSubmit(authoring.session) /\ Submit(r)
      /\ destination' = d
      /\ applied' = IF destination = d THEN applied ELSE None
      /\ UNCHANGED <<authoring, autosaveInFlight, close, fault, used, lastVersion>>
  BY DEF SubmitSave, Idle, CloseBlocksActions, closeVars
<1>2. d \in ManualProjectFileDestination
  BY <1>1, RetargetedType
<1>3. /\ authoring.session \in Sessions /\ authoring.project \in Projects
      /\ authoring.root \in Files /\ authoring.version \in Versions
      /\ authoring.revision \in Nat
  BY <1>1 DEF MainTyped, Option, AuthoringSession
<1>4. nextRequestId <= MaxRequests
  BY <1>1 DEF CanSubmit
<1>5. nextRequestId \in RequestIds
  BY <1>4, PersistenceAssumption DEF ServiceInv, ServiceTyped, RequestIds
<1> HIDE DEF d
<1>6. r \in RequestRecord /\ r.session = authoring.session
      /\ r.generation = Generation(authoring.session)
  BY <1>2, <1>3, <1>4, ManualRequestType DEF ServiceInv
<1> HIDE DEF r
<1>7. ServiceInv' /\ \A o \in Sessions : Phase(o)' = Phase(o) /\ Generation(o)' = Generation(o)
  BY <1>1, <1>6, SubmitService
<1>8. applied' \in Option(AppliedRequest)
  BY <1>1 DEF MainTyped, Option
<1> QED
  BY <1>1, <1>2, <1>5, <1>7, <1>8

LEMMA RequestSaveKeeps ==
    ASSUME LifecycleInv, NEW target \in Option(Files), RequestSave(target)
    PROVE  LifecycleInv'
<1>1. SubmitSave(target) /\ UNCHANGED task
  BY DEF RequestSave
<1>2. /\ ServiceInv'
      /\ destination' \in ManualProjectFileDestination
      /\ applied' \in Option(AppliedRequest)
      /\ task' = None
      /\ UNCHANGED <<authoring, autosaveInFlight, close, fault, used, lastVersion>>
      /\ \A o \in Sessions : Generation(o)' = Generation(o)
      /\ close = None
  BY <1>1, SubmitSaveKeeps
<1>3. MainTyped'
  BY <1>2 DEF LifecycleInv, MainInv, MainTyped, Option
<1>4. (authoring # None => authoring.session \in used)'
  BY <1>2 DEF LifecycleInv, MainInv, SessionsUsed
<1> QED
  BY <1>2, <1>3, <1>4, EndedTask DEF LifecycleInv

LEMMA SaveThenCloseKeeps ==
    ASSUME LifecycleInv, SaveThenClose
    PROVE  LifecycleInv'
<1>1. SubmitSave(None) /\ None \in Option(Files)
      /\ task' = [NewTask("SaveThenClose", "BeginClose") EXCEPT !.request = nextRequestId]
  BY DEF SaveThenClose, Option
<1>2. /\ ServiceInv'
      /\ nextRequestId \in RequestIds
      /\ destination' \in ManualProjectFileDestination
      /\ applied' \in Option(AppliedRequest)
      /\ UNCHANGED <<authoring, autosaveInFlight, close, fault, used, lastVersion>>
      /\ close = None
  BY <1>1, SubmitSaveKeeps
<1>3. PICK n \in RequestIds : n = nextRequestId
  BY <1>2
<1> DEFINE t == [NewTask("SaveThenClose", "BeginClose") EXCEPT !.request = n]
<1>4. /\ t \in Task /\ t.op = "SaveThenClose" /\ t.stage = "BeginClose" /\ t.token = None
      /\ task' = t
  BY <1>1, <1>3 DEF NewTask, Task, Handlers, Stages, Option
<1> HIDE DEF t
<1>5. MainTyped'
  BY <1>2, <1>4 DEF LifecycleInv, MainInv, MainTyped, Option
<1>6. (authoring # None => authoring.session \in used)'
  BY <1>2 DEF LifecycleInv, MainInv, SessionsUsed
<1>7. Shaped(t)'
  BY <1>4 DEF Shaped, Creating
<1> QED
  BY <1>2, <1>4, <1>5, <1>6, <1>7, NextTask DEF LifecycleInv

LEMMA RequestAutosaveKeeps ==
    ASSUME LifecycleInv, RequestAutosave
    PROVE  LifecycleInv'
<1> USE DEF LifecycleInv, MainInv
<1> DEFINE r == AutosaveRequest(authoring.session, authoring.project, authoring.root,
                                authoring.version, authoring.revision, authoring.file)
<1>1. /\ authoring # None /\ task = None /\ close = None
      /\ CanSubmit(authoring.session) /\ Submit(r)
      /\ autosaveInFlight' = nextRequestId
      /\ UNCHANGED <<authoring, destination, applied, close, fault, task, used, lastVersion>>
  BY DEF RequestAutosave, Idle, CloseBlocksActions, closeVars
<1>2. /\ authoring.session \in Sessions /\ authoring.project \in Projects
      /\ authoring.root \in Files /\ authoring.version \in Versions
      /\ authoring.revision \in Nat /\ authoring.file \in Files
  BY <1>1 DEF MainTyped, Option, AuthoringSession
<1>3. nextRequestId <= MaxRequests
  BY <1>1 DEF CanSubmit
<1>4. nextRequestId \in RequestIds
  BY <1>3, PersistenceAssumption DEF ServiceInv, ServiceTyped, RequestIds
<1>5. r \in RequestRecord /\ r.session = authoring.session
      /\ r.generation = Generation(authoring.session)
  BY <1>2, <1>3, AutosaveRequestType DEF ServiceInv
<1> HIDE DEF r
<1>6. ServiceInv'
  BY <1>1, <1>5, SubmitService
<1>7. MainTyped'
  BY <1>1, <1>4 DEF MainTyped, Option
<1>8. (authoring # None => authoring.session \in used)'
  BY <1>1 DEF SessionsUsed
<1> QED
  BY <1>1, <1>6, <1>7, <1>8, EndedTask

LEMMA EditKeeps ==
    ASSUME LifecycleInv, Edit
    PROVE  LifecycleInv'
<1> USE DEF LifecycleInv, MainInv
<1>1. /\ authoring # None /\ task = None /\ close = None
      /\ lastVersion < MaxVersion
      /\ lastVersion' = lastVersion + 1
      /\ authoring' = [authoring EXCEPT !.version = lastVersion + 1]
      /\ UNCHANGED <<destination, applied, autosaveInFlight, close, fault, task, used,
                     persistenceVars>>
  BY DEF Edit, Idle, CloseBlocksActions, closeVars
<1>2. authoring \in AuthoringSession /\ authoring.session \in used
  BY <1>1 DEF MainTyped, Option, SessionsUsed
<1>3. lastVersion + 1 \in Versions
  BY <1>1, PersistenceAssumption DEF MainTyped, Versions
<1>4. authoring' \in AuthoringSession /\ authoring'.session = authoring.session
  BY <1>1, <1>2, <1>3 DEF AuthoringSession
<1>5. MainTyped'
  BY <1>1, <1>3, <1>4 DEF MainTyped, Option
<1>6. (authoring # None => authoring.session \in used)'
  BY <1>1, <1>2, <1>4
<1>7. ServiceInv'
  BY <1>1, ServiceFrame
<1> QED
  BY <1>1, <1>5, <1>6, <1>7, EndedTask

\* Creation: the candidate's first save, and what becomes of the candidate.

LEMMA CreateSubmitsKeeps ==
    ASSUME LifecycleInv, NEW s \in Fresh, CreateSubmits(s)
    PROVE  LifecycleInv'
<1> USE DEF LifecycleInv
<1> DEFINE d == [revision |-> 1, file |-> task.file, publication |-> "CreateNew"]
           r == ManualRequest(s, s, task.file, lastVersion + 1, 1, d)
           new == [session |-> s, project |-> s, root |-> task.file,
                   file |-> task.file, version |-> lastVersion + 1, revision |-> 1,
                   saved |-> None, autosaved |-> None]
<1>1. /\ task # None /\ task.op = "Create" /\ task.stage = "Finish"
      /\ CanSubmit(s) /\ lastVersion < MaxVersion /\ Submit(r)
      /\ lastVersion' = lastVersion + 1
      /\ used' = used \cup {s}
      /\ task' = [task EXCEPT !.stage = "Publish", !.request = nextRequestId,
                              !.candidate = new]
      /\ UNCHANGED <<authoring, destination, applied, autosaveInFlight, close, fault>>
  BY DEF CreateSubmits, openVars, closeVars
<1>2. PICK t \in Task : t = task
  BY <1>1, TaskFacts
<1>3. Shaped(t) /\ close = None /\ t.op = "Create" /\ t.stage = "Finish"
  BY <1>1, <1>2, TaskFacts
<1>4. t.file \in Files
  BY <1>3 DEF Shaped
<1>5. s \in Sessions /\ s \notin used /\ s \in Projects
  BY DEF Fresh, Projects
<1>6. lastVersion \in Versions /\ lastVersion + 1 \in Versions
  BY <1>1, PersistenceAssumption DEF MainInv, MainTyped, Versions
<1>7. nextRequestId <= MaxRequests /\ nextRequestId \in RequestIds
  BY <1>1, PersistenceAssumption DEF CanSubmit, ServiceInv, ServiceTyped, RequestIds
<1>8. d \in ManualProjectFileDestination
  BY <1>2, <1>4 DEF ManualProjectFileDestination, Publications
<1>9. r \in RequestRecord /\ r.session = s /\ r.generation = Generation(s)
  <2> HIDE DEF d
  <2>1. task.file \in Files /\ 1 \in Nat
    BY <1>2, <1>4
  <2> QED
    BY <1>5, <1>6, <1>7, <1>8, <2>1, ManualRequestType DEF ServiceInv
<1> HIDE DEF r, d
<1>10. /\ ServiceInv'
       /\ \A o \in Sessions : Phase(o)' = Phase(o) /\ Generation(o)' = Generation(o)
  BY <1>1, <1>9, SubmitService
<1>11. PICK n \in RequestIds, v \in Versions : n = nextRequestId /\ v = lastVersion + 1
  BY <1>6, <1>7
<1> DEFINE x == [session |-> s, project |-> s, root |-> t.file, file |-> t.file,
                 version |-> v, revision |-> 1, saved |-> None, autosaved |-> None]
           u == [t EXCEPT !.stage = "Publish", !.request = n, !.candidate = x]
<1>12. x \in AuthoringSession /\ x.session = s
  BY <1>4, <1>5 DEF AuthoringSession, Option
<1>13. new = x
  BY <1>2, <1>11
<1> HIDE DEF x, new
<1>14. /\ u \in Task /\ u.op = "Create" /\ u.stage = "Publish" /\ u.token = t.token
       /\ u.request = n /\ u.file = t.file /\ u.candidate = x
  <2>1. "Publish" \in Stages /\ n \in Option(RequestIds) /\ x \in Option(AuthoringSession)
    BY <1>12 DEF Stages, Option
  <2> QED
    BY <1>3, <2>1 DEF Task
<1>15. task' = u
  BY <1>1, <1>2, <1>11, <1>13
<1> HIDE DEF u
<1>16. MainTyped'
  BY <1>1, <1>5, <1>6, <1>14, <1>15 DEF MainInv, MainTyped, Option
<1>17. Phase(s) = "Open"
  BY <1>1 DEF CanSubmit, Phase
<1>18. t.token # None => /\ t.token \in Sessions /\ t.token \in used
                         /\ Generation(t.token) < MaxGeneration
                         /\ Phase(t.token) = "Paused"
  BY <1>3 DEF Shaped, Task, Option
<1>19. s # t.token
  BY <1>5, <1>18, NoneFacts
<1>20. Shaped(u)'
  BY <1>1, <1>4, <1>5, <1>10, <1>12, <1>14, <1>17, <1>18, <1>19 DEF Shaped, Creating
<1>21. (authoring # None => authoring.session \in used)'
  BY <1>1 DEF MainInv, SessionsUsed
<1> QED
  BY <1>1, <1>3, <1>10, <1>14, <1>15, <1>16, <1>20, <1>21, NextTask

LEMMA InstallCreatedKeeps ==
    ASSUME LifecycleInv, InstallCreated
    PROVE  LifecycleInv'
<1> USE DEF LifecycleInv
<1> DEFINE c == Head(completions)
<1>1. /\ task # None /\ task.stage = "Publish" /\ completions # <<>>
      /\ completions' = Tail(completions)
      /\ authoring' = MarkSaved(task.candidate, c)
      /\ destination' = [revision |-> 1, file |-> task.file,
                         publication |-> "ReplaceExisting"]
      /\ applied' = [destination |-> destination', request |-> task.request]
      /\ autosaveInFlight' = None
      /\ admission' = Retired(admission, task.token)
      /\ task' = None
      /\ UNCHANGED <<close, fault, used, lastVersion, nextRequestId, queueVars,
                     acknowledged, workerVars, files, recovery>>
  BY DEF InstallCreated, closeVars, diskVars
<1>2. /\ task \in Task /\ close = None
      /\ task.file \in Files /\ task.request \in RequestIds
      /\ task.candidate \in AuthoringSession
      /\ task.candidate.session \in used
      /\ task.token \in Option(Sessions)
  BY <1>1, TaskFacts DEF Shaped, Creating, Task
<1>3. c \in Completion /\ completions' \in Seq(Completion)
  BY <1>1, TailFacts DEF ServiceInv, ServiceTyped
<1> HIDE DEF c
<1>4. authoring' \in AuthoringSession /\ authoring'.session \in used
  BY <1>1, <1>2, <1>3, MarkTypes
<1>5. destination' \in ManualProjectFileDestination
  BY <1>1, <1>2 DEF ManualProjectFileDestination, Publications
<1>6. applied' \in AppliedRequest
  BY <1>1, <1>2, <1>5 DEF AppliedRequest
<1>7. MainTyped'
  BY <1>1, <1>4, <1>5, <1>6 DEF MainInv, MainTyped, Option
<1>8. admission \in AdmissionMap
  BY DEF ServiceInv, ServiceTyped, AdmissionMap
<1>9. /\ admission' \in AdmissionMap
      /\ \A o \in Sessions :
             /\ Generation(o)' = Generation(o)
             /\ Phase(o)' = Phase(o) \/ Phase(o)' = "Retired"
  BY <1>1, <1>2, <1>8, RetiredFacts DEF Phase, Generation
<1>10. ServiceInv'
  <2>1. /\ files' \in [Files -> Option(Content)]
        /\ recovery' \in [Projects -> [Files -> Option(Manifest)]]
    BY <1>1 DEF ServiceInv, ServiceTyped
  <2> QED
    BY <1>1, <1>3, <1>9, <2>1, AdmissionService DEF AdmissionMap
<1> QED
  BY <1>1, <1>2, <1>4, <1>7, <1>10, EndedTask

LEMMA CreateFailsKeeps ==
    ASSUME LifecycleInv, CreateFails
    PROVE  LifecycleInv'
<1> USE DEF LifecycleInv
<1>1. /\ task # None /\ task.stage = "Publish"
      /\ \/ completions # <<>> /\ completions' = Tail(completions)
         \/ UNCHANGED completions
      /\ task' = [task EXCEPT !.stage = "BeginDiscard"]
      /\ UNCHANGED <<authoring, destination, applied, autosaveInFlight, close, fault, used,
                     lastVersion, admission, nextRequestId, queueVars, acknowledged,
                     workerVars, files, recovery>>
  BY DEF CreateFails, openVars, closeVars, clientVars, diskVars
<1>2. completions' \in Seq(Completion)
  <2>1. completions \in Seq(Completion)
    BY DEF ServiceInv, ServiceTyped
  <2>2. completions # <<>> => Tail(completions) \in Seq(Completion)
    BY <2>1, TailFacts
  <2> QED
    BY <1>1, <2>1, <2>2
<1>3. ServiceInv'
  <2>1. \A s \in Sessions : Generation(s)' = Generation(s) /\ Phase(s)' = Phase(s)
    BY <1>1 DEF Generation, Phase
  <2>2. /\ admission' \in [Sessions -> [phase : Phases, generation : 0 .. MaxGeneration,
                                        lastReserved : Option(Nat)]]
        /\ files' \in [Files -> Option(Content)]
        /\ recovery' \in [Projects -> [Files -> Option(Manifest)]]
    BY <1>1 DEF ServiceInv, ServiceTyped
  <2> QED
    BY <1>1, <1>2, <2>1, <2>2, AdmissionService
<1>4. PICK t \in Task : t = task
  BY <1>1, TaskFacts
<1>5. Shaped(t) /\ close = None /\ t.stage = "Publish"
  BY <1>1, <1>4, TaskFacts
<1> DEFINE u == [t EXCEPT !.stage = "BeginDiscard"]
<1>6. /\ u \in Task /\ u.op = t.op /\ u.stage = "BeginDiscard" /\ u.token = t.token
      /\ u.request = t.request /\ u.file = t.file /\ u.candidate = t.candidate
  BY DEF Task, Stages
<1>7. task' = u
  BY <1>1, <1>4
<1> HIDE DEF u
<1>8. MainTyped'
  BY <1>1, <1>6, <1>7 DEF MainInv, MainTyped, Option
<1>9. Shaped(u)'
  BY <1>1, <1>5, <1>6 DEF Shaped, Creating, Phase, Generation
<1>10. (authoring # None => authoring.session \in used)'
  BY <1>1 DEF MainInv, SessionsUsed
<1> QED
  BY <1>1, <1>3, <1>5, <1>6, <1>7, <1>8, <1>9, <1>10, NextTask

\* A step of the discard of a candidate other than the session paused before.
LEMMA DiscardGoesOn ==
    ASSUME LifecycleInv, task # None, task.stage \in {"BeginDiscard", "Discard"},
           NEW stage \in {"Discard", "EndDiscard"},
           task' = [task EXCEPT !.stage = stage],
           UNCHANGED <<openVars, closeVars, used, lastVersion>>,
           \A o \in Sessions :
               /\ Generation(o)' = Generation(o)
               /\ o # task.candidate.session => Phase(o)' = Phase(o)
    PROVE  MainInv'
<1> USE DEF LifecycleInv
<1>1. UNCHANGED <<authoring, destination, applied, autosaveInFlight, close, fault, used,
                  lastVersion>>
  BY DEF openVars, closeVars
<1>2. PICK t \in Task : t = task
  BY TaskFacts
<1>3. Shaped(t) /\ close = None /\ t.stage \in {"BeginDiscard", "Discard"}
  BY <1>2, TaskFacts
<1> DEFINE u == [t EXCEPT !.stage = stage]
<1>4. /\ u \in Task /\ u.op = t.op /\ u.stage = stage /\ u.token = t.token
      /\ u.request = t.request /\ u.file = t.file /\ u.candidate = t.candidate
  BY DEF Task, Stages
<1>5. task' = u
  BY <1>2
<1> HIDE DEF u
<1>6. MainTyped'
  BY <1>1, <1>4, <1>5 DEF MainInv, MainTyped, Option
<1>7. /\ t.file \in Files
      /\ t.request \in RequestIds
      /\ t.candidate \in AuthoringSession
      /\ t.candidate.session \in used \ {t.token}
  BY <1>3 DEF Shaped, Creating
<1>8. t.token # None => /\ t.token \in Sessions /\ t.token \in used
                        /\ Generation(t.token) < MaxGeneration
                        /\ Phase(t.token) = "Paused"
  BY <1>3 DEF Shaped, Task, Option
<1>9. t.token # None => /\ Generation(t.token)' < MaxGeneration
                        /\ Phase(t.token)' = "Paused"
  BY <1>2, <1>7, <1>8
<1>10. Shaped(u)'
  BY <1>1, <1>3, <1>4, <1>7, <1>8, <1>9 DEF Shaped, Creating
<1>11. (authoring # None => authoring.session \in used)'
  BY <1>1 DEF MainInv, SessionsUsed
<1> QED
  BY <1>1, <1>3, <1>4, <1>5, <1>6, <1>10, <1>11, NextTask

LEMMA BeginDiscardKeeps ==
    ASSUME LifecycleInv, BeginDiscard
    PROVE  LifecycleInv'
<1> USE DEF LifecycleInv
<1>1. /\ task # None /\ task.stage = "BeginDiscard"
      /\ BeginPause(task.candidate.session)
      /\ task' = [task EXCEPT !.stage = IF workerLive THEN "Discard" ELSE "EndDiscard"]
      /\ UNCHANGED <<openVars, closeVars, used, lastVersion>>
  BY DEF BeginDiscard
<1>2. /\ task.candidate.session \in Sessions
      /\ Phase(task.candidate.session) = "Open"
  BY <1>1, TaskFacts DEF Shaped, Creating, AuthoringSession
<1>3. PICK s \in Sessions : s = task.candidate.session
  BY <1>2
<1>4. /\ ServiceInv'
      /\ \A o \in Sessions :
             /\ Generation(o)' = Generation(o)
             /\ o # s => Phase(o)' = Phase(o)
  BY <1>1, <1>2, <1>3, BeginPauseService
<1>5. PICK stage \in {"Discard", "EndDiscard"} : task' = [task EXCEPT !.stage = stage]
  BY <1>1
<1> QED
  BY <1>1, <1>3, <1>4, <1>5, DiscardGoesOn

LEMMA DiscardKeeps ==
    ASSUME LifecycleInv, Discard
    PROVE  LifecycleInv'
<1> USE DEF LifecycleInv
<1>1. /\ task # None /\ task.stage = "Discard"
      /\ CompletePause(task.candidate.session) \/ PoisonPause(task.candidate.session)
      /\ task' = [task EXCEPT !.stage = "EndDiscard"]
      /\ UNCHANGED <<openVars, closeVars, used, lastVersion>>
  BY DEF Discard
<1>2. task.candidate.session \in Sessions
  BY <1>1, TaskFacts DEF Shaped, Creating, AuthoringSession
<1>3. PICK s \in Sessions : s = task.candidate.session
  BY <1>2
<1>4. /\ ServiceInv'
      /\ \A o \in Sessions :
             /\ Generation(o)' = Generation(o)
             /\ o # s => Phase(o)' = Phase(o)
  BY <1>1, <1>3, CompletePauseService, PoisonPauseService
<1> QED
  BY <1>1, <1>3, <1>4, DiscardGoesOn

-----------------------------------------------------------------------------
\* The theorems.

LEMMA InitInv == Init => LifecycleInv
<1> SUFFICES ASSUME Init
             PROVE  LifecycleInv
  OBVIOUS
<1> USE DEF Init, PersistenceInit
<1>1. ServiceTyped
  <2>1. admission \in [Sessions -> [phase : Phases, generation : 0 .. MaxGeneration,
                                    lastReserved : Option(Nat)]]
    BY LifecycleAssumption DEF Phases, Option
  <2>2. nextRequestId \in 1 .. MaxRequests + 1
    BY PersistenceAssumption
  <2>3. \A p \in Option(Projects) : ProjectFile(p) \in Option(Content)
    BY PersistenceAssumption DEF ProjectFile, Content, Option, Versions
  <2>4. files \in [Files -> Option(Content)]
    BY <2>3 DEF Option, Projects
  <2>5. /\ createBindings \in [Sessions -> [RequestIds -> Option(BindingStates)]]
        /\ lastSuccessful \in [Sessions -> Option(Nat)]
        /\ recovery \in [Projects -> [Files -> Option(Manifest)]]
    BY DEF Option
  <2> QED
    BY <2>1, <2>2, <2>4, <2>5 DEF ServiceTyped, Option
<1>2. DOMAIN channel = {} /\ channel \in Seq(RequestRecord \cup Barrier)
  OBVIOUS
<1>3. CountersMatchWork
  <2>1. Work(channel) = {}
    BY <1>2 DEF Work
  <2>2. Cardinality(Work(channel)) = 0
    BY <2>1, FS_EmptySet
  <2> QED
    BY <2>2, PersistenceAssumption DEF CountersMatchWork, Work
<1>4. Outstanding = {}
  BY <1>2 DEF Outstanding
<1>5. WorkerAlive /\ BarriersInOrder /\ AcknowledgedAreIdle /\ OutstandingAdmitted
  BY <1>2, <1>4 DEF WorkerAlive, BarriersInOrder, AcknowledgedAreIdle, OutstandingAdmitted
<1>6. MainTyped
  BY PersistenceAssumption DEF MainTyped, Option, Versions
<1>7. TaskShaped /\ SessionsUsed /\ FinishDrained
  BY DEF TaskShaped, SessionsUsed, FinishDrained
<1> QED
  BY <1>1, <1>3, <1>5, <1>6, <1>7 DEF LifecycleInv, ServiceInv, MainInv

LEMMA HandlerKeeps ==
    ASSUME LifecycleInv, HandlerStep
    PROVE  LifecycleInv'
<1>1. CASE BeginClose
  BY <1>1, BeginCloseKeeps
<1>2. CASE HandoffQuiesced \/ HandoffTimesOut \/ Drain
  BY <1>2, HandoffQuiescedKeeps, HandoffTimesOutKeeps, DrainKeeps
<1>3. CASE \E s \in Fresh : InstallOpened(s) \/ InstallRecovered(s) \/ CreateSubmits(s)
  <2>1. PICK s \in Fresh : InstallOpened(s) \/ InstallRecovered(s) \/ CreateSubmits(s)
    BY <1>3
  <2>2. s \in Sessions
    BY DEF Fresh
  <2> QED
    BY <2>1, <2>2, InstallOpenedKeeps, InstallRecoveredKeeps, CreateSubmitsKeeps
<1>4. CASE HandoffFails \/ FinishClose \/ RejectClose
  BY <1>4, HandoffFailsKeeps, FinishCloseKeeps, RejectCloseKeeps
<1>5. CASE CreateAppliesOther \/ InstallCreated \/ CreateFails
  BY <1>5, CreateAppliesOtherKeeps, InstallCreatedKeeps, CreateFailsKeeps
<1>6. CASE BeginDiscard \/ Discard \/ EndDiscard
  BY <1>6, BeginDiscardKeeps, DiscardKeeps, EndDiscardKeeps
<1> QED
  BY <1>1, <1>2, <1>3, <1>4, <1>5, <1>6 DEF HandlerStep

LEMMA UserKeeps ==
    ASSUME LifecycleInv, UserStep
    PROVE  LifecycleInv'
<1>1. CASE Edit \/ RequestAutosave \/ SaveThenClose \/ BeginClose \/ ForceClose
  BY <1>1, EditKeeps, RequestAutosaveKeeps, SaveThenCloseKeeps, BeginCloseKeeps,
     ForceCloseKeeps
<1>2. CASE \E target \in Option(Files) : RequestSave(target)
  BY <1>2, RequestSaveKeeps
<1>3. CASE \E op \in {"Open", "Recover", "Create"}, f \in Files : BeginHandoff(op, f)
  <2>1. PICK op \in {"Open", "Recover", "Create"}, f \in Files : BeginHandoff(op, f)
    BY <1>3
  <2>2. op \in Handlers /\ f \in Option(Files)
    BY DEF Handlers, Option
  <2> QED
    BY <2>1, <2>2, BeginHandoffKeeps
<1>4. CASE BeginHandoff("CloseNow", None)
  <2>1. "CloseNow" \in Handlers /\ None \in Option(Files)
        /\ "CloseNow" \notin {"Open", "Recover", "Create"}
    BY DEF Handlers, Option
  <2> QED
    BY <1>4, <2>1, BeginHandoffKeeps
<1> QED
  BY <1>1, <1>2, <1>3, <1>4 DEF UserStep

\* Every step of the worker, of the main thread and of other programs keeps
\* the invariant.
LEMMA NextKeeps ==
    ASSUME LifecycleInv, [Next]_vars
    PROVE  LifecycleInv'
<1>1. CASE Worker \/ Panic
  BY <1>1, WorkerKeeps, PanicKeeps
<1>2. CASE PollCompletion \/ PollCloseQuiesced \/ PollCloseFaults
  BY <1>2, PollCompletionKeeps, PollCloseQuiescedKeeps, PollCloseFaultsKeeps
<1>3. CASE HandlerStep
  BY <1>3, HandlerKeeps
<1>4. CASE UserStep
  BY <1>4, UserKeeps
<1>5. CASE \E f \in Files : ExternalCreates(f)
  BY <1>5, ExternalKeeps
<1>6. CASE UNCHANGED vars
  <2>1. UNCHANGED persistenceVars /\ UNCHANGED mainVars
    BY <1>6 DEF vars
  <2> QED
    BY <2>1, ServiceFrame, MainFrame DEF LifecycleInv
<1> QED
  BY <1>1, <1>2, <1>3, <1>4, <1>5, <1>6 DEF Next

\* The invariant of the lifecycle over its persistence service
\* (project_lifecycle.rs over project_persistence.rs).
THEOREM LifecycleInvariance == SafetySpec => []LifecycleInv
<1>1. Init => LifecycleInv
  BY InitInv
<1>2. LifecycleInv /\ [Next]_vars => LifecycleInv'
  BY NextKeeps
<1> QED
  BY <1>1, <1>2, PTL DEF SafetySpec

\* Every variable of the main thread and of the service keeps its type.
THEOREM LifecycleTypeCorrect == SafetySpec => []LifecycleTypeOK
<1>1. LifecycleInv => LifecycleTypeOK
  BY DEF LifecycleInv, ServiceInv, MainInv, LifecycleTypeOK
<1> QED
  BY <1>1, LifecycleInvariance, PTL

\* The service's two counters say how much work there is, and the queue is
\* never over its capacity (project_persistence.rs:1218).
THEOREM CountersAreTrue == SafetySpec => []CountersMatchWork
<1>1. LifecycleInv => CountersMatchWork
  BY DEF LifecycleInv, ServiceInv
<1> QED
  BY <1>1, LifecycleInvariance, PTL

\* A paused session has nothing on its way, and a handler that drained has
\* nothing left to apply to it (pause_and_quiesce, project_persistence.rs:704).
THEOREM QuiescedAreIdle == SafetySpec => []QuiescedSessionsAreIdle
<1>1. LifecycleInv => QuiescedSessionsAreIdle
  BY DEF LifecycleInv, ServiceInv, MainInv, QuiescedSessionsAreIdle,
         OutstandingAdmitted, FinishDrained, Phase, Generation
<1> QED
  BY <1>1, LifecycleInvariance, PTL

=============================================================================
