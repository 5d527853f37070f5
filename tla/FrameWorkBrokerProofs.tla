------------------------ MODULE FrameWorkBrokerProofs ------------------------
(***************************************************************************)
(* Theorems about the Frame Work Broker for every value of its constants:  *)
(* the type invariant, the queue budget, latest-wins authority, close and  *)
(* publication.                                                            *)
(*                                                                         *)
(* The argument sorts the steps in three.  An admission (submit or         *)
(* bind_existing) may bind and queue work; a rotation (begin_generation    *)
(* and its variants, prune_before, prune_obsolete) prunes what the new     *)
(* generation leaves behind; every other step Retains: it may only drop    *)
(* bindings and payloads.                                                  *)
(***************************************************************************)
EXTENDS FrameWorkBrokerProperties, FiniteSetTheorems, TLAPS

-----------------------------------------------------------------------------
(* What VecDeque::retain keeps: KeepAt.                                    *)

\* The elements of a finite set of positions are numbered 1, 2, ... by rank.
LEMMA RankExists ==
    ASSUME NEW I \in SUBSET Nat, IsFiniteSet(I), NEW n \in 1 .. Cardinality(I)
    PROVE  \E i \in I : Cardinality({j \in I : j <= i}) = n
<1> DEFINE upTo(i) == {j \in I : j <= i}
           rank == [i \in I |-> Cardinality(upTo(i))]
<1>1. \A i \in I : IsFiniteSet(upTo(i)) /\ Cardinality(upTo(i)) \in 1 .. Cardinality(I)
  <2> SUFFICES ASSUME NEW i \in I
               PROVE  IsFiniteSet(upTo(i)) /\ Cardinality(upTo(i)) \in 1 .. Cardinality(I)
    OBVIOUS
  <2>1. upTo(i) \in SUBSET I /\ i \in upTo(i)
    OBVIOUS
  <2>2. /\ IsFiniteSet(upTo(i))
        /\ Cardinality(upTo(i)) <= Cardinality(I)
    BY <2>1, FS_Subset
  <2>3. Cardinality(upTo(i)) \in Nat /\ Cardinality(I) \in Nat
    BY <2>2, FS_CardinalityType
  <2>4. Cardinality(upTo(i)) # 0
    BY <2>1, <2>2, FS_EmptySet
  <2> QED
    BY <2>2, <2>3, <2>4
<1>2. rank \in Injection(I, 1 .. Cardinality(I))
  <2>1. rank \in [I -> 1 .. Cardinality(I)]
    BY <1>1
  <2>2. \A a, b \in I : a < b => rank[a] # rank[b]
    <3> SUFFICES ASSUME NEW a \in I, NEW b \in I, a < b
                 PROVE  Cardinality(upTo(a)) # Cardinality(upTo(b))
      OBVIOUS
    <3>1. upTo(a) \in SUBSET upTo(b) /\ b \in upTo(b) /\ b \notin upTo(a)
      <4>1. a \in Nat /\ b \in Nat /\ I \subseteq Nat
        OBVIOUS
      <4>2. \A j \in I : j <= a => j <= b
        BY <4>1
      <4>3. b <= b /\ ~(b <= a)
        BY <4>1
      <4>4. \A j : j \in upTo(a) => j \in upTo(b)
        BY <4>2
      <4>5. b \in upTo(b) /\ b \notin upTo(a)
        BY <4>3
      <4> QED
        BY <4>4, <4>5
    <3> QED
      BY <1>1, <3>1, FS_Subset
  <2>3. \A a, b \in I : rank[a] = rank[b] => a = b
    <3> SUFFICES ASSUME NEW a \in I, NEW b \in I, rank[a] = rank[b]
                 PROVE  a = b
      OBVIOUS
    <3>1. a \in Nat /\ b \in Nat /\ ~(a < b) /\ ~(b < a)
      BY <2>2
    <3> QED
      BY <3>1
  <2> QED
    BY <2>1, <2>3 DEF Injection, IsInjective
<1>3. rank \in Surjection(I, 1 .. Cardinality(I))
  <2>1. Cardinality(I) \in Nat
    BY FS_CardinalityType
  <2>2. /\ IsFiniteSet(1 .. Cardinality(I))
        /\ Cardinality(1 .. Cardinality(I)) = Cardinality(I)
    BY <2>1, FS_Interval
  <2> QED
    BY <1>2, <2>2, FS_Injection
<1> QED
  BY <1>3 DEF Surjection

\* KeepAt keeps one element per position, and invents none.
LEMMA KeepAtSeq ==
    ASSUME NEW S, NEW q \in Seq(S), NEW I \in SUBSET (DOMAIN q)
    PROVE  /\ KeepAt(q, I) \in Seq(S)
           /\ Len(KeepAt(q, I)) = Cardinality(I)
           /\ Cardinality(I) \in Nat
           /\ Cardinality(I) <= Len(q)
           /\ \A n \in DOMAIN KeepAt(q, I) : \E i \in I : KeepAt(q, I)[n] = q[i]
<1>1. DOMAIN q = 1 .. Len(q) /\ Len(q) \in Nat
  OBVIOUS
<1>2. IsFiniteSet(DOMAIN q) /\ Cardinality(DOMAIN q) = Len(q)
  <2>1. /\ IsFiniteSet(1 .. Len(q))
        /\ Cardinality(1 .. Len(q)) = IF 1 > Len(q) THEN 0 ELSE Len(q) - 1 + 1
    BY <1>1, FS_Interval
  <2> QED
    BY <1>1, <2>1
<1>3. IsFiniteSet(I) /\ Cardinality(I) <= Len(q)
  BY <1>2, FS_Subset
<1>4. Cardinality(I) \in Nat
  BY <1>3, FS_CardinalityType
<1> DEFINE at(n) == CHOOSE i \in I : Cardinality({j \in I : j <= i}) = n
<1>5. \A n \in 1 .. Cardinality(I) : at(n) \in I
  <2> SUFFICES ASSUME NEW n \in 1 .. Cardinality(I)
               PROVE  at(n) \in I
    OBVIOUS
  <2>1. I \in SUBSET Nat
    BY <1>1
  <2>2. \E i \in I : Cardinality({j \in I : j <= i}) = n
    BY <1>3, <2>1, RankExists
  <2> QED
    BY <2>2
<1>6. KeepAt(q, I) = [n \in 1 .. Cardinality(I) |-> q[at(n)]]
  BY DEF KeepAt
<1>7. \A n \in 1 .. Cardinality(I) : q[at(n)] \in S
  <2> HIDE DEF at
  <2> QED
    BY <1>1, <1>5
<1> HIDE DEF at
<1>8. KeepAt(q, I) \in Seq(S) /\ Len(KeepAt(q, I)) = Cardinality(I)
  BY <1>4, <1>6, <1>7
<1>9. \A n \in DOMAIN KeepAt(q, I) : \E i \in I : KeepAt(q, I)[n] = q[i]
  BY <1>5, <1>6
<1> QED
  BY <1>3, <1>4, <1>8, <1>9

-----------------------------------------------------------------------------
(* Types.                                                                  *)

PendingMap == [Keys -> Option(PendingBinding)]
LeaseMap == [Leases -> Option(InFlightWork)]

\* A set of instants that is not empty has a first one.
LEMMA LeastOfIn ==
    ASSUME NEW S \in SUBSET Nat, S # {}
    PROVE  LeastOf(S) \in S /\ \A y \in S : LeastOf(S) <= y
<1>1. \E x \in S : \A y \in S : ~(<<y, x>> \in OpToRel(<, Nat))
  BY NatLessThanWellFounded, WFMin
<1>2. PICK x \in S : \A y \in S : ~(<<y, x>> \in OpToRel(<, Nat))
  BY <1>1
<1>3. \A y \in S : ~(y < x)
  BY <1>2 DEF OpToRel
<1>4. \A y \in S : x <= y
  BY <1>3
<1> QED
  BY <1>4 DEF LeastOf

\* A bounded set of positions that is not empty has a last one.
LEMMA GreatestExists ==
    ASSUME NEW n \in Nat, NEW S \in SUBSET (1 .. n), S # {}
    PROVE  \E x \in S : \A y \in S : y <= x
<1> DEFINE T == {n - x : x \in S}
<1>1. T \in SUBSET Nat /\ T # {}
  <2>1. \A x \in S : n - x \in Nat
    OBVIOUS
  <2>2. \A t \in T : t \in Nat
    BY <2>1
  <2> QED
    BY <2>2
<1>2. PICK t \in T : \A u \in T : t <= u
  BY <1>1, LeastOfIn
<1>3. PICK x \in S : t = n - x
  BY <1>2
<1>4. \A y \in S : n - x <= n - y
  BY <1>2, <1>3
<1> QED
  BY <1>4

\* An instant relative to `from` stays an instant.
LEMMA LoweredAtType ==
    ASSUME NEW remaining \in Option(Nat), NEW from \in Nat
    PROVE  LoweredAt(remaining, from) \in Option(Nat)
BY DEF LoweredAt, Option

\* The refresh of a binding keeps a lease a lease.
LEMMA RefreshedBindingType ==
    ASSUME NEW latest, NEW pend \in PendingMap, NEW e \in InFlightWork,
           NEW now \in Nat
    PROVE  RefreshedBinding(latest, pend, e, now) \in InFlightWork
<1>1. e.startedAt \in Nat /\ e.key \in Keys
  BY DEF InFlightWork
<1>2. GetOrInsert(e.invalidatedAt, now) \in Option(Nat)
  BY DEF InFlightWork, GetOrInsert, Option
<1>3. ASSUME pend[e.key] # None
      PROVE  /\ pend[e.key].deadlineAt \in Option(Nat)
             /\ pend[e.key].inFlightDeadlinePolicy \in Policies
             /\ LoweredAt(pend[e.key].executionCancellationBudget, e.startedAt)
                    \in Option(Nat)
  <2>1. pend[e.key] \in PendingBinding
    BY <1>1, <1>3 DEF PendingMap, Option
  <2>2. pend[e.key].executionCancellationBudget \in Option(Nat)
    BY <2>1 DEF PendingBinding
  <2> QED
    BY <1>1, <2>1, <2>2, LoweredAtType DEF PendingBinding
<1>4. None \in Option(Nat) /\ TRUE \in BOOLEAN
  BY DEF Option
<1>5. CASE HasCurrentPendingBinding(latest, pend, e)
  <2>1. pend[e.key] # None
    BY <1>5 DEF HasCurrentPendingBinding
  <2> QED
    BY <1>2, <1>3, <1>4, <1>5, <2>1 DEF RefreshedBinding, InFlightWork
<1>6. CASE ~HasCurrentPendingBinding(latest, pend, e)
  BY <1>2, <1>4, <1>6 DEF RefreshedBinding, InFlightWork
<1> QED
  BY <1>5, <1>6

\* A preemption rival is a pending request, and its instant a timestamp.
LEMMA OldestOtherType ==
    ASSUME NEW latest, NEW pend \in PendingMap, NEW e, NEW a \in BOOLEAN,
           NEW b \in BOOLEAN
    PROVE  OldestOtherCurrentRequest(latest, pend, e, a, b) \in Option(Nat)
<1> DEFINE rivals == {k \in PendingKeys(pend) :
            /\ k # e.key \/ pend[k].binding.resourceScope # e.resourceScope
            /\ pend[k].binding.priority = "Current"
            /\ a => pend[k].binding.workClass # "Still"
            /\ b => pend[k].binding.workClass # "Playback"
            /\ pend[k].binding.generation >= latest}
           times == {pend[k].requestedAt : k \in rivals}
<1>1. OldestOtherCurrentRequest(latest, pend, e, a, b) =
        IF rivals = {} THEN None ELSE LeastOf(times)
  BY DEF OldestOtherCurrentRequest
<1>2. times \in SUBSET Nat
  <2>1. \A k \in PendingKeys(pend) : pend[k] \in PendingBinding
    BY DEF PendingKeys, PendingMap, Option
  <2> QED
    BY <2>1 DEF PendingBinding
<1>3. rivals # {} => times # {}
  OBVIOUS
<1> HIDE DEF rivals, times
<1>4. rivals # {} => LeastOf(times) \in Nat
  BY <1>2, <1>3, LeastOfIn
<1> QED
  BY <1>1, <1>4 DEF Option

LEMMA RefreshedPreemptionType ==
    ASSUME NEW latest, NEW pend \in PendingMap, NEW e \in InFlightWork
    PROVE  RefreshedPreemption(latest, pend, e) \in InFlightWork
<1> DEFINE rival == IF e.priority = "Prefetch"
                    THEN OldestOtherCurrentRequest(latest, pend, e, FALSE,
                                                   e.workClass = "Playback")
                    ELSE IF e.workClass = "Still"
                    THEN OldestOtherCurrentRequest(latest, pend, e, TRUE, FALSE)
                    ELSE None
           stop == IF rival < e.startedAt THEN e.startedAt ELSE rival
           stamp == IF e.preemptedAt # None /\ e.preemptedAt <= stop
                    THEN e.preemptedAt ELSE stop
<1>1. RefreshedPreemption(latest, pend, e) =
        IF rival = None THEN e ELSE [e EXCEPT !.preemptedAt = stamp]
  BY DEF RefreshedPreemption
<1>2. rival \in Option(Nat)
  <2>1. (e.workClass = "Playback") \in BOOLEAN
    OBVIOUS
  <2>2. /\ OldestOtherCurrentRequest(latest, pend, e, FALSE,
                                     e.workClass = "Playback") \in Option(Nat)
        /\ OldestOtherCurrentRequest(latest, pend, e, TRUE, FALSE) \in Option(Nat)
    BY <2>1, OldestOtherType
  <2> QED
    BY <2>2 DEF Option
<1> HIDE DEF rival
<1>3. rival # None => stamp \in Option(Nat)
  BY <1>2 DEF Option, InFlightWork
<1> HIDE DEF stamp
<1> QED
  BY <1>1, <1>3 DEF InFlightWork

\* Refreshing the leases, the last step of nearly every method, keeps them typed.
LEMMA RefreshedType ==
    ASSUME NEW latest, NEW pend \in PendingMap, NEW fl \in LeaseMap,
           NEW now \in Nat
    PROVE  Refreshed(latest, pend, fl, now) \in LeaseMap
<1>1. ASSUME NEW l \in Leases, fl[l] # None
      PROVE  RefreshedPreemption(latest, pend,
                RefreshedBinding(latest, pend, fl[l], now)) \in InFlightWork
  <2>1. fl[l] \in InFlightWork
    BY <1>1 DEF LeaseMap, Option
  <2> QED
    BY <2>1, RefreshedBindingType, RefreshedPreemptionType
<1> QED
  BY <1>1 DEF Refreshed, LeaseMap, Option

\* The other edits of the lease map keep it typed.
LEMMA LeaseEditsType ==
    ASSUME NEW fl \in LeaseMap, NEW now \in Nat, NEW k
    PROVE  /\ InvalidatedKey(fl, k, now) \in LeaseMap
           /\ ClearedExpiry(fl) \in LeaseMap
           /\ DetachedLocality(fl) \in LeaseMap
<1>1. \A l \in Leases : fl[l] # None => fl[l] \in InFlightWork
  BY DEF LeaseMap, Option
<1>2. \A l \in Leases : fl[l] \in Option(InFlightWork)
  BY DEF LeaseMap
<1>3. \A l \in Leases : fl[l] # None =>
        /\ [fl[l] EXCEPT !.presentationBindingExpired = FALSE] \in InFlightWork
        /\ [fl[l] EXCEPT !.presentationBindingExpired = TRUE] \in InFlightWork
        /\ [fl[l] EXCEPT !.presentationBindingExpired = FALSE,
                         !.invalidatedAt = GetOrInsert(@, now)] \in InFlightWork
  <2> SUFFICES ASSUME NEW e \in InFlightWork
               PROVE  /\ [e EXCEPT !.presentationBindingExpired = FALSE] \in InFlightWork
                      /\ [e EXCEPT !.presentationBindingExpired = TRUE] \in InFlightWork
                      /\ [e EXCEPT !.presentationBindingExpired = FALSE,
                                   !.invalidatedAt = GetOrInsert(@, now)] \in InFlightWork
    BY <1>1
  <2>1. [e EXCEPT !.presentationBindingExpired = FALSE] \in InFlightWork
    BY DEF InFlightWork
  <2>2. [e EXCEPT !.presentationBindingExpired = TRUE] \in InFlightWork
    BY DEF InFlightWork
  <2>3. PICK at \in Option(Nat) : at = GetOrInsert(e.invalidatedAt, now)
    BY DEF InFlightWork, GetOrInsert, Option
  <2>4. [e EXCEPT !.presentationBindingExpired = FALSE, !.invalidatedAt = at] \in InFlightWork
    BY DEF InFlightWork
  <2> QED
    BY <2>1, <2>2, <2>3, <2>4
<1>4. InvalidatedKey(fl, k, now) \in LeaseMap
  BY <1>2, <1>3 DEF InvalidatedKey, LeaseMap, Option
<1>5. ClearedExpiry(fl) \in LeaseMap
  BY <1>2, <1>3 DEF ClearedExpiry, LeaseMap, Option
<1>6. DetachedLocality(fl) \in LeaseMap
  BY <1>2, <1>3 DEF DetachedLocality, LeaseMap, Option
<1> QED
  BY <1>4, <1>5, <1>6

LEMMA RestoredDemandBindingType ==
    ASSUME NEW fl \in LeaseMap, NEW active, NEW k, NEW b
    PROVE  RestoredDemandBinding(active, fl, k, b) \in LeaseMap
<1>1. \A l \in Leases : fl[l] \in Option(InFlightWork)
  BY DEF LeaseMap
<1>2. \A l \in Leases : fl[l] # None =>
        [fl[l] EXCEPT !.presentationBindingExpired = FALSE] \in InFlightWork
  <2>1. \A e \in InFlightWork : [e EXCEPT !.presentationBindingExpired = FALSE] \in InFlightWork
    BY DEF InFlightWork
  <2> QED
    BY <1>1, <2>1 DEF Option
<1> QED
  BY <1>1, <1>2 DEF RestoredDemandBinding, LeaseMap, Option

\* Dropping bindings keeps the pending map typed.
LEMMA PendingEditsType ==
    ASSUME NEW pend \in PendingMap, NEW q, NEW fl, NEW k, NEW latest
    PROVE  /\ WithoutOrphan(pend, q, fl, k) \in PendingMap
           /\ PrunedPending(pend, latest) \in PendingMap
           /\ [pend EXCEPT ![k] = None] \in PendingMap
           /\ Evicted(pend, k) \in PendingMap
<1>1. \A x \in Keys : pend[x] \in Option(PendingBinding)
  BY DEF PendingMap
<1>2. [pend EXCEPT ![k] = None] \in PendingMap
  BY DEF PendingMap, Option
<1>3. WithoutOrphan(pend, q, fl, k) \in PendingMap
  BY <1>2 DEF WithoutOrphan
<1>4. PrunedPending(pend, latest) \in PendingMap
  BY <1>1 DEF PrunedPending, PendingMap, Option
<1>5. Evicted(pend, k) \in PendingMap
  BY <1>2 DEF Evicted
<1> QED
  BY <1>2, <1>3, <1>4, <1>5

\* Retaining queue entries keeps the queue typed and never longer.
LEMMA QueueEditsType ==
    ASSUME NEW q \in Seq(QueuedWork), NEW k, NEW latest
    PROVE  /\ WithoutKey(q, k) \in Seq(QueuedWork)
           /\ PrunedQueue(q, latest) \in Seq(QueuedWork)
           /\ EvictedQueue(q, k) \in Seq(QueuedWork)
           /\ Len(WithoutKey(q, k)) <= Len(q)
           /\ Len(PrunedQueue(q, latest)) <= Len(q)
           /\ Len(EvictedQueue(q, k)) <= Len(q)
<1>1. /\ Positions(q, LAMBDA w : w.request.key # k) \in SUBSET (DOMAIN q)
      /\ Positions(q, LAMBDA w : w.request.generation >= latest)
            \in SUBSET (DOMAIN q)
  BY DEF Positions
<1>2. WithoutKey(q, k) \in Seq(QueuedWork) /\ Len(WithoutKey(q, k)) <= Len(q)
  BY <1>1, KeepAtSeq DEF WithoutKey
<1>3. /\ PrunedQueue(q, latest) \in Seq(QueuedWork)
      /\ Len(PrunedQueue(q, latest)) <= Len(q)
  BY <1>1, KeepAtSeq DEF PrunedQueue
<1> QED
  BY <1>2, <1>3 DEF EvictedQueue

-----------------------------------------------------------------------------
(* Type correctness: the steps shared by the operations.                   *)

WorkerTypeOK ==
    /\ lifecycleRevision \in 0 .. MaxRevision
    /\ observedRevision \in [Lanes -> 0 .. MaxRevision]
    /\ worker \in [Lanes -> WorkerStates]
    /\ wakeAt \in [Lanes -> Option(Nat)]
    /\ observing \subseteq Observed

\* The clock the operations observe never leaves the explored instants.
LEMMA NowType ==
    ASSUME TypeOK
    PROVE  Now \in 0 .. MaxTime /\ Now \in Nat
BY BoundsAssumption DEF TypeOK, Now

LEMMA ObserveType ==
    ASSUME TypeOK, Observe
    PROVE  lastObservedAt' \in 0 .. MaxTime
BY NowType DEF Observe

\* Notifying moves parked workers only.
LEMMA NotifyType ==
    ASSUME TypeOK, NotifyAll \/ UNCHANGED workerVars
    PROVE  WorkerTypeOK'
<1>1. WorkerTypeOK
  BY DEF TypeOK, WorkerTypeOK
<1>2. CASE UNCHANGED workerVars
  BY <1>1, <1>2 DEF WorkerTypeOK, workerVars
<1>3. CASE NotifyAll
  BY <1>1, <1>3 DEF WorkerTypeOK, NotifyAll, WorkerStates, Option
<1> QED
  BY <1>2, <1>3

LEMMA NotifyIfType ==
    ASSUME TypeOK, NEW c, NotifyAllIf(c)
    PROVE  WorkerTypeOK'
BY NotifyType DEF NotifyAllIf

\* Refreshing against the new state keeps the leases typed.
LEMMA RefreshFromType ==
    ASSUME TypeOK, NEW fl \in LeaseMap, pending' \in PendingMap, RefreshFrom(fl)
    PROVE  inFlight' \in LeaseMap
BY NowType, RefreshedType DEF RefreshFrom

\* A type-correct state, in the terms of the lemmas.
LEMMA TypeParts ==
    TypeOK <=> /\ latestGeneration \in Generations
               /\ activePlaybackDemand \in Option(Demands)
               /\ pending \in PendingMap
               /\ queue \in Seq(QueuedWork)
               /\ inFlight \in LeaseMap
               /\ clock \in 0 .. MaxTime
               /\ lastObservedAt \in 0 .. MaxTime
               /\ closedAt \in Option(Nat)
               /\ WorkerTypeOK
               /\ resolution \in Option(Resolution)
BY DEF TypeOK, PendingMap, LeaseMap, WorkerTypeOK

LEMMA TypeAssembled ==
    ASSUME latestGeneration' \in Generations,
           activePlaybackDemand' \in Option(Demands),
           pending' \in PendingMap,
           queue' \in Seq(QueuedWork),
           inFlight' \in LeaseMap,
           clock' \in 0 .. MaxTime,
           lastObservedAt' \in 0 .. MaxTime,
           closedAt' \in Option(Nat),
           WorkerTypeOK',
           resolution' \in Option(Resolution)
    PROVE  TypeOK'
BY DEF TypeOK, PendingMap, LeaseMap, WorkerTypeOK

\* What a request stands for in the pending map and the queue.
LEMMA RequestTypes ==
    ASSUME TypeOK, NEW r \in Request, NEW t \in Nat
    PROVE  /\ BindingFor(r) \in Binding
           /\ PendingFor(r, t) \in PendingBinding
           /\ QueuedFor(r) \in QueuedWork
<1>1. BindingFor(r) \in Binding
  BY DEF BindingFor, Binding, Request
<1>2. r.deadline \in Option(Nat)
  BY DEF Request
<1>3. LoweredAt(r.deadline, Now) \in Option(Nat)
  BY <1>2, NowType, LoweredAtType
<1>4. /\ r.inFlightDeadlinePolicy \in Policies
      /\ r.executionCancellationBudget \in Option(Nat)
  BY DEF Request
<1>5. PendingFor(r, t) \in PendingBinding
  BY <1>1, <1>3, <1>4 DEF PendingFor, PendingBinding
<1>6. QueuedFor(r) \in QueuedWork
  BY <1>3 DEF QueuedFor, QueuedWork
<1> QED
  BY <1>1, <1>5, <1>6

LEMMA PromotedType ==
    ASSUME NEW previous \in PendingBinding, NEW r \in Request
    PROVE  Promoted(previous, r) \in Request /\ Promoted(previous, r).key = r.key
<1>1. /\ previous.binding.workClass \in Classes
      /\ previous.inFlightDeadlinePolicy \in Policies
      /\ previous.executionCancellationBudget \in Option(Nat)
  BY DEF PendingBinding, Binding
<1> QED
  BY <1>1 DEF Promoted, Request, Priorities

-----------------------------------------------------------------------------
(* Type correctness: one lemma per operation that rotates or prunes.       *)

LEMMA RotateToType ==
    ASSUME TypeOK, NEW latest \in Generations, NEW pend \in PendingMap,
           NEW q \in Seq(QueuedWork), NEW fl \in LeaseMap,
           RotateTo(latest, pend, q, fl)
    PROVE  TypeOK'
<1>1. latestGeneration' \in Generations
  BY DEF RotateTo
<1>2. pending' \in PendingMap
  BY PendingEditsType DEF RotateTo
<1>3. queue' \in Seq(QueuedWork)
  BY QueueEditsType DEF RotateTo
<1>4. inFlight' \in LeaseMap
  BY <1>2, RefreshFromType DEF RotateTo
<1>5. lastObservedAt' \in 0 .. MaxTime /\ WorkerTypeOK'
  BY ObserveType, NotifyType DEF RotateTo
<1>6. resolution' \in Option(Resolution)
  BY DEF RotateTo, Unresolved, Option
<1>7. UNCHANGED <<activePlaybackDemand, closedAt, clock>>
  BY DEF RotateTo
<1> QED
  BY <1>1, <1>2, <1>3, <1>4, <1>5, <1>6, <1>7, TypeParts, TypeAssembled

\* The queued locality-preserving work of a key.
LocalPositions(k) ==
    {i \in DOMAIN queue : /\ queue[i].request.key = k
                          /\ RetainsPlaybackLocality(queue[i].request)}

\* A locality-preserving rotation re-stamps queued Playback work, entry by
\* entry, and rebinds the keys of that work only.
LEMMA PreservingRotates ==
    ASSUME TypeOK, BeginGenerationPreservingPlaybackLocality
    PROVE  \E pend \in PendingMap, q \in Seq(QueuedWork) :
                /\ latestGeneration < MaxGeneration
                /\ RotateTo(latestGeneration + 1, pend, q, DetachedLocality(inFlight))
                /\ Len(q) = Len(queue)
                /\ \A k \in Keys : pending[k] = None => pend[k] = None
                /\ \A i \in DOMAIN queue : q[i] =
                        IF RetainsPlaybackLocality(queue[i].request)
                        THEN [queue[i] EXCEPT !.request.generation =
                                latestGeneration + 1]
                        ELSE queue[i]
                /\ \A k \in Keys :
                        IF pending[k] # None /\ LocalPositions(k) # {}
                        THEN \E i \in LocalPositions(k) :
                            pend[k] = [pending[k] EXCEPT !.binding =
                                            BindingFor(q[i].request)]
                        ELSE pend[k] = pending[k]
<1> DEFINE latest == latestGeneration + 1
           rebound(w) == IF RetainsPlaybackLocality(w.request)
                         THEN [w EXCEPT !.request.generation = latest]
                         ELSE w
           newQueue == [i \in DOMAIN queue |-> rebound(queue[i])]
           positions(k) == Positions(queue, LAMBDA w :
                        w.request.key = k /\ RetainsPlaybackLocality(w.request))
           lastOf(I) == CHOOSE i \in I : \A j \in I : j <= i
           newPending == [k \in Keys |->
                IF pending[k] # None /\ positions(k) # {}
                THEN [pending[k] EXCEPT !.binding =
                        BindingFor(newQueue[lastOf(positions(k))].request)]
                ELSE pending[k]]
<1>1. /\ pending \in PendingMap
      /\ queue \in Seq(QueuedWork)
  BY TypeParts
<1>2. /\ latestGeneration < MaxGeneration
      /\ RotateTo(latest, newPending, newQueue, DetachedLocality(inFlight))
  BY DEF BeginGenerationPreservingPlaybackLocality
<1>3. latest \in Generations
  BY <1>2, BoundsAssumption DEF TypeOK, Generations
<1>4. \A i \in DOMAIN queue : newQueue[i] \in QueuedWork
  <2>1. \A w \in QueuedWork : rebound(w) \in QueuedWork
    BY <1>3 DEF QueuedWork, Request
  <2>2. \A i \in DOMAIN queue : queue[i] \in QueuedWork
    BY <1>1
  <2> QED
    BY <2>1, <2>2
<1>5. newQueue \in Seq(QueuedWork) /\ Len(newQueue) = Len(queue)
  <2>1. DOMAIN queue = 1 .. Len(queue) /\ Len(queue) \in Nat
    BY <1>1
  <2> HIDE DEF rebound
  <2> QED
    BY <1>4, <2>1
<1>6. newPending \in PendingMap
  <2> SUFFICES ASSUME NEW k \in Keys, pending[k] # None, positions(k) # {}
               PROVE  [pending[k] EXCEPT !.binding =
                            BindingFor(newQueue[lastOf(positions(k))].request)]
                        \in PendingBinding
    BY <1>1 DEF PendingMap, Option
  <2>1. pending[k] \in PendingBinding
    BY <1>1 DEF PendingMap, Option
  <2>2. lastOf(positions(k)) \in DOMAIN queue
    <3>1. /\ positions(k) \in SUBSET (1 .. Len(queue))
          /\ Len(queue) \in Nat
          /\ DOMAIN queue = 1 .. Len(queue)
      BY <1>1 DEF Positions
    <3> HIDE DEF positions
    <3>2. \E x \in positions(k) : \A j \in positions(k) : j <= x
      BY <3>1, GreatestExists
    <3>3. lastOf(positions(k)) \in positions(k)
      BY <3>2
    <3> QED
      BY <3>1, <3>3
  <2>3. newQueue[lastOf(positions(k))] \in QueuedWork
    BY <1>4, <2>2
  <2>4. BindingFor(newQueue[lastOf(positions(k))].request) \in Binding
    BY <2>3 DEF QueuedWork, Request, BindingFor, Binding
  <2> HIDE DEF newQueue, positions, lastOf
  <2> QED
    BY <2>1, <2>4 DEF PendingBinding
<1>7. \A k \in Keys : pending[k] = None => newPending[k] = None
  OBVIOUS
<1>8. \A i \in DOMAIN queue : newQueue[i] =
            IF RetainsPlaybackLocality(queue[i].request)
            THEN [queue[i] EXCEPT !.request.generation = latestGeneration + 1]
            ELSE queue[i]
  OBVIOUS
<1>9. ASSUME NEW k \in Keys
      PROVE  IF pending[k] # None /\ LocalPositions(k) # {}
             THEN \E i \in LocalPositions(k) :
                newPending[k] = [pending[k] EXCEPT !.binding =
                                    BindingFor(newQueue[i].request)]
             ELSE newPending[k] = pending[k]
  <2>1. positions(k) = LocalPositions(k)
    BY DEF Positions, LocalPositions
  <2>2. positions(k) # {} => lastOf(positions(k)) \in positions(k)
    <3>1. positions(k) \in SUBSET (1 .. Len(queue)) /\ Len(queue) \in Nat
      BY <1>1 DEF Positions
    <3> HIDE DEF positions
    <3>2. positions(k) # {} =>
            \E x \in positions(k) : \A j \in positions(k) : j <= x
      BY <3>1, GreatestExists
    <3> QED
      BY <3>2
  <2>3. newPending[k] = IF pending[k] # None /\ positions(k) # {}
                        THEN [pending[k] EXCEPT !.binding =
                                BindingFor(newQueue[lastOf(positions(k))].request)]
                        ELSE pending[k]
    OBVIOUS
  <2> HIDE DEF positions, lastOf, newQueue, newPending
  <2> QED
    BY <2>1, <2>2, <2>3
<1> HIDE DEF newQueue, newPending
<1> QED
  BY <1>2, <1>5, <1>6, <1>7, <1>8, <1>9

LEMMA BeginGenerationType ==
    ASSUME TypeOK,
           \/ BeginGeneration
           \/ BeginGenerationPreservingPlaybackLocality
           \/ BeginGenerationPreservingInFlightPlaybackLocality
    PROVE  TypeOK'
<1>1. /\ pending \in PendingMap
      /\ queue \in Seq(QueuedWork)
      /\ ClearedExpiry(inFlight) \in LeaseMap
      /\ DetachedLocality(inFlight) \in LeaseMap
  BY TypeParts, LeaseEditsType, NowType
<1>2. latestGeneration < MaxGeneration => latestGeneration + 1 \in Generations
  BY BoundsAssumption DEF TypeOK, Generations
<1>3. CASE BeginGeneration
  BY <1>1, <1>2, <1>3, RotateToType DEF BeginGeneration
<1>4. CASE BeginGenerationPreservingInFlightPlaybackLocality
  BY <1>1, <1>2, <1>4, RotateToType
     DEF BeginGenerationPreservingInFlightPlaybackLocality
<1>5. CASE BeginGenerationPreservingPlaybackLocality
  BY <1>1, <1>2, <1>5, PreservingRotates, RotateToType
<1> QED
  BY <1>3, <1>4, <1>5

LEMMA PruneType ==
    ASSUME TypeOK, NEW g \in Generations, PruneBefore(g) \/ PruneObsolete
    PROVE  TypeOK'
<1>1. /\ pending \in PendingMap
      /\ queue \in Seq(QueuedWork)
      /\ inFlight \in LeaseMap
      /\ latestGeneration \in Generations
  BY TypeParts
<1>2. CASE PruneBefore(g)
  BY <1>1, <1>2, RotateToType DEF PruneBefore
<1>3. CASE PruneObsolete
  <2>1. pending' \in PendingMap
    BY <1>1, <1>3, PendingEditsType DEF PruneObsolete
  <2>2. queue' \in Seq(QueuedWork)
    BY <1>1, <1>3, QueueEditsType DEF PruneObsolete
  <2>3. inFlight' \in LeaseMap
    BY <1>1, <1>3, <2>1, RefreshFromType DEF PruneObsolete
  <2>4. lastObservedAt' \in 0 .. MaxTime /\ WorkerTypeOK'
    BY <1>3, ObserveType, NotifyIfType DEF PruneObsolete
  <2>5. resolution' \in Option(Resolution)
    BY <1>3 DEF PruneObsolete, Unresolved, Option
  <2>6. UNCHANGED <<latestGeneration, activePlaybackDemand, closedAt, clock>>
    BY <1>3 DEF PruneObsolete
  <2> QED
    BY <2>1, <2>2, <2>3, <2>4, <2>5, <2>6, TypeParts, TypeAssembled
<1> QED
  BY <1>2, <1>3

-----------------------------------------------------------------------------
(* Type correctness: submit and bind_existing.                             *)

\* Replacing a queued payload in place.
LEMMA QueueUpdateType ==
    ASSUME NEW S, NEW q \in Seq(S), NEW i, NEW e \in S
    PROVE  [q EXCEPT ![i] = e] \in Seq(S) /\ Len([q EXCEPT ![i] = e]) = Len(q)
<1> DEFINE p == [q EXCEPT ![i] = e]
<1>1. DOMAIN q = 1 .. Len(q) /\ Len(q) \in Nat
  OBVIOUS
<1>2. DOMAIN p = 1 .. Len(q) /\ p = [n \in 1 .. Len(q) |-> p[n]]
  BY <1>1
<1>3. \A n \in 1 .. Len(q) : p[n] \in S
  BY <1>1
<1> HIDE DEF p
<1>4. p \in Seq(S) /\ Len(p) = Len(q)
  BY <1>1, <1>2, <1>3
<1> QED
  BY <1>4 DEF p

\* Binding a key keeps the pending map typed.
LEMMA BindType ==
    ASSUME TypeOK, NEW pend \in PendingMap, NEW k, NEW r \in Request,
           NEW t \in Nat
    PROVE  [pend EXCEPT ![k] = PendingFor(r, t)] \in PendingMap
BY RequestTypes DEF PendingMap, Option

LEMMA RequestedAtType ==
    ASSUME TypeOK, NEW previous \in PendingBinding, NEW r
    PROVE  RequestedAt(previous, r) \in Nat
BY NowType DEF RequestedAt, PendingBinding

LEMMA PushType ==
    ASSUME TypeOK, NEW pend \in PendingMap, NEW q \in Seq(QueuedWork),
           NEW fl \in LeaseMap, NEW r \in Request, NEW k,
           PushAfterEviction(pend, q, fl, r, k)
    PROVE  /\ pending' \in PendingMap
           /\ queue' \in Seq(QueuedWork)
           /\ inFlight' \in LeaseMap
           /\ WorkerTypeOK'
<1>1. Evicted(pend, k) \in PendingMap
  BY PendingEditsType
<1>2. pending' \in PendingMap
  BY <1>1, NowType, BindType DEF PushAfterEviction
<1>3. EvictedQueue(q, k) \in Seq(QueuedWork) /\ QueuedFor(r) \in QueuedWork
  BY QueueEditsType, RequestTypes, NowType
<1>4. queue' \in Seq(QueuedWork)
  BY <1>3 DEF PushAfterEviction
<1>5. EvictedLeases(fl, k) \in LeaseMap
  BY LeaseEditsType, NowType DEF EvictedLeases
<1> QED
  BY <1>2, <1>4, <1>5, RefreshFromType, NotifyType DEF PushAfterEviction

LEMMA ResubmitType ==
    ASSUME TypeOK, NEW r0 \in Request, pending[r0.key] # None, Resubmit(r0)
    PROVE  /\ pending' \in PendingMap
           /\ queue' \in Seq(QueuedWork)
           /\ inFlight' \in LeaseMap
           /\ WorkerTypeOK'
<1> DEFINE previous == pending[r0.key]
           r == Promoted(previous, r0)
           leases == RestoredDemandBinding(activePlaybackDemand, inFlight,
                                           r.key, BindingFor(r))
           queued == Positions(queue, LAMBDA w : w.request.key = r.key)
           rebind == [pending EXCEPT ![r.key] =
                            PendingFor(r, RequestedAt(previous, r))]
<1>1. /\ pending \in PendingMap
      /\ queue \in Seq(QueuedWork)
      /\ inFlight \in LeaseMap
  BY TypeParts
<1>2. previous \in PendingBinding /\ r \in Request
  <2>1. r0.key \in Keys
    BY DEF Request
  <2>2. previous \in PendingBinding
    BY <1>1, <2>1 DEF PendingMap, Option
  <2> QED
    BY <2>2, PromotedType
<1>3. leases \in LeaseMap
  BY <1>1, RestoredDemandBindingType
<1>4. rebind \in PendingMap
  BY <1>1, <1>2, RequestedAtType, BindType
<1>5. QueuedFor(r) \in QueuedWork
  BY <1>2, NowType, RequestTypes
<1>6. \/ /\ pending' = rebind
         /\ queue' = [queue EXCEPT ![FirstPosition(queued)] = QueuedFor(r)]
         /\ RefreshFrom(leases)
         /\ NotifyAll
      \/ /\ pending' = rebind
         /\ RefreshFrom(leases)
         /\ NotifyAll
         /\ UNCHANGED queue
      \/ \E k : PushAfterEviction(pending, queue, leases, r, k)
      \/ /\ inFlight' = leases
         /\ UNCHANGED <<pending, queue, workerVars>>
  BY DEF Resubmit
<1> HIDE DEF previous, r, leases, queued, rebind
<1>7. CASE /\ pending' = rebind
           /\ queue' = [queue EXCEPT ![FirstPosition(queued)] = QueuedFor(r)]
           /\ RefreshFrom(leases)
           /\ NotifyAll
  BY <1>1, <1>3, <1>4, <1>5, <1>7, QueueUpdateType, RefreshFromType, NotifyType
<1>8. CASE /\ pending' = rebind
           /\ RefreshFrom(leases)
           /\ NotifyAll
           /\ UNCHANGED queue
  BY <1>1, <1>3, <1>4, <1>8, RefreshFromType, NotifyType
<1>9. CASE \E k : PushAfterEviction(pending, queue, leases, r, k)
  BY <1>1, <1>2, <1>3, <1>9, PushType
<1>10. CASE /\ inFlight' = leases
            /\ UNCHANGED <<pending, queue, workerVars>>
  BY <1>1, <1>3, <1>10, NotifyType
<1> QED
  BY <1>6, <1>7, <1>8, <1>9, <1>10

LEMMA AdmitType ==
    ASSUME TypeOK, NEW r \in Request, Admit(r)
    PROVE  /\ pending' \in PendingMap
           /\ queue' \in Seq(QueuedWork)
           /\ inFlight' \in LeaseMap
           /\ WorkerTypeOK'
<1> DEFINE pend == PrunedPending(pending, latestGeneration)
           q == PrunedQueue(queue, latestGeneration)
           leases == Refreshed(latestGeneration, pend, inFlight, Now)
<1>1. pend \in PendingMap /\ q \in Seq(QueuedWork)
  BY TypeParts, PendingEditsType, QueueEditsType
<1>2. leases \in LeaseMap
  BY <1>1, TypeParts, NowType, RefreshedType
<1>3. \/ \E k : PushAfterEviction(pend, q, leases, r, k)
      \/ /\ pending' = pend
         /\ queue' = q
         /\ inFlight' = leases
         /\ UNCHANGED workerVars
  BY DEF Admit
<1> HIDE DEF pend, q, leases
<1> QED
  BY <1>1, <1>2, <1>3, PushType, NotifyType

LEMMA SubmitType ==
    ASSUME TypeOK, NEW r \in Requests, Submit(r)
    PROVE  TypeOK'
<1>1. r \in Request
  BY InputAssumption
<1>2. /\ pending' \in PendingMap
      /\ queue' \in Seq(QueuedWork)
      /\ inFlight' \in LeaseMap
      /\ WorkerTypeOK'
  BY <1>1, ResubmitType, AdmitType DEF Submit
<1>3. lastObservedAt' \in 0 .. MaxTime
  BY ObserveType DEF Submit
<1>4. resolution' \in Option(Resolution)
  BY DEF Submit, Unresolved, Option
<1>5. UNCHANGED <<latestGeneration, activePlaybackDemand, closedAt, clock>>
  BY DEF Submit
<1> QED
  BY <1>2, <1>3, <1>4, <1>5, TypeParts, TypeAssembled

LEMMA BindExistingType ==
    ASSUME TypeOK, NEW r0 \in Requests, BindExisting(r0)
    PROVE  TypeOK'
<1> DEFINE previous == pending[r0.key]
           r == Promoted(previous, r0)
           queued == Positions(queue, LAMBDA w :
                        /\ w.request.key = r.key
                        /\ w.request.resourceScope = r.resourceScope)
           first == FirstPosition(queued)
           bound == [r EXCEPT !.workerAffinity = queue[first].request.workerAffinity]
<1>1. /\ pending \in PendingMap
      /\ queue \in Seq(QueuedWork)
      /\ inFlight \in LeaseMap
  BY TypeParts
<1>2. previous \in PendingBinding /\ r \in Request
  <2>1. r0 \in Request /\ r0.key \in Keys
    BY InputAssumption DEF Request
  <2>2. previous # None
    BY DEF BindExisting
  <2>3. previous \in PendingBinding
    BY <1>1, <2>1, <2>2 DEF PendingMap, Option
  <2> QED
    BY <2>1, <2>3, PromotedType
<1>3. pending' \in PendingMap
  <2>1. pending' = [pending EXCEPT ![r.key] = PendingFor(r, RequestedAt(previous, r))]
    BY DEF BindExisting
  <2> HIDE DEF r, previous
  <2> QED
    BY <1>1, <1>2, <2>1, RequestedAtType, BindType
<1>4. queue' \in Seq(QueuedWork)
  <2>1. queue' = IF queued = {} THEN queue
                 ELSE [queue EXCEPT ![first] = QueuedFor(bound)]
    BY DEF BindExisting
  <2>2. ASSUME queued # {}
        PROVE  first \in DOMAIN queue
    <3>1. queued \in SUBSET Nat /\ queued \in SUBSET (DOMAIN queue)
      BY <1>1 DEF Positions
    <3> HIDE DEF queued
    <3>2. FirstPosition(queued) = LeastOf(queued)
      BY DEF FirstPosition, LeastOf
    <3> QED
      BY <2>2, <3>1, <3>2, LeastOfIn
  <2>3. ASSUME queued # {}
        PROVE  bound \in Request
    <3> HIDE DEF r, first, queued
    <3>1. first \in DOMAIN queue
      BY <2>2, <2>3
    <3>2. queue[first] \in QueuedWork
      BY <1>1, <3>1
    <3> QED
      BY <1>2, <3>2 DEF QueuedWork, Request
  <2> HIDE DEF queued, first, bound
  <2> QED
    BY <1>1, <2>1, <2>3, NowType, RequestTypes, QueueUpdateType
<1>5. inFlight' \in LeaseMap
  BY <1>1, <1>3, RefreshFromType DEF BindExisting
<1>6. lastObservedAt' \in 0 .. MaxTime /\ WorkerTypeOK'
  BY ObserveType, NotifyType DEF BindExisting
<1>7. resolution' \in Option(Resolution)
  BY DEF BindExisting, Unresolved, Option
<1>8. UNCHANGED <<latestGeneration, activePlaybackDemand, closedAt, clock>>
  BY DEF BindExisting
<1> QED
  BY <1>3, <1>4, <1>5, <1>6, <1>7, <1>8, TypeParts, TypeAssembled

-----------------------------------------------------------------------------
(* Type correctness: the workers.                                          *)

LEMMA NewLeaseType ==
    ASSUME TypeOK, NEW w \in QueuedWork, NEW lane \in Lanes
    PROVE  NewLease(w, lane) \in InFlightWork
<1>1. /\ w.request \in Request
      /\ w.deadlineAt \in Option(Nat)
  BY DEF QueuedWork
<1>2. w.request.executionCancellationBudget \in Option(Nat)
  BY <1>1 DEF Request
<1>3. /\ LoweredAt(w.request.executionCancellationBudget, Now) \in Option(Nat)
      /\ Now \in Nat
  BY <1>2, NowType, LoweredAtType
<1>4. lane \in Option(AllLanes) /\ None \in Option(Nat)
  BY InputAssumption DEF Option
<1> QED
  BY <1>1, <1>3, <1>4 DEF NewLease, InFlightWork, Request

\* A rank that decides the dequeue order is a small number.
LEMMA DequeueOrderType ==
    ASSUME NEW w \in QueuedWork, NEW lane, NEW now, NEW failover
    PROVE  DequeueOrder(w, lane, now, failover) \in Nat
<1>1. w.request.workClass \in Classes
  BY DEF QueuedWork, Request
<1>2. WorkRank(w.request.workClass) \in Nat
  BY <1>1 DEF WorkRank, Classes
<1> QED
  BY <1>2 DEF DequeueOrder

\* Eligible work has a next position, and it is one of the queue.
LEMMA NextWorkIndexIn ==
    ASSUME NEW q \in Seq(QueuedWork), NEW lane, NEW now, NEW failover, NEW borrow,
           EligiblePositions(q, lane, failover, borrow) # {}
    PROVE  NextWorkIndex(q, lane, now, failover, borrow) \in
                EligiblePositions(q, lane, failover, borrow) \cap DOMAIN q
<1> DEFINE I == EligiblePositions(q, lane, failover, borrow)
           order(i) == DequeueOrder(q[i], lane, now, failover)
           ranks == {order(i) : i \in I}
           best == {i \in I : order(i) = LeastOf(ranks)}
<1>1. I \in SUBSET (DOMAIN q) /\ I \in SUBSET Nat
  BY DEF EligiblePositions, Positions
<1>2. \A i \in I : order(i) \in Nat
  <2> SUFFICES ASSUME NEW i \in I PROVE order(i) \in Nat
    OBVIOUS
  <2>1. q[i] \in QueuedWork
    BY <1>1
  <2> QED
    BY <2>1, DequeueOrderType
<1>3. I # {}
  OBVIOUS
<1> HIDE DEF I, order
<1>4. ranks \in SUBSET Nat /\ ranks # {}
  BY <1>2, <1>3
<1>5. LeastOf(ranks) \in ranks /\ \A y \in ranks : LeastOf(ranks) <= y
  BY <1>4, LeastOfIn
<1>6. best \in SUBSET Nat /\ best # {}
  BY <1>1, <1>5
<1>7. LeastOf(best) \in best /\ \A y \in best : LeastOf(best) <= y
  BY <1>6, LeastOfIn
<1> DEFINE first(i) == \A j \in I :
                order(i) < order(j) \/ (order(i) = order(j) /\ i <= j)
<1>8. LeastOf(best) \in I /\ first(LeastOf(best))
  <2> SUFFICES ASSUME NEW j \in I
               PROVE  \/ order(LeastOf(best)) < order(j)
                      \/ /\ order(LeastOf(best)) = order(j)
                         /\ LeastOf(best) <= j
    BY <1>7
  <2>1. order(LeastOf(best)) = LeastOf(ranks) /\ order(j) \in ranks
    BY <1>7
  <2>2. order(LeastOf(best)) <= order(j)
    BY <1>5, <2>1
  <2>3. order(j) = LeastOf(ranks) => LeastOf(best) <= j
    BY <1>7
  <2>4. order(LeastOf(best)) \in Nat /\ order(j) \in Nat
    BY <1>2, <1>7
  <2> QED
    BY <2>1, <2>2, <2>3, <2>4
<1>9. NextWorkIndex(q, lane, now, failover, borrow) = CHOOSE i \in I : first(i)
  BY DEF NextWorkIndex, I, order
<1>10. (CHOOSE i \in I : first(i)) \in I
  BY <1>8
<1> QED
  BY <1>1, <1>9, <1>10 DEF I

LEMMA DequeueType ==
    ASSUME TypeOK, NEW lane \in Lanes, Dequeue(lane)
    PROVE  TypeOK'
<1> DEFINE fl == RefreshedLeases
           I == Eligible(fl, lane)
           i == NextWorkIndex(queue, lane, Now, Failover(fl, lane),
                              PlaybackPrefetchBorrowAllowed(fl, lane))
<1>1. /\ pending \in PendingMap
      /\ queue \in Seq(QueuedWork)
      /\ inFlight \in LeaseMap
  BY TypeParts
<1>2. fl \in LeaseMap
  BY <1>1, NowType, RefreshedType DEF RefreshedLeases
<1>3. i \in DOMAIN queue
  BY <1>1, NextWorkIndexIn DEF Dequeue, Eligible
<1>4. PICK l \in Leases :
        inFlight' = Refreshed(latestGeneration, pending,
                        [fl EXCEPT ![l] = NewLease(queue[i], lane)], Now)
  BY DEF Dequeue
<1>5. queue' = KeepAt(queue, DOMAIN queue \ {i})
  BY DEF Dequeue
<1> HIDE DEF i, fl
<1>6. queue[i] \in QueuedWork
  BY <1>1, <1>3
<1>7. [fl EXCEPT ![l] = NewLease(queue[i], lane)] \in LeaseMap
  BY <1>2, <1>6, NewLeaseType DEF LeaseMap, Option
<1>8. inFlight' \in LeaseMap
  BY <1>1, <1>4, <1>7, NowType, RefreshedType
<1>9. queue' \in Seq(QueuedWork)
  BY <1>1, <1>5, KeepAtSeq
<1>10. lastObservedAt' \in 0 .. MaxTime /\ WorkerTypeOK'
  BY ObserveType, NotifyType DEF Dequeue
<1>11. resolution' \in Option(Resolution)
  BY DEF Dequeue, Unresolved, Option
<1>12. UNCHANGED <<latestGeneration, activePlaybackDemand, pending, closedAt, clock>>
  BY DEF Dequeue
<1> QED
  BY <1>8, <1>9, <1>10, <1>11, <1>12, TypeParts, TypeAssembled

\* The instant a worker could take over blocked Playback work is an instant.
LEMMA FailoverWakeAtType ==
    ASSUME NEW latest, NEW pend, NEW closed, NEW q, NEW fl \in LeaseMap,
           NEW lane, NEW now \in Nat
    PROVE  FailoverWakeAt(latest, pend, closed, q, fl, lane, now) \in Option(Nat)
<1> DEFINE waiting == \E i \in DOMAIN q : /\ q[i].request.priority = "Current"
                                          /\ q[i].request.workClass = "Playback"
                                          /\ q[i].request.workerAffinity = None
           taken == \E l \in Running(fl, "NonPlayback") : fl[l].workClass = "Playback"
           blocking == {l \in Running(fl, "Playback") : fl[l].workClass = "Playback"}
           stops(e) ==
              IF CancellationRequested(latest, pend, closed, e, now) THEN {now}
              ELSE ({e.deadlineAt : p \in {"Cancel"} \cap {e.inFlightDeadlinePolicy}}
                      \cup {e.executionCancellationDeadlineAt}) \ {None}
           times == UNION {stops(fl[l]) : l \in blocking}
<1>1. FailoverWakeAt(latest, pend, closed, q, fl, lane, now) =
        IF lane # "NonPlayback" \/ ~waiting \/ taken \/ times = {} THEN None
        ELSE LeastOf(times)
  BY DEF FailoverWakeAt
<1>2. \A e \in InFlightWork : stops(e) \in SUBSET Nat
  <2>1. \A e \in InFlightWork : /\ e.deadlineAt \in Option(Nat)
                                /\ e.executionCancellationDeadlineAt \in Option(Nat)
    BY DEF InFlightWork
  <2> QED
    BY <2>1 DEF Option
<1>3. \A l \in blocking : fl[l] \in InFlightWork
  BY DEF Running, InFlightIn, LeaseMap, Option
<1> HIDE DEF stops, blocking
<1>4. times \in SUBSET Nat
  BY <1>2, <1>3
<1> HIDE DEF times
<1>5. times # {} => LeastOf(times) \in Nat
  BY <1>4, LeastOfIn
<1> QED
  BY <1>1, <1>5 DEF Option

LEMMA ParkType ==
    ASSUME TypeOK, NEW lane \in Lanes, Park(lane)
    PROVE  TypeOK'
<1> DEFINE wakes == ({LoweredAt(ReceiveTimeout, Now)} \cup
                     {FailoverWakeAt(latestGeneration, pending, closedAt, queue,
                                     RefreshedLeases, lane, Now)}) \ {None}
<1>1. RefreshedLeases \in LeaseMap
  BY TypeParts, NowType, RefreshedType DEF RefreshedLeases
<1>2. wakes \in SUBSET Nat
  <2>1. LoweredAt(ReceiveTimeout, Now) \in Option(Nat)
    BY NowType, LoweredAtType, BoundsAssumption
  <2>2. FailoverWakeAt(latestGeneration, pending, closedAt, queue,
                       RefreshedLeases, lane, Now) \in Option(Nat)
    BY <1>1, NowType, FailoverWakeAtType
  <2> QED
    BY <2>1, <2>2 DEF Option
<1>3. wakeAt' = [wakeAt EXCEPT ![lane] =
                    IF closedAt # None \/ wakes = {} THEN None ELSE LeastOf(wakes)]
  BY DEF Park
<1> HIDE DEF wakes
<1>4. wakes # {} => LeastOf(wakes) \in Nat
  BY <1>2, LeastOfIn
<1>5. wakeAt' \in [Lanes -> Option(Nat)]
  BY <1>3, <1>4 DEF TypeOK, Option
<1>6. worker' \in [Lanes -> WorkerStates]
  BY DEF Park, TypeOK, WorkerStates
<1>7. WorkerTypeOK'
  BY <1>5, <1>6, TypeParts DEF Park, WorkerTypeOK
<1>8. inFlight' \in LeaseMap /\ lastObservedAt' \in 0 .. MaxTime
  BY <1>1, ObserveType DEF Park
<1>9. resolution' \in Option(Resolution)
  BY DEF Park, Unresolved, Option
<1>10. UNCHANGED <<latestGeneration, activePlaybackDemand, pending, queue,
                   closedAt, clock>>
  BY DEF Park
<1> QED
  BY <1>7, <1>8, <1>9, <1>10, TypeParts, TypeAssembled

\* Waking, observing a lifecycle revision, and publishing one.
LEMMA WakeType ==
    ASSUME TypeOK, NEW lane,
           Wake(lane) \/ ObserveLifecycle(lane) \/ InterruptWorkerWaits
    PROVE  TypeOK'
<1>1. WorkerTypeOK
  BY TypeParts
<1>2. WorkerTypeOK'
  <2>1. CASE Wake(lane)
    BY <1>1, <2>1 DEF Wake, WorkerTypeOK, WorkerStates, Option
  <2>2. CASE ObserveLifecycle(lane)
    BY <1>1, <2>2 DEF ObserveLifecycle, WorkerTypeOK
  <2>3. CASE InterruptWorkerWaits
    <3>1. lifecycleRevision' \in 0 .. MaxRevision
      BY <1>1, <2>3, BoundsAssumption DEF InterruptWorkerWaits, WorkerTypeOK
    <3>2. /\ worker' \in [Lanes -> WorkerStates]
          /\ wakeAt' \in [Lanes -> Option(Nat)]
          /\ observing' \subseteq Observed
          /\ observedRevision' \in [Lanes -> 0 .. MaxRevision]
      BY <1>1, <2>3 DEF InterruptWorkerWaits, WorkerTypeOK, WorkerStates, Option
    <3> QED
      BY <3>1, <3>2 DEF WorkerTypeOK
  <2> QED
    BY <2>1, <2>2, <2>3
<1>3. resolution' \in Option(Resolution)
  BY DEF Wake, ObserveLifecycle, InterruptWorkerWaits, Unresolved, Option
<1>4. UNCHANGED <<latestGeneration, activePlaybackDemand, pending, queue,
                  inFlight, lastObservedAt, closedAt, clock>>
  BY DEF Wake, ObserveLifecycle, InterruptWorkerWaits
<1> QED
  BY <1>2, <1>3, <1>4, TypeParts, TypeAssembled

LEMMA WaitType ==
    ASSUME TypeOK, NEW l \in Leases, WaitForExecutionTerminalState(l)
    PROVE  TypeOK'
<1>1. inFlight' \in LeaseMap
  BY TypeParts, NowType, RefreshedType
     DEF WaitForExecutionTerminalState, RefreshedLeases
<1>2. observing' \subseteq Observed
  BY TypeParts DEF WaitForExecutionTerminalState, WorkerTypeOK
<1>3. WorkerTypeOK'
  BY <1>2, TypeParts DEF WaitForExecutionTerminalState, WorkerTypeOK
<1>4. lastObservedAt' \in 0 .. MaxTime /\ resolution' \in Option(Resolution)
  BY ObserveType DEF WaitForExecutionTerminalState, Unresolved, Option
<1>5. UNCHANGED <<latestGeneration, activePlaybackDemand, pending, queue,
                  closedAt, clock>>
  BY DEF WaitForExecutionTerminalState
<1> QED
  BY <1>1, <1>3, <1>4, <1>5, TypeParts, TypeAssembled

-----------------------------------------------------------------------------
(* Type correctness: completion.                                           *)

LEMMA CompletedType ==
    ASSUME TypeOK, NEW l \in Leases, inFlight[l] # None
    PROVE  [inFlight[l] EXCEPT !.completedAt = GetOrInsert(@, Now)] \in InFlightWork
<1>1. inFlight[l] \in InFlightWork
  BY TypeParts DEF LeaseMap, Option
<1> QED
  BY <1>1, NowType DEF InFlightWork, GetOrInsert, Option

LEMMA MarkType ==
    ASSUME TypeOK, NEW l \in Leases, MarkExecutionCompleted(l)
    PROVE  TypeOK'
<1>1. inFlight \in LeaseMap
  BY TypeParts
<1>2. inFlight' = [inFlight EXCEPT ![l] =
            [inFlight[l] EXCEPT !.completedAt = GetOrInsert(@, Now)]]
  BY DEF MarkExecutionCompleted
<1>3. inFlight' \in LeaseMap
  BY <1>1, <1>2, CompletedType DEF LeaseMap, Option, MarkExecutionCompleted
<1>4. lastObservedAt' \in 0 .. MaxTime /\ WorkerTypeOK'
  BY ObserveType, NotifyType DEF MarkExecutionCompleted
<1>5. resolution' \in Option(Resolution)
  BY DEF MarkExecutionCompleted, Unresolved, Option
<1>6. UNCHANGED <<latestGeneration, activePlaybackDemand, pending, queue,
                  closedAt, clock>>
  BY DEF MarkExecutionCompleted
<1> QED
  BY <1>3, <1>4, <1>5, <1>6, TypeParts, TypeAssembled

\* What resolve_locked decides: only an execution that was neither preempted,
\* nor detached, nor over budget may answer Current, only for a binding that
\* exists and the active demand did not supersede, and then it takes the
\* binding and its queued fallback.
LEMMA ResolveLockedOutcome ==
    ASSUME NEW e, NEW fl, NEW reusable
    PROVE  LET o == ResolveLocked(e, fl, reusable) IN
           /\ o.completion \in {"Current", "CacheOnly", "Stale"}
           /\ o.completion = "Current" =>
                /\ o.takesPending
                /\ o.takesQueued
                /\ pending[e.key] # None
                /\ ~PlaybackCurrentBindingIsSuperseded(
                        activePlaybackDemand, pending[e.key].binding)
                /\ ~e.presentationBindingExpired
                /\ e.preemptedAt = None
                /\ ~BudgetExpiredBeforeCompletion(e)
<1> DEFINE o == ResolveLocked(e, fl, reusable)
<1>1. CASE BudgetExpiredBeforeCompletion(e)
  BY <1>1 DEF ResolveLocked
<1>2. CASE ~BudgetExpiredBeforeCompletion(e) /\ e.preemptedAt # None
  BY <1>2 DEF ResolveLocked
<1>3. CASE ~BudgetExpiredBeforeCompletion(e) /\ e.preemptedAt = None
  BY <1>3 DEF ResolveLocked
<1> QED
  BY <1>1, <1>2, <1>3

LEMMA SettleType ==
    ASSUME TypeOK, NEW e, e.key \in Keys, NEW fl \in LeaseMap, NEW reusable,
           Settle(e, fl, reusable)
    PROVE  TypeOK'
<1> DEFINE o == ResolveLocked(e, fl, reusable)
           q == IF o.takesQueued THEN WithoutKey(queue, e.key) ELSE queue
           pend == IF o.takesPending THEN [pending EXCEPT ![e.key] = None] ELSE pending
<1>1. /\ pending \in PendingMap
      /\ queue \in Seq(QueuedWork)
  BY TypeParts
<1>2. queue' = q /\ pending' = WithoutOrphan(pend, q, fl, e.key)
  BY DEF Settle
<1>3. resolution' = [key |-> e.key, completion |-> o.completion,
                     binding |-> IF o.completion = "Current"
                                 THEN pending[e.key].binding ELSE None]
  BY DEF Settle
<1>4. /\ o.completion \in {"Current", "CacheOnly", "Stale"}
      /\ o.completion = "Current" => pending[e.key] # None
  BY ResolveLockedOutcome
<1> HIDE DEF o
<1>5. q \in Seq(QueuedWork) /\ pend \in PendingMap
  BY <1>1, QueueEditsType, PendingEditsType
<1> HIDE DEF q, pend
<1>6. queue' \in Seq(QueuedWork) /\ pending' \in PendingMap
  BY <1>2, <1>5, PendingEditsType
<1>7. resolution' \in Option(Resolution)
  <2>1. o.completion = "Current" => pending[e.key].binding \in Binding
    BY <1>1, <1>4 DEF PendingMap, PendingBinding, Option
  <2> QED
    BY <1>3, <1>4, <2>1 DEF Resolution, Option
<1>8. inFlight' \in LeaseMap
  BY <1>6, RefreshFromType DEF Settle
<1>9. lastObservedAt' \in 0 .. MaxTime /\ WorkerTypeOK'
  BY ObserveType, NotifyType DEF Settle
<1>10. UNCHANGED <<latestGeneration, activePlaybackDemand, closedAt, clock>>
  BY DEF Settle
<1> QED
  BY <1>6, <1>7, <1>8, <1>9, <1>10, TypeParts, TypeAssembled

\* Freeing a lease slot.
LEMMA FreedType ==
    ASSUME NEW fl \in LeaseMap, NEW l
    PROVE  [fl EXCEPT ![l] = None] \in LeaseMap
BY DEF LeaseMap, Option

LEMMA ResolveType ==
    ASSUME TypeOK, NEW l \in Leases, NEW reusable \in BOOLEAN,
           ResolveExecution(l, reusable)
    PROVE  TypeOK'
<1>1. inFlight[l] # None
  BY DEF ResolveExecution
<1>2. [inFlight[l] EXCEPT !.completedAt = GetOrInsert(@, Now)] \in InFlightWork
  BY <1>1, CompletedType
<1>3. [inFlight[l] EXCEPT !.completedAt = GetOrInsert(@, Now)].key \in Keys
  BY <1>2 DEF InFlightWork
<1> QED
  BY <1>3, TypeParts, FreedType, SettleType DEF ResolveExecution

LEMMA ResolveUnleasedType ==
    ASSUME TypeOK, NEW r \in Requests, NEW reusable \in BOOLEAN,
           ResolveUnleased(r.key, r.generation, r.workClass,
                           r.resourceScope, r.demandIdentity, reusable)
    PROVE  TypeOK'
<1>1. r.key \in Keys
  BY InputAssumption DEF Request
<1> QED
  BY <1>1, TypeParts, SettleType DEF ResolveUnleased

LEMMA AbandonType ==
    ASSUME TypeOK, NEW l \in Leases, AbandonExecution(l)
    PROVE  TypeOK'
<1>1. inFlight' \in LeaseMap
  BY TypeParts, FreedType DEF AbandonExecution
<1>2. pending' \in PendingMap
  BY TypeParts, PendingEditsType DEF AbandonExecution
<1>3. WorkerTypeOK' /\ resolution' \in Option(Resolution)
  BY NotifyType DEF AbandonExecution, Unresolved, Option
<1>4. UNCHANGED <<latestGeneration, activePlaybackDemand, queue,
                  lastObservedAt, closedAt, clock>>
  BY DEF AbandonExecution
<1> QED
  BY <1>1, <1>2, <1>3, <1>4, TypeParts, TypeAssembled

LEMMA FailType ==
    ASSUME TypeOK, NEW l \in Leases, FailExecution(l)
    PROVE  TypeOK'
<1> DEFINE fl == [inFlight EXCEPT ![l] = None]
           k == inFlight[l].key
<1>1. fl \in LeaseMap
  BY TypeParts, FreedType
<1>2. \E taken \in {pending, [pending EXCEPT ![k] = None]} :
        \E swept \in {taken, [taken EXCEPT ![k] = None]} :
            pending' = WithoutOrphan(swept, queue, fl, k)
  BY DEF FailExecution
<1>3. pending' \in PendingMap
  <2> HIDE DEF k, fl
  <2>1. PICK taken \in {pending, [pending EXCEPT ![k] = None]} :
            \E swept \in {taken, [taken EXCEPT ![k] = None]} :
                pending' = WithoutOrphan(swept, queue, fl, k)
    BY <1>2
  <2>2. PICK swept \in {taken, [taken EXCEPT ![k] = None]} :
            pending' = WithoutOrphan(swept, queue, fl, k)
    BY <2>1
  <2>3. \A p \in PendingMap : /\ [p EXCEPT ![k] = None] \in PendingMap
                              /\ WithoutOrphan(p, queue, fl, k) \in PendingMap
    BY PendingEditsType
  <2>4. taken \in PendingMap
    BY <2>1, <2>3, TypeParts
  <2>5. swept \in PendingMap
    BY <2>2, <2>3, <2>4
  <2> QED
    BY <2>2, <2>3, <2>5
<1>4. RefreshFrom(fl)
  BY DEF FailExecution
<1>5. inFlight' \in LeaseMap
  BY <1>1, <1>3, <1>4, RefreshFromType
<1>6. lastObservedAt' \in 0 .. MaxTime /\ WorkerTypeOK'
  BY ObserveType, NotifyType DEF FailExecution
<1>7. resolution' \in Option(Resolution)
  BY DEF FailExecution, Unresolved, Option
<1>8. UNCHANGED <<latestGeneration, activePlaybackDemand, queue, closedAt, clock>>
  BY DEF FailExecution
<1> QED
  BY <1>3, <1>5, <1>6, <1>7, <1>8, TypeParts, TypeAssembled

-----------------------------------------------------------------------------
(* Type correctness: cancellation, eviction and demand authority.          *)

LEMMA RemoveKeyType ==
    ASSUME TypeOK, NEW k, RemoveKey(k), WorkerTypeOK'
    PROVE  TypeOK'
<1>1. pending' \in PendingMap /\ queue' \in Seq(QueuedWork)
  BY TypeParts, PendingEditsType, QueueEditsType DEF RemoveKey
<1>2. inFlight' \in LeaseMap
  BY <1>1, TypeParts, NowType, LeaseEditsType, RefreshFromType DEF RemoveKey
<1>3. lastObservedAt' \in 0 .. MaxTime /\ resolution' \in Option(Resolution)
  BY ObserveType DEF RemoveKey, Unresolved, Option
<1>4. UNCHANGED <<latestGeneration, activePlaybackDemand, closedAt, clock>>
  BY DEF RemoveKey
<1> QED
  BY <1>1, <1>2, <1>3, <1>4, TypeParts, TypeAssembled

LEMMA CancelKeyType ==
    ASSUME TypeOK, NEW k, NEW s, NEW g,
           CancelKey(k) \/ CancelPreemptedStill(k, s) \/ KeyCurrent(k, g)
    PROVE  TypeOK'
<1>1. CASE CancelKey(k)
  BY <1>1, NotifyIfType, RemoveKeyType DEF CancelKey
<1>2. CASE CancelPreemptedStill(k, s) \/ KeyCurrent(k, g)
  BY <1>2, NotifyType, RemoveKeyType DEF CancelPreemptedStill, KeyCurrent
<1> QED
  BY <1>1, <1>2

LEMMA CancelAllType ==
    ASSUME TypeOK, CancelAll \/ Close
    PROVE  TypeOK'
<1>1. pending' \in PendingMap /\ queue' \in Seq(QueuedWork)
  <2>1. pending' = [k \in Keys |-> None] /\ queue' = <<>>
    BY DEF CancelAll, Close
  <2>2. [k \in Keys |-> None] \in PendingMap
    BY DEF PendingMap, Option
  <2>3. <<>> \in Seq(QueuedWork)
    OBVIOUS
  <2> QED
    BY <2>1, <2>2, <2>3
<1>2. inFlight' \in LeaseMap
  BY <1>1, TypeParts, NowType, LeaseEditsType, RefreshFromType
     DEF CancelAll, Close
<1>3. lastObservedAt' \in 0 .. MaxTime /\ WorkerTypeOK'
  BY ObserveType, NotifyType DEF CancelAll, Close
<1>4. latestGeneration' \in Generations
  BY BoundsAssumption, TypeParts DEF CancelAll, Close, Generations
<1>5. closedAt' \in Option(Nat)
  BY TypeParts, NowType DEF CancelAll, Close, GetOrInsert, Option
<1>6. /\ activePlaybackDemand' \in Option(Demands)
      /\ resolution' \in Option(Resolution)
      /\ UNCHANGED clock
  BY DEF CancelAll, Close, Unresolved, Option
<1> QED
  BY <1>1, <1>2, <1>3, <1>4, <1>5, <1>6, TypeParts, TypeAssembled

LEMMA PrefetchRelinquishType ==
    ASSUME TypeOK,
           CancelOneQueuedPrefetch \/ RequestOneInFlightPrefetchPreemption
    PROVE  TypeOK'
<1>1. CASE CancelOneQueuedPrefetch
  <2>1. PICK i, k : /\ queue' = KeepAt(queue, DOMAIN queue \ {i})
                    /\ pending' = [pending EXCEPT ![k] = None]
    BY <1>1 DEF CancelOneQueuedPrefetch
  <2>2. pending' \in PendingMap /\ queue' \in Seq(QueuedWork)
    <3>1. DOMAIN queue \ {i} \in SUBSET (DOMAIN queue)
      OBVIOUS
    <3>2. queue' \in Seq(QueuedWork)
      BY <2>1, <3>1, TypeParts, KeepAtSeq
    <3> QED
      BY <2>1, <3>2, TypeParts, PendingEditsType
  <2>3. WorkerTypeOK' /\ resolution' \in Option(Resolution)
    BY <1>1, NotifyType DEF CancelOneQueuedPrefetch, Unresolved, Option
  <2>4. UNCHANGED <<latestGeneration, activePlaybackDemand, inFlight,
                    lastObservedAt, closedAt, clock>>
    BY <1>1 DEF CancelOneQueuedPrefetch
  <2> QED
    BY <2>2, <2>3, <2>4, TypeParts, TypeAssembled
<1>2. CASE RequestOneInFlightPrefetchPreemption
  <2>1. PICK l \in Leases : /\ inFlight[l] # None
                            /\ inFlight' = [inFlight EXCEPT ![l] =
                                    [inFlight[l] EXCEPT !.preemptedAt = Now]]
    BY <1>2 DEF RequestOneInFlightPrefetchPreemption, InFlightIn
  <2>2. inFlight[l] \in InFlightWork
    BY <2>1, TypeParts DEF LeaseMap, Option
  <2>3. [inFlight[l] EXCEPT !.preemptedAt = Now] \in InFlightWork
    BY <2>2, NowType DEF InFlightWork, Option
  <2>4. inFlight' \in LeaseMap
    BY <2>1, <2>3, TypeParts DEF LeaseMap, Option
  <2>5. lastObservedAt' \in 0 .. MaxTime /\ WorkerTypeOK'
    BY <1>2, ObserveType, NotifyType DEF RequestOneInFlightPrefetchPreemption
  <2>6. resolution' \in Option(Resolution)
    BY <1>2 DEF RequestOneInFlightPrefetchPreemption, Unresolved, Option
  <2>7. UNCHANGED <<latestGeneration, activePlaybackDemand, pending, queue,
                    closedAt, clock>>
    BY <1>2 DEF RequestOneInFlightPrefetchPreemption
  <2> QED
    BY <2>4, <2>5, <2>6, <2>7, TypeParts, TypeAssembled
<1> QED
  BY <1>1, <1>2

\* Detaching leases keeps them typed, whichever they are.
LEMMA DetachType ==
    ASSUME NEW fl \in LeaseMap, NEW D
    PROVE  [l \in Leases |->
                IF fl[l] # None /\ l \in D
                THEN [fl[l] EXCEPT !.presentationBindingExpired = TRUE]
                ELSE fl[l]] \in LeaseMap
<1>1. \A l \in Leases : fl[l] \in Option(InFlightWork)
  BY DEF LeaseMap
<1>2. \A l \in Leases : fl[l] # None =>
        [fl[l] EXCEPT !.presentationBindingExpired = TRUE] \in InFlightWork
  <2>1. \A e \in InFlightWork : [e EXCEPT !.presentationBindingExpired = TRUE] \in InFlightWork
    BY DEF InFlightWork
  <2> QED
    BY <1>1, <2>1 DEF Option
<1> QED
  BY <1>1, <1>2 DEF LeaseMap, Option

LEMMA SynchronizeType ==
    ASSUME TypeOK, NEW d \in Demands, SynchronizePlaybackCurrentDemand(d)
    PROVE  TypeOK'
<1>1. PICK D : RefreshFrom([l \in Leases |->
                    IF inFlight[l] # None /\ l \in D
                    THEN [inFlight[l] EXCEPT !.presentationBindingExpired = TRUE]
                    ELSE inFlight[l]])
  <2> DEFINE rebound(e) ==
                /\ pending[e.key] # None
                /\ pending[e.key].binding.generation >= latestGeneration
                /\ pending[e.key].binding.workClass = e.workClass
                /\ pending[e.key].binding.resourceScope = e.resourceScope
                /\ pending[e.key].binding.demandIdentity = d
             D == {l \in Leases :
                /\ inFlight[l].priority = "Current"
                /\ inFlight[l].demandIdentity \notin {None, d}
                /\ ~rebound(inFlight[l])
                /\ RetainsPlaybackLocality(inFlight[l])
                /\ Undisturbed(inFlight[l])}
  <2>1. RefreshFrom([l \in Leases |->
                    IF inFlight[l] # None /\ l \in D
                    THEN [inFlight[l] EXCEPT !.presentationBindingExpired = TRUE]
                    ELSE inFlight[l]])
    BY DEF SynchronizePlaybackCurrentDemand
  <2> QED
    BY <2>1
<1>2. PICK I \in SUBSET (DOMAIN queue) : queue' = KeepAt(queue, I)
  BY DEF SynchronizePlaybackCurrentDemand, Positions
<1>3. PICK K : pending' = [k \in Keys |-> IF k \in K THEN None ELSE pending[k]]
  <2>1. pending' = [k \in Keys |->
            IF k \in {x \in Keys : pending'[x] = None} THEN None ELSE pending[k]]
    BY DEF SynchronizePlaybackCurrentDemand
  <2> QED
    BY <2>1
<1>4. queue' \in Seq(QueuedWork)
  BY <1>2, TypeParts, KeepAtSeq
<1>5. pending' \in PendingMap
  BY <1>3, TypeParts DEF PendingMap, Option
<1>6. inFlight' \in LeaseMap
  BY <1>1, <1>5, TypeParts, DetachType, RefreshFromType
<1>7. /\ lastObservedAt' \in 0 .. MaxTime
      /\ WorkerTypeOK'
      /\ resolution' \in Option(Resolution)
      /\ activePlaybackDemand' \in Option(Demands)
      /\ UNCHANGED <<latestGeneration, closedAt, clock>>
  BY ObserveType, NotifyType
     DEF SynchronizePlaybackCurrentDemand, Unresolved, Option
<1> QED
  BY <1>4, <1>5, <1>6, <1>7, TypeParts, TypeAssembled

LEMMA ExpireType ==
    ASSUME TypeOK, ExpirePlaybackCurrent
    PROVE  TypeOK'
<1>1. PICK D : RefreshFrom([l \in Leases |->
                    IF inFlight[l] # None /\ l \in D
                    THEN [inFlight[l] EXCEPT !.presentationBindingExpired = TRUE]
                    ELSE inFlight[l]])
  <2> DEFINE expires(p) ==
                /\ p.binding.priority = "Current"
                /\ p.binding.workClass = "Playback"
                /\ p.binding.generation >= latestGeneration
                /\ IF p.deadlineAt = None THEN Now - p.requestedAt >= MaxAge
                   ELSE p.deadlineAt <= Now
             expired == {k \in PendingKeys(pending) : expires(pending[k])}
             detaches(e) ==
                /\ e.key \in expired
                /\ e.generation = pending[e.key].binding.generation
                /\ e.generation >= latestGeneration
                /\ e.workClass = pending[e.key].binding.workClass
                /\ e.resourceScope = pending[e.key].binding.resourceScope
                /\ e.inFlightDeadlinePolicy = "FinishForLocality"
                /\ e.invalidatedAt = None
                /\ e.preemptedAt = None
             D == {l \in Leases : detaches(inFlight[l])}
  <2>1. RefreshFrom([l \in Leases |->
                    IF inFlight[l] # None /\ l \in D
                    THEN [inFlight[l] EXCEPT !.presentationBindingExpired = TRUE]
                    ELSE inFlight[l]])
    BY DEF ExpirePlaybackCurrent
  <2> QED
    BY <2>1
<1>2. PICK I \in SUBSET (DOMAIN queue) : queue' = KeepAt(queue, I)
  BY DEF ExpirePlaybackCurrent, Positions
<1>3. PICK K : pending' = [k \in Keys |-> IF k \in K THEN None ELSE pending[k]]
  BY DEF ExpirePlaybackCurrent
<1>4. queue' \in Seq(QueuedWork)
  BY <1>2, TypeParts, KeepAtSeq
<1>5. pending' \in PendingMap
  BY <1>3, TypeParts DEF PendingMap, Option
<1>6. inFlight' \in LeaseMap
  BY <1>1, <1>5, TypeParts, DetachType, RefreshFromType
<1>7. /\ lastObservedAt' \in 0 .. MaxTime
      /\ WorkerTypeOK'
      /\ resolution' \in Option(Resolution)
      /\ UNCHANGED <<latestGeneration, activePlaybackDemand, closedAt, clock>>
  BY ObserveType, NotifyIfType DEF ExpirePlaybackCurrent, Unresolved, Option
<1> QED
  BY <1>4, <1>5, <1>6, <1>7, TypeParts, TypeAssembled

LEMMA ClockType ==
    ASSUME TypeOK, ClockStep
    PROVE  TypeOK'
<1>1. clock' \in 0 .. MaxTime
  BY BoundsAssumption, TypeParts DEF ClockStep, ClockAdvances, ClockRegresses
<1>2. /\ UNCHANGED <<latestGeneration, activePlaybackDemand, pending, queue,
                     inFlight, lastObservedAt, closedAt, workerVars>>
      /\ resolution' \in Option(Resolution)
  BY DEF ClockStep, ClockAdvances, ClockRegresses, Unresolved, Option
<1>3. WorkerTypeOK'
  BY <1>2, NotifyType
<1> QED
  BY <1>1, <1>2, <1>3, TypeParts, TypeAssembled

LEMMA InitType ==
    ASSUME Init
    PROVE  TypeOK
<1>1. /\ 0 \in Generations /\ 0 \in 0 .. MaxTime /\ 0 \in 0 .. MaxRevision
      /\ <<>> \in Seq(QueuedWork)
  BY BoundsAssumption DEF Generations
<1> QED
  BY <1>1 DEF Init, TypeOK, Option, WorkerStates

\* One action at a time, every step of the broker keeps its state typed.
LEMMA TypeStep ==
    ASSUME TypeOK, [Next]_vars
    PROVE  TypeOK'
<1>1. CASE CoordinatorStep
  <2>1. CASE \/ BeginGeneration
             \/ BeginGenerationPreservingPlaybackLocality
             \/ BeginGenerationPreservingInFlightPlaybackLocality
    BY <2>1, BeginGenerationType
  <2>2. CASE PruneObsolete \/ \E g \in Generations : PruneBefore(g)
    <3>1. 0 \in Generations
      BY BoundsAssumption DEF Generations
    <3> QED
      BY <2>2, <3>1, PruneType
  <2>3. ASSUME NEW r \in Requests, Submit(r) \/ BindExisting(r)
        PROVE  TypeOK'
    BY <2>3, SubmitType, BindExistingType
  <2>4. CASE \/ \E k \in Keys : CancelKey(k)
             \/ \E k \in Keys, s \in Scopes : CancelPreemptedStill(k, s)
             \/ \E k \in Keys, g \in Generations : KeyCurrent(k, g)
    BY <2>4, CancelKeyType
  <2>5. CASE CancelAll \/ Close
    BY <2>5, CancelAllType
  <2>6. CASE CancelOneQueuedPrefetch \/ RequestOneInFlightPrefetchPreemption
    BY <2>6, PrefetchRelinquishType
  <2>7. ASSUME NEW d \in Demands, SynchronizePlaybackCurrentDemand(d)
        PROVE  TypeOK'
    BY <2>7, SynchronizeType
  <2>8. CASE ExpirePlaybackCurrent
    BY <2>8, ExpireType
  <2>9. CASE InterruptWorkerWaits
    BY <2>9, WakeType
  <2> QED
    BY <1>1, <2>1, <2>2, <2>3, <2>4, <2>5, <2>6, <2>7, <2>8, <2>9
       DEF CoordinatorStep
<1>2. CASE CompletionStep
  BY <1>2, ResolveType, ResolveUnleasedType DEF CompletionStep
<1>3. CASE WorkerStep
  <2>1. ASSUME NEW lane \in Lanes,
               Dequeue(lane) \/ Park(lane) \/ ObserveLifecycle(lane)
        PROVE  TypeOK'
    BY <2>1, DequeueType, ParkType, WakeType
  <2>2. ASSUME NEW lane \in Lanes, TimedWakeup(lane) \/ SpuriousWakeup(lane)
        PROVE  TypeOK'
    BY <2>2, WakeType DEF TimedWakeup, SpuriousWakeup
  <2>3. ASSUME NEW l \in Leases,
               \/ WaitForExecutionTerminalState(l)
               \/ MarkExecutionCompleted(l)
               \/ AbandonExecution(l)
        PROVE  TypeOK'
    BY <2>3, WaitType, MarkType, AbandonType
  <2> QED
    BY <1>3, <2>1, <2>2, <2>3 DEF WorkerStep
<1>4. CASE ClockStep
  BY <1>4, ClockType
<1>5. CASE \E l \in Leases : FailExecution(l)
  BY <1>5, FailType
<1>6. CASE UNCHANGED vars
  BY <1>6 DEF vars, brokerVars, workerVars, TypeOK
<1> QED
  BY <1>1, <1>2, <1>3, <1>4, <1>5, <1>6 DEF Next, NextWithoutFailure

\* Every reachable state of the broker is type correct, with the failures of
\* executions and a clock that steps back included.
THEOREM TypeCorrect == Spec => []TypeOK
<1>1. Init => TypeOK
  BY InitType
<1>2. TypeOK /\ [Next]_vars => TypeOK'
  BY TypeStep
<1> QED
  BY <1>1, <1>2, PTL DEF Spec

-----------------------------------------------------------------------------
(* What the edits of the pending map and of the queue leave in place.      *)

\* Dropping bindings alters none of the others.
LEMMA PendingEditsRetain ==
    ASSUME NEW pend \in PendingMap, NEW q, NEW fl, NEW k, NEW latest,
           NEW x \in Keys
    PROVE  /\ WithoutOrphan(pend, q, fl, k)[x] \in {None, pend[x]}
           /\ PrunedPending(pend, latest)[x] \in {None, pend[x]}
           /\ [pend EXCEPT ![k] = None][x] \in {None, pend[x]}
           /\ Evicted(pend, k)[x] \in {None, pend[x]}
           /\ PrunedPending(pend, latest)[x] # None =>
                ~(pend[x].binding.generation < latest)
<1>1. [pend EXCEPT ![k] = None][x] \in {None, pend[x]}
  BY DEF PendingMap
<1>2. WithoutOrphan(pend, q, fl, k)[x] \in {None, pend[x]}
  BY <1>1 DEF WithoutOrphan
<1>3. Evicted(pend, k)[x] \in {None, pend[x]}
  BY <1>1 DEF Evicted
<1>4. /\ PrunedPending(pend, latest)[x] \in {None, pend[x]}
      /\ PrunedPending(pend, latest)[x] # None =>
            ~(pend[x].binding.generation < latest)
  BY DEF PrunedPending
<1> QED
  BY <1>1, <1>2, <1>3, <1>4

LEMMA DroppedRetains ==
    ASSUME NEW pend \in PendingMap, NEW k,
           NEW new \in {pend, [pend EXCEPT ![k] = None]}
    PROVE  /\ new \in PendingMap
           /\ \A x \in Keys : new[x] \in {None, pend[x]}
<1>1. CASE new = pend
  BY <1>1
<1>2. CASE new = [pend EXCEPT ![k] = None]
  <2>1. new \in PendingMap
    BY <1>2, PendingEditsType
  <2>2. \A x \in Keys : new[x] \in {None, pend[x]}
    BY <1>2, PendingEditsRetain
  <2> QED
    BY <2>1, <2>2
<1> QED
  BY <1>1, <1>2

\* The payloads that stay are payloads of the queue, and a key that was
\* queued leaves a shorter queue behind.
LEMMA WithoutKeyRetains ==
    ASSUME NEW q \in Seq(QueuedWork), NEW k
    PROVE  /\ \A n \in DOMAIN WithoutKey(q, k) : \E i \in DOMAIN q :
                /\ WithoutKey(q, k)[n] = q[i]
                /\ q[i].request.key # k
           /\ (\E i \in DOMAIN q : q[i].request.key = k) =>
                Len(WithoutKey(q, k)) < Len(q)
<1> DEFINE I == Positions(q, LAMBDA w : w.request.key # k)
<1>1. I \in SUBSET (DOMAIN q) /\ \A i \in I : q[i].request.key # k
  BY DEF Positions
<1>2. \A i \in DOMAIN q : q[i].request.key = k => i \notin I
  BY DEF Positions
<1>3. WithoutKey(q, k) = KeepAt(q, I)
  BY DEF WithoutKey
<1> HIDE DEF I
<1>4. \A n \in DOMAIN KeepAt(q, I) : \E i \in I : KeepAt(q, I)[n] = q[i]
  BY <1>1, KeepAtSeq
<1>5. ASSUME \E i \in DOMAIN q : q[i].request.key = k
      PROVE  Len(KeepAt(q, I)) < Len(q)
  <2>1. I # DOMAIN q
    BY <1>2, <1>5
  <2>2. DOMAIN q = 1 .. Len(q) /\ Len(q) \in Nat
    OBVIOUS
  <2>3. IsFiniteSet(DOMAIN q) /\ Cardinality(DOMAIN q) = Len(q)
    <3>1. /\ IsFiniteSet(1 .. Len(q))
          /\ Cardinality(1 .. Len(q)) = IF 1 > Len(q) THEN 0 ELSE Len(q) - 1 + 1
      BY <2>2, FS_Interval
    <3> QED
      BY <2>2, <3>1
  <2>4. Cardinality(I) # Cardinality(DOMAIN q)
    BY <1>1, <2>1, <2>3, FS_Subset
  <2>5. /\ Len(KeepAt(q, I)) = Cardinality(I)
        /\ Cardinality(I) \in Nat
        /\ Cardinality(I) <= Len(q)
    BY <1>1, KeepAtSeq
  <2> QED
    BY <2>2, <2>3, <2>4, <2>5
<1> QED
  BY <1>1, <1>3, <1>4, <1>5

\* A pruned queue holds the payloads of the latest generations only.
LEMMA PrunedQueueRetains ==
    ASSUME NEW q \in Seq(QueuedWork), NEW latest
    PROVE  \A n \in DOMAIN PrunedQueue(q, latest) : \E i \in DOMAIN q :
                /\ PrunedQueue(q, latest)[n] = q[i]
                /\ q[i].request.generation >= latest
<1> DEFINE I == Positions(q, LAMBDA w : w.request.generation >= latest)
<1>1. I \in SUBSET (DOMAIN q) /\ \A i \in I : q[i].request.generation >= latest
  BY DEF Positions
<1>2. PrunedQueue(q, latest) = KeepAt(q, I)
  BY DEF PrunedQueue
<1> HIDE DEF I
<1> QED
  BY <1>1, <1>2, KeepAtSeq

-----------------------------------------------------------------------------
(* The steps that only drop.                                               *)

Subsequent(new, old) ==
    /\ Len(new) <= Len(old)
    /\ \A n \in DOMAIN new : \E i \in DOMAIN old : new[n] = old[i]

Retains ==
    /\ \A k \in Keys : pending'[k] \in {None, pending[k]}
    /\ Subsequent(queue', queue)
    /\ latestGeneration' = latestGeneration \/ CancelAll
    /\ closedAt' = closedAt \/ Close

LEMMA SubsequentKept ==
    ASSUME NEW q \in Seq(QueuedWork), NEW I \in SUBSET (DOMAIN q), NEW k
    PROVE  /\ Subsequent(q, q)
           /\ Subsequent(KeepAt(q, I), q)
           /\ Subsequent(WithoutKey(q, k), q)
           /\ Subsequent(<<>>, q)
<1>1. Subsequent(q, q) /\ Subsequent(<<>>, q)
  BY DEF Subsequent
<1>2. Subsequent(KeepAt(q, I), q)
  BY KeepAtSeq DEF Subsequent
<1>3. Subsequent(WithoutKey(q, k), q)
  BY QueueEditsType, WithoutKeyRetains DEF Subsequent
<1> QED
  BY <1>1, <1>2, <1>3

LEMMA SettleRetains ==
    ASSUME TypeOK, NEW e, NEW fl, NEW reusable, Settle(e, fl, reusable)
    PROVE  Retains
<1>1. pending \in PendingMap /\ queue \in Seq(QueuedWork)
  BY TypeParts
<1>2. queue' \in {queue, WithoutKey(queue, e.key)}
  BY DEF Settle
<1>3. PICK pend \in {pending, [pending EXCEPT ![e.key] = None]} :
        pending' = WithoutOrphan(pend, queue', fl, e.key)
  BY DEF Settle
<1>4. pend \in PendingMap /\ \A k \in Keys : pend[k] \in {None, pending[k]}
  BY <1>1, <1>3, DroppedRetains
<1>5. \A k \in Keys : pending'[k] \in {None, pend[k]}
  BY <1>3, <1>4, PendingEditsRetain
<1>6. latestGeneration' = latestGeneration /\ closedAt' = closedAt
  BY DEF Settle
<1>7. Subsequent(queue', queue)
  BY <1>1, <1>2, SubsequentKept
<1> QED
  BY <1>4, <1>5, <1>6, <1>7 DEF Retains

LEMMA FailRetains ==
    ASSUME TypeOK, NEW l \in Leases, FailExecution(l)
    PROVE  Retains
<1> DEFINE fl == [inFlight EXCEPT ![l] = None]
           k == inFlight[l].key
<1>1. \E taken \in {pending, [pending EXCEPT ![k] = None]} :
        \E swept \in {taken, [taken EXCEPT ![k] = None]} :
            pending' = WithoutOrphan(swept, queue, fl, k)
  BY DEF FailExecution
<1>2. /\ pending \in PendingMap /\ queue \in Seq(QueuedWork)
      /\ UNCHANGED <<latestGeneration, queue, closedAt>>
  BY TypeParts DEF FailExecution
<1> HIDE DEF k, fl
<1>3. PICK taken \in {pending, [pending EXCEPT ![k] = None]} :
        \E swept \in {taken, [taken EXCEPT ![k] = None]} :
            pending' = WithoutOrphan(swept, queue, fl, k)
  BY <1>1
<1>4. PICK swept \in {taken, [taken EXCEPT ![k] = None]} :
        pending' = WithoutOrphan(swept, queue, fl, k)
  BY <1>3
<1>5. taken \in PendingMap /\ \A x \in Keys : taken[x] \in {None, pending[x]}
  BY <1>2, <1>3, DroppedRetains
<1>6. swept \in PendingMap /\ \A x \in Keys : swept[x] \in {None, taken[x]}
  BY <1>4, <1>5, DroppedRetains
<1>7. \A x \in Keys : pending'[x] \in {None, swept[x]}
  BY <1>4, <1>6, PendingEditsRetain
<1> QED
  BY <1>2, <1>5, <1>6, <1>7, SubsequentKept DEF Retains

LEMMA RemoveKeyRetains ==
    ASSUME TypeOK, NEW k, RemoveKey(k)
    PROVE  Retains
<1>1. pending \in PendingMap /\ queue \in Seq(QueuedWork)
  BY TypeParts
<1>2. /\ pending' = [pending EXCEPT ![k] = None]
      /\ queue' = WithoutKey(queue, k)
      /\ UNCHANGED <<latestGeneration, closedAt>>
  BY DEF RemoveKey
<1> QED
  BY <1>1, <1>2, SubsequentKept, PendingEditsRetain DEF Retains

\* The demand authority: synchronization and the stall watchdog.
LEMMA DemandRetains ==
    ASSUME TypeOK, NEW d,
           SynchronizePlaybackCurrentDemand(d) \/ ExpirePlaybackCurrent
    PROVE  Retains
<1>1. queue \in Seq(QueuedWork)
  BY TypeParts
<1>2. PICK I \in SUBSET (DOMAIN queue) : queue' = KeepAt(queue, I)
  BY DEF SynchronizePlaybackCurrentDemand, ExpirePlaybackCurrent, Positions
<1>3. \A k \in Keys : pending'[k] \in {None, pending[k]}
  <2>1. CASE SynchronizePlaybackCurrentDemand(d)
    BY <2>1 DEF SynchronizePlaybackCurrentDemand
  <2>2. CASE ExpirePlaybackCurrent
    BY <2>2 DEF ExpirePlaybackCurrent
  <2> QED
    BY <2>1, <2>2
<1>4. latestGeneration' = latestGeneration /\ closedAt' = closedAt
  BY DEF SynchronizePlaybackCurrentDemand, ExpirePlaybackCurrent
<1>5. Subsequent(queue', queue)
  BY <1>1, <1>2, SubsequentKept
<1> QED
  BY <1>3, <1>4, <1>5 DEF Retains

LEMMA PrefetchRelinquishRetains ==
    ASSUME TypeOK,
           CancelOneQueuedPrefetch \/ RequestOneInFlightPrefetchPreemption
    PROVE  Retains
<1>1. pending \in PendingMap /\ queue \in Seq(QueuedWork)
  BY TypeParts
<1>2. CASE CancelOneQueuedPrefetch
  <2>1. PICK i, k : /\ queue' = KeepAt(queue, DOMAIN queue \ {i})
                    /\ pending' = [pending EXCEPT ![k] = None]
                    /\ UNCHANGED <<latestGeneration, closedAt>>
    BY <1>2 DEF CancelOneQueuedPrefetch
  <2>2. DOMAIN queue \ {i} \in SUBSET (DOMAIN queue)
    OBVIOUS
  <2>3. Subsequent(queue', queue)
    BY <1>1, <2>1, <2>2, SubsequentKept
  <2> QED
    BY <1>1, <2>1, <2>3, PendingEditsRetain DEF Retains
<1>3. CASE RequestOneInFlightPrefetchPreemption
  BY <1>1, <1>3, SubsequentKept
     DEF RequestOneInFlightPrefetchPreemption, Retains
<1> QED
  BY <1>2, <1>3

\* Canceling or closing drops everything.
LEMMA CancelAllRetains ==
    ASSUME TypeOK, CancelAll \/ Close
    PROVE  Retains
<1>1. queue \in Seq(QueuedWork)
  BY TypeParts
<1>2. /\ queue' = <<>>
      /\ pending' = [k \in Keys |-> None]
      /\ latestGeneration' = latestGeneration \/ CancelAll
      /\ closedAt' = closedAt \/ Close
  BY DEF CancelAll, Close
<1> QED
  BY <1>1, <1>2, SubsequentKept DEF Retains

LEMMA AbandonRetains ==
    ASSUME TypeOK, NEW l \in Leases, AbandonExecution(l)
    PROVE  Retains
<1>1. pending \in PendingMap /\ queue \in Seq(QueuedWork)
  BY TypeParts
<1>2. /\ pending' = WithoutOrphan(pending, queue, inFlight', inFlight[l].key)
      /\ UNCHANGED <<latestGeneration, queue, closedAt>>
  BY DEF AbandonExecution
<1> QED
  BY <1>1, <1>2, SubsequentKept, PendingEditsRetain DEF Retains

LEMMA DequeueRetains ==
    ASSUME TypeOK, NEW lane, Dequeue(lane)
    PROVE  Retains
<1>1. queue \in Seq(QueuedWork)
  BY TypeParts
<1>2. PICK i : queue' = KeepAt(queue, DOMAIN queue \ {i})
  BY DEF Dequeue
<1>3. DOMAIN queue \ {i} \in SUBSET (DOMAIN queue)
  OBVIOUS
<1>4. Subsequent(queue', queue)
  BY <1>1, <1>2, <1>3, SubsequentKept
<1>5. UNCHANGED <<latestGeneration, pending, closedAt>>
  BY DEF Dequeue
<1> QED
  BY <1>4, <1>5 DEF Retains

\* The steps that concern neither bindings nor payloads.
LEMMA UnchangedRetains ==
    ASSUME TypeOK, UNCHANGED <<latestGeneration, pending, queue, closedAt>>
    PROVE  Retains
<1>1. queue \in Seq(QueuedWork)
  BY TypeParts
<1> QED
  BY <1>1, SubsequentKept DEF Retains

-----------------------------------------------------------------------------
(* The three sorts of steps.                                               *)

Rotation ==
    \/ BeginGeneration
    \/ BeginGenerationPreservingPlaybackLocality
    \/ BeginGenerationPreservingInFlightPlaybackLocality
    \/ \E g \in Generations : PruneBefore(g)
    \/ PruneObsolete

Admission == \E r \in Requests : Submit(r) \/ BindExisting(r)

LEMMA StepSorts ==
    ASSUME TypeOK, [Next]_vars
    PROVE  Rotation \/ Admission \/ Retains
<1>1. CASE CoordinatorStep
  <2>1. CASE Rotation \/ Admission
    BY <2>1
  <2>2. CASE \/ \E k \in Keys : CancelKey(k)
             \/ \E k \in Keys, s \in Scopes : CancelPreemptedStill(k, s)
             \/ \E k \in Keys, g \in Generations : KeyCurrent(k, g)
    BY <2>2, RemoveKeyRetains DEF CancelKey, CancelPreemptedStill, KeyCurrent
  <2>3. CASE CancelAll \/ Close
    BY <2>3, CancelAllRetains
  <2>4. CASE CancelOneQueuedPrefetch \/ RequestOneInFlightPrefetchPreemption
    BY <2>4, PrefetchRelinquishRetains
  <2>5. CASE \/ \E d \in Demands : SynchronizePlaybackCurrentDemand(d)
             \/ ExpirePlaybackCurrent
    BY <2>5, DemandRetains
  <2>6. CASE InterruptWorkerWaits
    BY <2>6, UnchangedRetains DEF InterruptWorkerWaits
  <2> QED
    BY <1>1, <2>1, <2>2, <2>3, <2>4, <2>5, <2>6
       DEF CoordinatorStep, Rotation, Admission
<1>2. CASE CompletionStep
  BY <1>2, SettleRetains DEF CompletionStep, ResolveExecution, ResolveUnleased
<1>3. CASE WorkerStep
  <2>1. ASSUME NEW lane \in Lanes, Dequeue(lane)
        PROVE  Retains
    BY <2>1, DequeueRetains
  <2>2. ASSUME NEW lane \in Lanes,
               \/ Park(lane) \/ ObserveLifecycle(lane)
               \/ TimedWakeup(lane) \/ SpuriousWakeup(lane)
        PROVE  Retains
    BY <2>2, UnchangedRetains
       DEF Park, ObserveLifecycle, TimedWakeup, SpuriousWakeup, Wake
  <2>3. ASSUME NEW l \in Leases,
               WaitForExecutionTerminalState(l) \/ MarkExecutionCompleted(l)
        PROVE  Retains
    BY <2>3, UnchangedRetains
       DEF WaitForExecutionTerminalState, MarkExecutionCompleted
  <2>4. ASSUME NEW l \in Leases, AbandonExecution(l)
        PROVE  Retains
    BY <2>4, AbandonRetains
  <2> QED
    BY <1>3, <2>1, <2>2, <2>3, <2>4 DEF WorkerStep
<1>4. CASE ClockStep
  BY <1>4, UnchangedRetains DEF ClockStep, ClockAdvances, ClockRegresses
<1>5. CASE \E l \in Leases : FailExecution(l)
  BY <1>5, FailRetains
<1>6. CASE UNCHANGED vars
  BY <1>6, UnchangedRetains DEF vars, brokerVars
<1> QED
  BY <1>1, <1>2, <1>3, <1>4, <1>5, <1>6 DEF Next, NextWithoutFailure

-----------------------------------------------------------------------------
(* What a rotation leaves.                                                 *)

\* Every binding of pend and every payload of q belongs to `latest` or later.
LatestIn(latest, pend, q) ==
    /\ \A k \in Keys : pend[k] # None => pend[k].binding.generation >= latest
    /\ \A i \in DOMAIN q : q[i].request.generation >= latest

LEMMA PrunedLatest ==
    ASSUME NEW pend \in PendingMap, NEW q \in Seq(QueuedWork), NEW latest \in Nat
    PROVE  /\ LatestIn(latest, PrunedPending(pend, latest), PrunedQueue(q, latest))
           /\ \A k \in Keys :
                pend[k] = None => PrunedPending(pend, latest)[k] = None
<1>1. ASSUME NEW k \in Keys, PrunedPending(pend, latest)[k] # None
      PROVE  PrunedPending(pend, latest)[k].binding.generation >= latest
  <2>1. /\ PrunedPending(pend, latest)[k] = pend[k]
        /\ ~(pend[k].binding.generation < latest)
    BY <1>1, PendingEditsRetain
  <2>2. pend[k] \in PendingBinding
    BY <1>1, <2>1 DEF PendingMap, Option
  <2>3. pend[k].binding.generation \in Nat
    BY <2>2, BoundsAssumption DEF PendingBinding, Binding, Generations
  <2> QED
    BY <2>1, <2>3
<1>2. \A k \in Keys : pend[k] = None => PrunedPending(pend, latest)[k] = None
  BY PendingEditsRetain
<1>3. \A n \in DOMAIN PrunedQueue(q, latest) :
        PrunedQueue(q, latest)[n].request.generation >= latest
  BY PrunedQueueRetains
<1> QED
  BY <1>1, <1>2, <1>3 DEF LatestIn

LEMMA RotateToFacts ==
    ASSUME NEW latest \in Nat, NEW pend \in PendingMap,
           NEW q \in Seq(QueuedWork), NEW fl, RotateTo(latest, pend, q, fl),
           Len(q) = Len(queue),
           \A k \in Keys : pending[k] = None => pend[k] = None
    PROVE  /\ Len(queue') <= Len(queue)
           /\ \A k \in Keys : pending[k] = None => pending'[k] = None
           /\ LatestIn(latestGeneration', pending', queue')
           /\ closedAt' = closedAt
<1>1. /\ latestGeneration' = latest
      /\ pending' = PrunedPending(pend, latest)
      /\ queue' = PrunedQueue(q, latest)
      /\ closedAt' = closedAt
  BY DEF RotateTo
<1>2. Len(queue') <= Len(queue)
  BY <1>1, QueueEditsType
<1> QED
  BY <1>1, <1>2, PrunedLatest

LEMMA RotationFacts ==
    ASSUME TypeOK, Rotation
    PROVE  /\ Len(queue') <= Len(queue)
           /\ \A k \in Keys : pending[k] = None => pending'[k] = None
           /\ LatestIn(latestGeneration', pending', queue')
           /\ closedAt' = closedAt
<1>1. /\ pending \in PendingMap
      /\ queue \in Seq(QueuedWork)
      /\ latestGeneration \in Nat /\ latestGeneration + 1 \in Nat
  BY TypeParts, BoundsAssumption DEF Generations
<1>2. CASE BeginGeneration \/ BeginGenerationPreservingInFlightPlaybackLocality
  <2>1. PICK fl : RotateTo(latestGeneration + 1, pending, queue, fl)
    BY <1>2 DEF BeginGeneration, BeginGenerationPreservingInFlightPlaybackLocality
  <2> QED
    BY <1>1, <2>1, RotateToFacts
<1>3. CASE BeginGenerationPreservingPlaybackLocality
  <2>1. PICK pend \in PendingMap, q \in Seq(QueuedWork) :
            /\ RotateTo(latestGeneration + 1, pend, q, DetachedLocality(inFlight))
            /\ Len(q) = Len(queue)
            /\ \A k \in Keys : pending[k] = None => pend[k] = None
    BY <1>3, PreservingRotates
  <2> QED
    BY <1>1, <2>1, RotateToFacts
<1>4. CASE \E g \in Generations : PruneBefore(g)
  <2>1. PICK latest \in Nat : RotateTo(latest, pending, queue, inFlight)
    BY <1>1, <1>4, BoundsAssumption DEF PruneBefore, Generations
  <2> QED
    BY <1>1, <2>1, RotateToFacts
<1>5. CASE PruneObsolete
  <2>1. /\ latestGeneration' = latestGeneration
        /\ pending' = PrunedPending(pending, latestGeneration)
        /\ queue' = PrunedQueue(queue, latestGeneration)
        /\ closedAt' = closedAt
    BY <1>5 DEF PruneObsolete
  <2>2. Len(queue') <= Len(queue)
    BY <1>1, <2>1, QueueEditsType
  <2> QED
    BY <1>1, <2>1, <2>2, PrunedLatest
<1> QED
  BY <1>2, <1>3, <1>4, <1>5 DEF Rotation

-----------------------------------------------------------------------------
(* What an admission leaves.                                               *)

\* Every payload of a plan was queued.
LEMMA CandidateQueued ==
    ASSUME NEW q \in Seq(QueuedWork), NEW r, NEW k \in QueueEvictionCandidate(q, r)
    PROVE  \E i \in DOMAIN q : q[i].request.key = k
<1> DEFINE prefetch == Positions(q, LAMBDA w : w.request.priority = "Prefetch")
           still    == Positions(q, LAMBDA w : w.request.workClass = "Still")
<1>1. prefetch \in SUBSET (DOMAIN q) /\ still \in SUBSET (DOMAIN q)
  BY DEF Positions
<1>2. \/ prefetch # {} /\ k = q[FirstPosition(prefetch)].request.key
      \/ still # {} /\ k = q[FirstPosition(still)].request.key
  BY DEF QueueEvictionCandidate
<1> HIDE DEF prefetch, still
<1>3. ASSUME NEW I \in SUBSET (DOMAIN q), I # {}
      PROVE  FirstPosition(I) \in DOMAIN q
  <2>1. I \in SUBSET Nat
    OBVIOUS
  <2>2. LeastOf(I) \in I
    BY <1>3, <2>1, LeastOfIn
  <2>3. FirstPosition(I) = LeastOf(I)
    BY DEF FirstPosition, LeastOf
  <2> QED
    BY <2>2, <2>3
<1> QED
  BY <1>1, <1>2, <1>3

\* The push after an eviction: what is evicted makes the room it takes.
LEMMA PushFacts ==
    ASSUME NEW pend \in PendingMap, NEW q \in Seq(QueuedWork), NEW fl,
           NEW r \in Request, NEW k, PushAfterEviction(pend, q, fl, r, k),
           NEW latest \in Nat, LatestIn(latest, pend, q), r.generation >= latest
    PROVE  /\ LatestIn(latest, pending', queue')
           /\ Len(queue') = Len(EvictedQueue(q, k)) + 1
<1> DEFINE kept == EvictedQueue(q, k)
<1>1. kept \in Seq(QueuedWork)
  BY QueueEditsType
<1>2. \A n \in DOMAIN kept : \E i \in DOMAIN q : kept[n] = q[i]
  BY WithoutKeyRetains DEF EvictedQueue
<1>3. queue' = Append(kept, QueuedFor(r))
  BY DEF PushAfterEviction
<1> HIDE DEF kept
<1>4. Len(queue') = Len(kept) + 1 /\ DOMAIN queue' = 1 .. (Len(kept) + 1)
  BY <1>1, <1>3
<1>5. \A n \in DOMAIN queue' : n \in DOMAIN kept \/ n = Len(kept) + 1
  BY <1>1, <1>4
<1>6. \A n \in DOMAIN kept : queue'[n] = kept[n]
  BY <1>1, <1>3
<1>7. queue'[Len(kept) + 1] = QueuedFor(r)
  BY <1>1, <1>3
<1>8. QueuedFor(r).request.generation >= latest
  BY DEF QueuedFor
<1>9. \A n \in DOMAIN queue' : queue'[n].request.generation >= latest
  BY <1>2, <1>5, <1>6, <1>7, <1>8 DEF LatestIn
<1>10. ASSUME NEW x \in Keys, pending'[x] # None
       PROVE  pending'[x].binding.generation >= latest
  <2>1. pending' = [Evicted(pend, k) EXCEPT ![r.key] = PendingFor(r, Now)]
    BY DEF PushAfterEviction
  <2>2. Evicted(pend, k) \in PendingMap
    BY PendingEditsType
  <2>3. CASE x = r.key
    BY <2>1, <2>2, <2>3 DEF PendingMap, PendingFor, BindingFor
  <2>4. CASE x # r.key
    <3>1. pending'[x] = Evicted(pend, k)[x]
      BY <2>1, <2>2, <2>4 DEF PendingMap
    <3>2. pending'[x] = pend[x]
      BY <1>10, <3>1, PendingEditsRetain
    <3> QED
      BY <1>10, <3>2 DEF LatestIn
  <2> QED
    BY <2>3, <2>4
<1> QED
  BY <1>4, <1>9, <1>10 DEF LatestIn, kept

\* Replacing what one key is bound to.
LEMMA BoundLatest ==
    ASSUME NEW pend \in PendingMap, NEW q \in Seq(QueuedWork), NEW k, NEW b,
           NEW latest \in Nat, LatestIn(latest, pend, q),
           b.binding.generation >= latest
    PROVE  \A x \in Keys : [pend EXCEPT ![k] = b][x] # None =>
                [pend EXCEPT ![k] = b][x].binding.generation >= latest
BY DEF PendingMap, LatestIn

LEMMA ReplacedLatest ==
    ASSUME NEW pend, NEW q \in Seq(QueuedWork), NEW i, NEW w,
           NEW latest \in Nat, LatestIn(latest, pend, q),
           w.request.generation >= latest
    PROVE  \A n \in DOMAIN [q EXCEPT ![i] = w] :
                [q EXCEPT ![i] = w][n].request.generation >= latest
BY DEF LatestIn

LEMMA PromotedGeneration ==
    ASSUME NEW previous, NEW r \in Request
    PROVE  /\ Promoted(previous, r).generation = r.generation
           /\ Promoted(previous, r).key = r.key
BY DEF Promoted, Request

LEMMA ResubmitFacts ==
    ASSUME TypeOK, NEW r0 \in Request, pending[r0.key] # None, Resubmit(r0),
           latestGeneration \in Nat, r0.generation >= latestGeneration,
           LatestIn(latestGeneration, pending, queue), QueueWithinBudget
    PROVE  LatestIn(latestGeneration, pending', queue') /\ Len(queue') <= MaxQueued
<1> DEFINE previous == pending[r0.key]
           r == Promoted(previous, r0)
           leases == RestoredDemandBinding(activePlaybackDemand, inFlight,
                                           r.key, BindingFor(r))
           queued == Positions(queue, LAMBDA w : w.request.key = r.key)
           bound == PendingFor(r, RequestedAt(previous, r))
<1>1. /\ pending \in PendingMap
      /\ queue \in Seq(QueuedWork)
      /\ Len(queue) \in Nat /\ Len(queue) <= MaxQueued
      /\ MaxQueued \in Nat
  BY TypeParts, BoundsAssumption DEF QueueWithinBudget
<1>2. previous \in PendingBinding /\ r \in Request
  <2>1. r0.key \in Keys
    BY DEF Request
  <2>2. previous \in PendingBinding
    BY <1>1, <2>1 DEF PendingMap, Option
  <2> QED
    BY <2>2, PromotedType
<1>3. r.generation >= latestGeneration
  BY PromotedGeneration
<1>4. /\ bound.binding.generation >= latestGeneration
      /\ QueuedFor(r).request.generation >= latestGeneration
  BY <1>3 DEF PendingFor, BindingFor, QueuedFor
<1>5. QueuedFor(r) \in QueuedWork
  BY <1>2, NowType, RequestTypes
<1>6. \/ /\ pending' = [pending EXCEPT ![r.key] = bound]
         /\ queue' = [queue EXCEPT ![FirstPosition(queued)] = QueuedFor(r)]
      \/ /\ pending' = [pending EXCEPT ![r.key] = bound]
         /\ queue' = queue
      \/ \E k \in QueueEvictionPlans(queue, r) :
            PushAfterEviction(pending, queue, leases, r, k)
      \/ UNCHANGED <<pending, queue>>
  BY DEF Resubmit
<1> HIDE DEF previous, r, leases, queued, bound
<1>7. CASE /\ pending' = [pending EXCEPT ![r.key] = bound]
           /\ queue' = [queue EXCEPT ![FirstPosition(queued)] = QueuedFor(r)]
  <2>1. Len(queue') = Len(queue)
    BY <1>1, <1>5, <1>7, QueueUpdateType
  <2>2. LatestIn(latestGeneration, pending', queue')
    BY <1>1, <1>4, <1>7, BoundLatest, ReplacedLatest DEF LatestIn
  <2> QED
    BY <1>1, <2>1, <2>2
<1>8. CASE /\ pending' = [pending EXCEPT ![r.key] = bound]
           /\ queue' = queue
  <2>1. \A x \in Keys : pending'[x] # None =>
            pending'[x].binding.generation >= latestGeneration
    BY <1>1, <1>4, <1>8, BoundLatest
  <2> QED
    BY <1>1, <1>8, <2>1 DEF LatestIn
<1>9. CASE \E k \in QueueEvictionPlans(queue, r) :
            PushAfterEviction(pending, queue, leases, r, k)
  <2>1. PICK k \in QueueEvictionPlans(queue, r) :
            PushAfterEviction(pending, queue, leases, r, k)
    BY <1>9
  <2>2. /\ LatestIn(latestGeneration, pending', queue')
        /\ Len(queue') = Len(EvictedQueue(queue, k)) + 1
    BY <1>1, <1>2, <1>3, <2>1, PushFacts
  <2>3. Len(EvictedQueue(queue, k)) < MaxQueued
    <3>1. CASE Len(queue) < MaxQueued
      <4>1. Len(EvictedQueue(queue, k)) <= Len(queue)
        BY <1>1, QueueEditsType
      <4>2. Len(EvictedQueue(queue, k)) \in Nat
        BY <1>1, QueueEditsType
      <4> QED
        BY <1>1, <3>1, <4>1, <4>2
    <3>2. CASE ~(Len(queue) < MaxQueued)
      <4>1. k \in QueueEvictionCandidate(queue, r)
        BY <2>1, <3>2 DEF QueueEvictionPlans, FitsQueue
      <4>2. \E i \in DOMAIN queue : queue[i].request.key = k
        BY <1>1, <4>1, CandidateQueued
      <4>3. k # None => Len(EvictedQueue(queue, k)) < Len(queue)
        BY <1>1, <4>2, WithoutKeyRetains DEF EvictedQueue
      <4>4. k # None
        <5>1. PICK i \in DOMAIN queue : queue[i].request.key = k
          BY <4>2
        <5>2. queue[i] \in QueuedWork
          BY <1>1
        <5>3. k \in Keys
          BY <5>1, <5>2 DEF QueuedWork, Request
        <5> QED
          BY <5>3, NoneAssumption
      <4>5. Len(EvictedQueue(queue, k)) \in Nat
        BY <1>1, QueueEditsType
      <4> QED
        BY <1>1, <4>3, <4>4, <4>5
    <3> QED
      BY <3>1, <3>2
  <2>4. Len(EvictedQueue(queue, k)) \in Nat
    BY <1>1, QueueEditsType
  <2> QED
    BY <1>1, <2>2, <2>3, <2>4
<1>10. CASE UNCHANGED <<pending, queue>>
  BY <1>1, <1>10
<1> QED
  BY <1>6, <1>7, <1>8, <1>9, <1>10

LEMMA AdmitFacts ==
    ASSUME TypeOK, NEW r \in Request, Admit(r),
           latestGeneration \in Nat, r.generation >= latestGeneration,
           QueueWithinBudget
    PROVE  LatestIn(latestGeneration, pending', queue') /\ Len(queue') <= MaxQueued
<1> DEFINE pend == PrunedPending(pending, latestGeneration)
           q == PrunedQueue(queue, latestGeneration)
           leases == Refreshed(latestGeneration, pend, inFlight, Now)
<1>1. /\ pend \in PendingMap
      /\ q \in Seq(QueuedWork)
      /\ Len(q) <= MaxQueued
      /\ MaxQueued \in Nat
  <2>1. pending \in PendingMap /\ queue \in Seq(QueuedWork)
    BY TypeParts
  <2>2. pend \in PendingMap
    BY <2>1, PendingEditsType
  <2>3. q \in Seq(QueuedWork) /\ Len(q) <= Len(queue)
    BY <2>1, QueueEditsType
  <2>4. Len(q) \in Nat /\ Len(queue) \in Nat
    BY <2>1, <2>3
  <2> HIDE DEF q, pend
  <2> QED
    BY <2>2, <2>3, <2>4, BoundsAssumption DEF QueueWithinBudget
<1>2. LatestIn(latestGeneration, pend, q)
  BY TypeParts, PrunedLatest
<1>3. \/ \E k \in AdmissionEvictionPlans(pend, q, r) :
            PushAfterEviction(pend, q, leases, r, k)
      \/ pending' = pend /\ queue' = q
  BY DEF Admit
<1> HIDE DEF pend, q, leases
<1>4. CASE pending' = pend /\ queue' = q
  BY <1>1, <1>2, <1>4
<1>5. ASSUME NEW k \in AdmissionEvictionPlans(pend, q, r),
             PushAfterEviction(pend, q, leases, r, k)
      PROVE  LatestIn(latestGeneration, pending', queue') /\ Len(queue') <= MaxQueued
  <2>1. /\ LatestIn(latestGeneration, pending', queue')
        /\ Len(queue') = Len(EvictedQueue(q, k)) + 1
    BY <1>1, <1>2, <1>5, PushFacts
  <2>2. FitsQueue(Len(q) - IF k # None /\ \E i \in DOMAIN q : q[i].request.key = k
                           THEN 1 ELSE 0)
    BY <1>5 DEF AdmissionEvictionPlans
  <2>3. /\ Len(EvictedQueue(q, k)) \in Nat
        /\ Len(EvictedQueue(q, k)) <= Len(q)
        /\ Len(q) \in Nat
    BY <1>1, QueueEditsType
  <2>4. CASE k # None /\ \E i \in DOMAIN q : q[i].request.key = k
    <3>1. Len(EvictedQueue(q, k)) < Len(q)
      BY <1>1, <2>4, WithoutKeyRetains DEF EvictedQueue
    <3> QED
      BY <1>1, <2>1, <2>3, <3>1
  <2>5. CASE ~(k # None /\ \E i \in DOMAIN q : q[i].request.key = k)
    <3>1. Len(q) < MaxQueued
      BY <2>2, <2>3, <2>5 DEF FitsQueue
    <3> QED
      BY <1>1, <2>1, <2>3, <3>1
  <2> QED
    BY <2>4, <2>5
<1> QED
  BY <1>3, <1>4, <1>5

LEMMA BindExistingFacts ==
    ASSUME TypeOK, NEW r0 \in Request, BindExisting(r0),
           latestGeneration \in Nat,
           LatestIn(latestGeneration, pending, queue), QueueWithinBudget
    PROVE  LatestIn(latestGeneration, pending', queue') /\ Len(queue') <= MaxQueued
<1> DEFINE previous == pending[r0.key]
           r == Promoted(previous, r0)
           queued == Positions(queue, LAMBDA w :
                        /\ w.request.key = r.key
                        /\ w.request.resourceScope = r.resourceScope)
           first == FirstPosition(queued)
           rebound == QueuedFor([r EXCEPT !.workerAffinity =
                                    queue[first].request.workerAffinity])
           bound == PendingFor(r, RequestedAt(previous, r))
<1>1. /\ pending \in PendingMap
      /\ queue \in Seq(QueuedWork)
      /\ Len(queue) <= MaxQueued
  BY TypeParts DEF QueueWithinBudget
<1>2. r.generation >= latestGeneration
  <2>1. r0.generation >= latestGeneration
    BY DEF BindExisting, Admissible
  <2> QED
    BY <2>1, PromotedGeneration
<1>3. /\ bound.binding.generation >= latestGeneration
      /\ rebound.request.generation >= latestGeneration
  <2>1. rebound.request.generation = r.generation
    <3>1. r \in Request
      <4>1. r0.key \in Keys /\ previous # None
        BY DEF Request, BindExisting
      <4>2. previous \in PendingBinding
        BY <1>1, <4>1 DEF PendingMap, Option
      <4> QED
        BY <4>2, PromotedType
    <3> HIDE DEF r, first, queued
    <3> QED
      BY <3>1 DEF QueuedFor, Request
  <2>2. bound.binding.generation = r.generation
    BY DEF PendingFor, BindingFor
  <2> QED
    BY <1>2, <2>1, <2>2
<1>4. /\ pending' = [pending EXCEPT ![r.key] = bound]
      /\ \/ queue' = queue
         \/ queue' = [queue EXCEPT ![first] = rebound]
  BY DEF BindExisting
<1> HIDE DEF previous, r, queued, first, rebound, bound
<1>5. \A x \in Keys : pending'[x] # None =>
            pending'[x].binding.generation >= latestGeneration
  BY <1>1, <1>3, <1>4, BoundLatest
<1>6. CASE queue' = queue
  BY <1>1, <1>5, <1>6 DEF LatestIn
<1>7. CASE queue' = [queue EXCEPT ![first] = rebound]
  <2>1. \A n \in DOMAIN queue' : queue'[n].request.generation >= latestGeneration
    BY <1>1, <1>3, <1>7, ReplacedLatest
  <2>2. Len(queue') = Len(queue)
    BY <1>1, <1>7
  <2> QED
    BY <1>1, <1>5, <2>1, <2>2 DEF LatestIn
<1> QED
  BY <1>4, <1>6, <1>7

\* An admission respects the queue budget and the latest generation.
LEMMA AdmissionFacts ==
    ASSUME TypeOK, Admission, LatestIn(latestGeneration, pending, queue),
           QueueWithinBudget
    PROVE  /\ LatestIn(latestGeneration', pending', queue')
           /\ Len(queue') <= MaxQueued
           /\ closedAt = None /\ closedAt' = None
<1>1. PICK r \in Requests : Submit(r) \/ BindExisting(r)
  BY DEF Admission
<1>2. r \in Request /\ latestGeneration \in Nat
  BY InputAssumption, BoundsAssumption DEF TypeOK, Generations
<1>3. CASE Submit(r)
  <2>1. /\ r.generation >= latestGeneration
        /\ latestGeneration' = latestGeneration
        /\ closedAt = None /\ closedAt' = None
        /\ IF pending[r.key] # None THEN Resubmit(r) ELSE Admit(r)
    BY <1>3 DEF Submit, Admissible
  <2> QED
    BY <1>2, <2>1, ResubmitFacts, AdmitFacts
<1>4. CASE BindExisting(r)
  <2>1. /\ latestGeneration' = latestGeneration
        /\ closedAt = None /\ closedAt' = None
    BY <1>4 DEF BindExisting, Admissible
  <2> QED
    BY <1>2, <1>4, <2>1, BindExistingFacts
<1> QED
  BY <1>1, <1>3, <1>4

-----------------------------------------------------------------------------
(* The inductive invariant.                                                *)

\* A closed broker is only known to stay empty together with what empties it,
\* and a completion is only authoritative among bindings that are latest.
SafetyInvariant ==
    /\ TypeOK
    /\ QueueWithinBudget
    /\ BindingsAreLatest
    /\ ClosedBrokerIsSilent

LEMMA LatestParts ==
    BindingsAreLatest <=> LatestIn(latestGeneration, pending, queue)
BY DEF BindingsAreLatest, LatestIn, PendingKeys

LEMMA LatestPartsPrimed ==
    BindingsAreLatest' <=> LatestIn(latestGeneration', pending', queue')
BY DEF BindingsAreLatest, LatestIn, PendingKeys

\* Only a completion call returns a resolution.
LEMMA ResolutionSteps ==
    ASSUME [Next]_vars
    PROVE  resolution' = None \/ CompletionStep \/ UNCHANGED vars
<1>1. CASE CoordinatorStep
  <2>1. CASE \/ BeginGeneration
             \/ BeginGenerationPreservingPlaybackLocality
             \/ BeginGenerationPreservingInFlightPlaybackLocality
             \/ \E g \in Generations : PruneBefore(g)
             \/ PruneObsolete
    BY <2>1 DEF BeginGeneration, BeginGenerationPreservingPlaybackLocality,
                BeginGenerationPreservingInFlightPlaybackLocality, PruneBefore,
                PruneObsolete, RotateTo, Unresolved
  <2>2. CASE \E r \in Requests : Submit(r) \/ BindExisting(r)
    BY <2>2 DEF Submit, BindExisting, Unresolved
  <2>3. CASE \/ \E k \in Keys : CancelKey(k)
             \/ \E k \in Keys, s \in Scopes : CancelPreemptedStill(k, s)
             \/ \E k \in Keys, g \in Generations : KeyCurrent(k, g)
    BY <2>3 DEF CancelKey, CancelPreemptedStill, KeyCurrent, RemoveKey, Unresolved
  <2>4. CASE \/ CancelAll \/ Close \/ InterruptWorkerWaits
             \/ CancelOneQueuedPrefetch
             \/ RequestOneInFlightPrefetchPreemption
    BY <2>4 DEF CancelAll, Close, InterruptWorkerWaits, CancelOneQueuedPrefetch,
                RequestOneInFlightPrefetchPreemption, Unresolved
  <2>5. CASE \/ \E d \in Demands : SynchronizePlaybackCurrentDemand(d)
             \/ ExpirePlaybackCurrent
    BY <2>5 DEF SynchronizePlaybackCurrentDemand, ExpirePlaybackCurrent, Unresolved
  <2> QED
    BY <1>1, <2>1, <2>2, <2>3, <2>4, <2>5 DEF CoordinatorStep
<1>2. CASE CompletionStep
  BY <1>2
<1>3. CASE WorkerStep
  BY <1>3 DEF WorkerStep, Dequeue, Park, TimedWakeup, SpuriousWakeup, Wake,
              ObserveLifecycle, WaitForExecutionTerminalState,
              MarkExecutionCompleted, AbandonExecution, Unresolved
<1>4. CASE ClockStep
  BY <1>4 DEF ClockStep, ClockAdvances, ClockRegresses, Unresolved
<1>5. CASE \E l \in Leases : FailExecution(l)
  BY <1>5 DEF FailExecution, Unresolved
<1> QED
  BY <1>1, <1>2, <1>3, <1>4, <1>5 DEF Next, NextWithoutFailure

\* The execution a completion call settles, and the leases it leaves.
LEMMA CompletionSettles ==
    ASSUME TypeOK, CompletionStep
    PROVE  \E e, fl : \E reusable \in BOOLEAN :
                e.key \in Keys /\ Settle(e, fl, reusable)
<1>1. ASSUME NEW l \in Leases, NEW reusable \in BOOLEAN,
             ResolveExecution(l, reusable)
      PROVE  \E e, fl : e.key \in Keys /\ Settle(e, fl, reusable)
  <2> DEFINE e == [inFlight[l] EXCEPT !.completedAt = GetOrInsert(@, Now)]
  <2>1. inFlight[l] # None /\ Settle(e, [inFlight EXCEPT ![l] = None], reusable)
    BY <1>1 DEF ResolveExecution
  <2>2. e \in InFlightWork
    BY <2>1, CompletedType
  <2>3. e.key \in Keys
    BY <2>2 DEF InFlightWork
  <2> HIDE DEF e
  <2> QED
    BY <2>1, <2>3
<1>2. ASSUME NEW r \in Requests, NEW reusable \in BOOLEAN,
             ResolveUnleased(r.key, r.generation, r.workClass, r.resourceScope,
                             r.demandIdentity, reusable)
      PROVE  \E e, fl : e.key \in Keys /\ Settle(e, fl, reusable)
  <2>1. r.key \in Keys
    BY InputAssumption DEF Request
  <2> QED
    BY <1>2, <2>1 DEF ResolveUnleased
<1> QED
  BY <1>1, <1>2 DEF CompletionStep

LEMMA QueueBudgetStep ==
    ASSUME SafetyInvariant, [Next]_vars
    PROVE  QueueWithinBudget'
<1>1. TypeOK' /\ TypeOK
  BY TypeStep DEF SafetyInvariant
<1>2. Len(queue) \in Nat /\ Len(queue') \in Nat /\ MaxQueued \in Nat
  BY <1>1, BoundsAssumption DEF TypeOK
<1>3. Len(queue) <= MaxQueued
  BY DEF SafetyInvariant, QueueWithinBudget
<1>4. Len(queue') <= Len(queue) \/ Len(queue') <= MaxQueued
  BY <1>1, StepSorts, RotationFacts, AdmissionFacts, LatestParts
     DEF SafetyInvariant, Retains, Subsequent
<1> QED
  BY <1>2, <1>3, <1>4 DEF QueueWithinBudget

LEMMA LatestStep ==
    ASSUME SafetyInvariant, [Next]_vars
    PROVE  BindingsAreLatest'
<1>1. TypeOK /\ LatestIn(latestGeneration, pending, queue)
  BY LatestParts DEF SafetyInvariant
<1>2. CASE Rotation
  BY <1>1, <1>2, RotationFacts, LatestPartsPrimed
<1>3. CASE Admission
  BY <1>1, <1>3, AdmissionFacts, LatestPartsPrimed DEF SafetyInvariant
<1>4. CASE Retains
  <2>1. CASE latestGeneration' = latestGeneration
    <3>1. \A k \in Keys : pending'[k] # None =>
                pending'[k].binding.generation >= latestGeneration'
      BY <1>1, <1>4, <2>1 DEF Retains, LatestIn
    <3>2. \A i \in DOMAIN queue' :
                queue'[i].request.generation >= latestGeneration'
      BY <1>1, <1>4, <2>1 DEF Retains, Subsequent, LatestIn
    <3> QED
      BY <3>1, <3>2, LatestPartsPrimed DEF LatestIn
  <2>2. CASE CancelAll
    BY <2>2, LatestPartsPrimed DEF CancelAll, LatestIn
  <2> QED
    BY <1>4, <2>1, <2>2 DEF Retains
<1> QED
  BY <1>1, <1>2, <1>3, <1>4, StepSorts

LEMMA ClosedStep ==
    ASSUME SafetyInvariant, [Next]_vars
    PROVE  ClosedBrokerIsSilent'
<1> SUFFICES ASSUME closedAt' # None
             PROVE  /\ \A k \in Keys : pending'[k] = None
                    /\ queue' = <<>>
                    /\ resolution' # None => resolution'.completion # "Current"
  BY DEF ClosedBrokerIsSilent, PendingKeys
<1>1. TypeOK /\ TypeOK' /\ LatestIn(latestGeneration, pending, queue)
  BY TypeStep, LatestParts DEF SafetyInvariant
<1>2. ~Admission
  BY <1>1, AdmissionFacts DEF SafetyInvariant
<1>3. closedAt = None => Close
  BY <1>1, <1>2, StepSorts, RotationFacts DEF Retains
<1>4. closedAt # None => \A k \in Keys : pending[k] = None
  BY DEF SafetyInvariant, ClosedBrokerIsSilent, PendingKeys
<1>5. \A k \in Keys : pending'[k] = None
  <2>1. CASE closedAt = None
    BY <1>3, <2>1 DEF Close
  <2>2. CASE closedAt # None
    BY <1>1, <1>2, <1>4, <2>2, StepSorts, RotationFacts DEF Retains
  <2> QED
    BY <2>1, <2>2
<1>6. queue' = <<>>
  <2>1. CASE closedAt = None
    BY <1>3, <2>1 DEF Close
  <2>2. CASE closedAt # None
    <3>1. Len(queue) = 0
      BY <2>2 DEF SafetyInvariant, ClosedBrokerIsSilent
    <3>2. Len(queue') <= 0
      BY <1>1, <1>2, <3>1, StepSorts, RotationFacts DEF Retains, Subsequent
    <3>3. queue' \in Seq(QueuedWork)
      BY <1>1 DEF TypeOK
    <3> QED
      BY <3>2, <3>3
  <2> QED
    BY <2>1, <2>2
<1>7. resolution' # None => resolution'.completion # "Current"
  <2>1. CASE CompletionStep
    <3>1. PICK e, fl : \E reusable \in BOOLEAN :
                e.key \in Keys /\ Settle(e, fl, reusable)
      BY <1>1, <2>1, CompletionSettles
    <3>2. PICK reusable \in BOOLEAN : e.key \in Keys /\ Settle(e, fl, reusable)
      BY <3>1
    <3>3. /\ closedAt' = closedAt
          /\ resolution'.completion = ResolveLocked(e, fl, reusable).completion
      BY <3>2 DEF Settle
    <3>4. pending[e.key] = None
      BY <1>4, <3>2, <3>3
    <3> QED
      BY <3>3, <3>4, ResolveLockedOutcome
  <2>2. CASE UNCHANGED vars
    BY <2>2 DEF vars, brokerVars, SafetyInvariant, ClosedBrokerIsSilent
  <2> QED
    BY <2>1, <2>2, ResolutionSteps
<1> QED
  BY <1>5, <1>6, <1>7

LEMMA SafetyInvariantHolds == Spec => []SafetyInvariant
<1>1. Init => SafetyInvariant
  <2> SUFFICES ASSUME Init PROVE SafetyInvariant
    OBVIOUS
  <2>1. TypeOK
    BY InitType
  <2>2. QueueWithinBudget
    BY BoundsAssumption DEF Init, QueueWithinBudget
  <2>3. BindingsAreLatest /\ ClosedBrokerIsSilent
    BY DEF Init, BindingsAreLatest, ClosedBrokerIsSilent, PendingKeys
  <2> QED
    BY <2>1, <2>2, <2>3 DEF SafetyInvariant
<1>2. SafetyInvariant /\ [Next]_vars => SafetyInvariant'
  <2> SUFFICES ASSUME SafetyInvariant, [Next]_vars PROVE SafetyInvariant'
    OBVIOUS
  <2>1. TypeOK'
    BY TypeStep DEF SafetyInvariant
  <2> QED
    BY <2>1, QueueBudgetStep, LatestStep, ClosedStep DEF SafetyInvariant
<1> QED
  BY <1>1, <1>2, PTL DEF Spec

-----------------------------------------------------------------------------
(* The theorems.                                                           *)

\* The transport queue stays within its budget whatever sequence of
\* submissions, evictions, rotations, failures and completions runs.
THEOREM QueueBudgetHolds == Spec => []QueueWithinBudget
<1>1. SafetyInvariant => QueueWithinBudget
  BY DEF SafetyInvariant
<1> QED
  BY <1>1, SafetyInvariantHolds, PTL

\* No binding and no payload outlives a generation rotation.
THEOREM LatestWins == Spec => []BindingsAreLatest
<1>1. SafetyInvariant => BindingsAreLatest
  BY DEF SafetyInvariant
<1> QED
  BY <1>1, SafetyInvariantHolds, PTL

\* Closing the broker is final: nothing is admitted or shown afterwards,
\* while the leases of its workers drain.
THEOREM CloseIsSilent == Spec => []ClosedBrokerIsSilent
<1>1. SafetyInvariant => ClosedBrokerIsSilent
  BY DEF SafetyInvariant
<1> QED
  BY <1>1, SafetyInvariantHolds, PTL

\* Settling an execution as Current shows the latest binding of its key and
\* consumes it together with any queued fallback.
LEMMA SettlePublishes ==
    ASSUME SafetyInvariant, NEW e, e.key \in Keys, NEW fl, NEW reusable,
           Settle(e, fl, reusable)
    PROVE  PublishesLatestBinding
<1> DEFINE o == ResolveLocked(e, fl, reusable)
           k == e.key
<1> SUFFICES ASSUME resolution' # None, resolution'.completion = "Current"
             PROVE  /\ resolution'.key = k
                    /\ pending[k] # None
                    /\ resolution'.binding = pending[k].binding
                    /\ pending[k].binding.generation >= latestGeneration
                    /\ ~PlaybackCurrentBindingIsSuperseded(
                            activePlaybackDemand, pending[k].binding)
                    /\ pending'[k] = None
                    /\ \A i \in DOMAIN queue' : queue'[i].request.key # k
  BY DEF PublishesLatestBinding
<1>1. /\ pending \in PendingMap
      /\ queue \in Seq(QueuedWork)
      /\ LatestIn(latestGeneration, pending, queue)
  BY TypeParts, LatestParts DEF SafetyInvariant
<1>2. /\ resolution' = [key |-> k, completion |-> o.completion,
                        binding |-> IF o.completion = "Current"
                                    THEN pending[k].binding ELSE None]
      /\ queue' = IF o.takesQueued THEN WithoutKey(queue, k) ELSE queue
      /\ pending' = WithoutOrphan(
            IF o.takesPending THEN [pending EXCEPT ![k] = None] ELSE pending,
            queue', fl, k)
  BY DEF Settle
<1>3. o.completion = "Current" =>
        /\ o.takesPending
        /\ o.takesQueued
        /\ pending[k] # None
        /\ ~PlaybackCurrentBindingIsSuperseded(activePlaybackDemand,
                                               pending[k].binding)
  BY ResolveLockedOutcome
<1> HIDE DEF o
<1>4. o.completion = "Current"
  BY <1>2
<1>5. pending'[k] = None
  <2> DEFINE pend == [pending EXCEPT ![k] = None]
  <2>1. pend \in PendingMap /\ pend[k] = None
    BY <1>1, PendingEditsType DEF PendingMap
  <2>2. pending' = WithoutOrphan(pend, queue', fl, k)
    BY <1>2, <1>3, <1>4
  <2> HIDE DEF pend
  <2> QED
    BY <2>1, <2>2, PendingEditsRetain
<1>6. \A i \in DOMAIN queue' : queue'[i].request.key # k
  BY <1>1, <1>2, <1>3, <1>4, WithoutKeyRetains
<1>7. pending[k].binding.generation >= latestGeneration
  BY <1>1, <1>3, <1>4 DEF LatestIn
<1> QED
  BY <1>2, <1>3, <1>4, <1>5, <1>6, <1>7

\* A completion that may be shown answers the exact latest binding of its key,
\* and answers it once.
THEOREM PublicationAuthority == Spec => PublicationIsAuthoritative
<1>1. SafetyInvariant /\ [Next]_vars => [PublishesLatestBinding]_vars
  <2> SUFFICES ASSUME SafetyInvariant, [Next]_vars
               PROVE  PublishesLatestBinding \/ UNCHANGED vars
    OBVIOUS
  <2>1. CASE CompletionStep
    BY <2>1, CompletionSettles, SettlePublishes DEF SafetyInvariant
  <2>2. CASE resolution' = None
    BY <2>2 DEF PublishesLatestBinding
  <2> QED
    BY <2>1, <2>2, ResolutionSteps
<1> QED
  BY <1>1, SafetyInvariantHolds, PTL DEF Spec, PublicationIsAuthoritative

\* Refreshing never frees a lease slot: only resolve, abandon and failure do.
LEMMA RefreshedKeepsLeases ==
    ASSUME NEW latest, NEW pend \in PendingMap, NEW fl \in LeaseMap,
           NEW now \in Nat, NEW l \in Leases, fl[l] # None
    PROVE  Refreshed(latest, pend, fl, now)[l] # None
<1>1. fl[l] \in InFlightWork
  BY DEF LeaseMap, Option
<1>2. RefreshedPreemption(latest, pend, RefreshedBinding(latest, pend, fl[l], now))
        \in InFlightWork
  BY <1>1, RefreshedBindingType, RefreshedPreemptionType
<1>3. None \notin InFlightWork
  BY NoneAssumption
<1> QED
  BY <1>2, <1>3 DEF Refreshed

\* A lease that is resolved as Current is in authority when it is resolved.
LEMMA ResolveShowsInAuthority ==
    ASSUME TypeOK, NEW l \in Leases, NEW reusable \in BOOLEAN,
           ResolveExecution(l, reusable)
    PROVE  ShowsInAuthority
<1> DEFINE e == [inFlight[l] EXCEPT !.completedAt = GetOrInsert(@, Now)]
           fl == [inFlight EXCEPT ![l] = None]
           stop == inFlight[l].executionCancellationDeadlineAt
           done == GetOrInsert(inFlight[l].completedAt, Now)
<1>1. inFlight[l] # None /\ Settle(e, fl, reusable)
  BY DEF ResolveExecution
<1>2. inFlight \in LeaseMap /\ pending' \in PendingMap
  <2>1. inFlight \in LeaseMap
    BY TypeParts
  <2>2. e \in InFlightWork
    BY <1>1, CompletedType
  <2>3. e.key \in Keys
    BY <2>2 DEF InFlightWork
  <2>4. fl \in LeaseMap
    BY <2>1, FreedType
  <2>5. TypeOK'
    <3> HIDE DEF e, fl
    <3> QED
      BY <1>1, <2>3, <2>4, SettleType
  <2>6. pending' \in PendingMap
    BY <2>5 DEF TypeOK, PendingMap
  <2> QED
    BY <2>1, <2>6
<1>3. inFlight[l] \in InFlightWork
  BY <1>1, <1>2 DEF LeaseMap, Option
<1>4. ASSUME NEW x \in Leases, x # l, inFlight[x] # None
      PROVE  inFlight'[x] # None
  <2>1. fl \in LeaseMap /\ fl[x] # None
    BY <1>2, <1>4, FreedType DEF LeaseMap
  <2>2. inFlight' = Refreshed(latestGeneration', pending', fl, Now)
    BY <1>1 DEF Settle, RefreshFrom
  <2> HIDE DEF fl
  <2> QED
    BY <1>2, <2>1, <2>2, NowType, RefreshedKeepsLeases
<1>5. ASSUME resolution'.completion = "Current"
      PROVE  /\ inFlight[l].preemptedAt = None
             /\ ~inFlight[l].presentationBindingExpired
             /\ stop = None \/ done < stop
  <2>1. ResolveLocked(e, fl, reusable).completion = "Current"
    BY <1>1, <1>5 DEF Settle
  <2>2. /\ ~e.presentationBindingExpired
        /\ e.preemptedAt = None
        /\ ~BudgetExpiredBeforeCompletion(e)
    BY <2>1, ResolveLockedOutcome
  <2>3. /\ e.presentationBindingExpired = inFlight[l].presentationBindingExpired
        /\ e.preemptedAt = inFlight[l].preemptedAt
        /\ e.executionCancellationDeadlineAt = stop
        /\ e.completedAt = done
    BY <1>3 DEF InFlightWork
  <2>4. done \in Nat /\ stop \in Option(Nat)
    BY <1>3, NowType DEF InFlightWork, GetOrInsert, Option
  <2>5. stop = None \/ ~(stop <= done)
    <3>1. done # None
      BY <2>4, NoneAssumption
    <3> QED
      BY <2>2, <2>3, <3>1 DEF BudgetExpiredBeforeCompletion
  <2>6. stop = None \/ done < stop
    BY <2>4, <2>5 DEF Option
  <2> QED
    BY <2>2, <2>3, <2>6
<1> QED
  BY <1>4, <1>5 DEF ShowsInAuthority

\* Completions without a lease free none.
LEMMA UnleasedShowsInAuthority ==
    ASSUME TypeOK, NEW r \in Requests, NEW reusable \in BOOLEAN,
           ResolveUnleased(r.key, r.generation, r.workClass, r.resourceScope,
                           r.demandIdentity, reusable)
    PROVE  ShowsInAuthority
<1>1. inFlight' = Refreshed(latestGeneration', pending', inFlight, Now)
  BY DEF ResolveUnleased, Settle, RefreshFrom
<1>2. inFlight \in LeaseMap /\ pending' \in PendingMap
  <2>1. TypeOK'
    BY ResolveUnleasedType
  <2> QED
    BY <2>1, TypeParts DEF TypeOK, PendingMap
<1>3. \A x \in Leases : inFlight[x] # None => inFlight'[x] # None
  BY <1>1, <1>2, NowType, RefreshedKeepsLeases
<1> QED
  BY <1>3 DEF ShowsInAuthority

\* Whatever is shown of a lease is shown while the lease stands unpreempted and
\* in authority, and of a worker that returned within its latest budget.
THEOREM ShownWorkHasAuthority == Spec => OnlyAuthorityIsShown
<1>1. TypeOK /\ [Next]_vars => [ShowsInAuthority]_vars
  <2> SUFFICES ASSUME TypeOK, [Next]_vars
               PROVE  ShowsInAuthority \/ UNCHANGED vars
    OBVIOUS
  <2>1. CASE CompletionStep
    BY <2>1, ResolveShowsInAuthority, UnleasedShowsInAuthority
       DEF CompletionStep
  <2>2. CASE resolution' = None
    BY <2>2 DEF ShowsInAuthority
  <2> QED
    BY <2>1, <2>2, ResolutionSteps
<1> QED
  BY <1>1, TypeCorrect, PTL DEF Spec, OnlyAuthorityIsShown

=============================================================================
