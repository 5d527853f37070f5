-------------------- MODULE FrameWorkBrokerAdmissionProofs --------------------
(***************************************************************************)
(* What admission, waiting and running of frame work keep, for every value *)
(* of the constants: the evidence a live lease carries, the wakeups of     *)
(* parked workers, the agreement of the pending map with the queue and     *)
(* with the leases, the pending budget and the order of evictions.         *)
(***************************************************************************)
EXTENDS FrameWorkBrokerProofs

-----------------------------------------------------------------------------
(* Lease evidence.                                                         *)

\* What a lease says of its own past stays said.
Sticks(old, new) ==
    /\ new.key = old.key
    /\ new.generation = old.generation
    /\ new.startedAt = old.startedAt
    /\ old.completedAt # None => new.completedAt = old.completedAt
    /\ old.preemptedAt # None =>
        /\ new.preemptedAt # None
        /\ new.preemptedAt <= old.preemptedAt

\* The leases of `new` are leases of `old`, in the same slots.
Survives(old, new) ==
    \A l \in Leases : new[l] # None => old[l] # None /\ Sticks(old[l], new[l])

\* No slot of `old` was freed.
Lives(old, new) == \A l \in Leases : old[l] # None => new[l] # None

LEMMA SticksOrder ==
    ASSUME NEW a \in InFlightWork, NEW b \in InFlightWork, NEW c \in InFlightWork
    PROVE  /\ Sticks(a, a)
           /\ Sticks(a, b) /\ Sticks(b, c) => Sticks(a, c)
<1>1. /\ a.preemptedAt # None => a.preemptedAt \in Nat
      /\ b.preemptedAt # None => b.preemptedAt \in Nat
      /\ c.preemptedAt # None => c.preemptedAt \in Nat
  BY DEF InFlightWork, Option
<1> QED
  BY <1>1 DEF Sticks

LEMMA SurvivesOrder ==
    ASSUME NEW fl \in LeaseMap, NEW gl \in LeaseMap, NEW hl \in LeaseMap
    PROVE  /\ Survives(fl, fl) /\ Lives(fl, fl)
           /\ Survives(fl, gl) /\ Survives(gl, hl) => Survives(fl, hl)
           /\ Lives(fl, gl) /\ Lives(gl, hl) => Lives(fl, hl)
<1>1. \A l \in Leases : /\ fl[l] # None => fl[l] \in InFlightWork
                        /\ gl[l] # None => gl[l] \in InFlightWork
                        /\ hl[l] # None => hl[l] \in InFlightWork
  BY DEF LeaseMap, Option
<1> QED
  BY <1>1, SticksOrder DEF Survives, Lives

\* An edit of a lease that leaves its identity and its stamps alone.
Untouched(e, f) ==
    /\ f.key = e.key
    /\ f.generation = e.generation
    /\ f.startedAt = e.startedAt
    /\ f.completedAt = e.completedAt
    /\ f.preemptedAt = e.preemptedAt

LEMMA UntouchedSticks ==
    ASSUME NEW e \in InFlightWork, NEW f, Untouched(e, f)
    PROVE  Sticks(e, f)
<1>1. e.preemptedAt # None => e.preemptedAt \in Nat
  BY DEF InFlightWork, Option
<1> QED
  BY <1>1 DEF Untouched, Sticks

\* Rebinding, invalidating or detaching a lease touches none of its evidence.
LEMMA RefreshedBindingSticks ==
    ASSUME NEW latest, NEW pend, NEW e \in InFlightWork, NEW now
    PROVE  Untouched(e, RefreshedBinding(latest, pend, e, now))
BY DEF RefreshedBinding, Untouched, InFlightWork

\* A preemption only moves the stamp to an earlier instant.
LEMMA RefreshedPreemptionSticks ==
    ASSUME NEW latest, NEW pend \in PendingMap, NEW e \in InFlightWork
    PROVE  Sticks(e, RefreshedPreemption(latest, pend, e))
<1> DEFINE rival == IF e.priority = "Prefetch"
                    THEN OldestOtherCurrentRequest(latest, pend, e, FALSE,
                                                   e.workClass = "Playback")
                    ELSE IF e.workClass = "Still"
                    THEN OldestOtherCurrentRequest(latest, pend, e, TRUE, FALSE)
                    ELSE None
           stop == IF rival < e.startedAt THEN e.startedAt ELSE rival
           stamp == IF e.preemptedAt # None /\ e.preemptedAt <= stop
                    THEN e.preemptedAt ELSE stop
<1>1. RefreshedPreemption(latest, pend, e) =
        IF rival = None THEN e ELSE [e EXCEPT !.preemptedAt = stamp]
  BY DEF RefreshedPreemption
<1>2. rival # None => rival \in Nat
  <2>1. (e.workClass = "Playback") \in BOOLEAN
    OBVIOUS
  <2>2. /\ OldestOtherCurrentRequest(latest, pend, e, FALSE,
                                     e.workClass = "Playback") \in Option(Nat)
        /\ OldestOtherCurrentRequest(latest, pend, e, TRUE, FALSE) \in Option(Nat)
    BY <2>1, OldestOtherType
  <2> QED
    BY <2>2 DEF Option
<1>3. e.preemptedAt # None => e.preemptedAt \in Nat
  BY DEF InFlightWork, Option
<1> HIDE DEF rival
<1>4. rival # None => stop \in Nat
  BY <1>2 DEF InFlightWork
<1> HIDE DEF stop
<1>5. rival # None => /\ stamp # None
                      /\ e.preemptedAt # None => stamp <= e.preemptedAt
  BY <1>3, <1>4, NoneAssumption
<1> HIDE DEF stamp
<1>6. CASE rival = None
  BY <1>1, <1>6, SticksOrder
<1>7. CASE rival # None
  BY <1>1, <1>5, <1>7 DEF Sticks, InFlightWork
<1> QED
  BY <1>6, <1>7

LEMMA RefreshedSurvives ==
    ASSUME NEW latest, NEW pend \in PendingMap, NEW fl \in LeaseMap,
           NEW now \in Nat
    PROVE  /\ Survives(fl, Refreshed(latest, pend, fl, now))
           /\ Lives(fl, Refreshed(latest, pend, fl, now))
<1>1. ASSUME NEW l \in Leases, fl[l] # None
      PROVE  Sticks(fl[l], RefreshedPreemption(latest, pend,
                        RefreshedBinding(latest, pend, fl[l], now)))
  <2>1. fl[l] \in InFlightWork
    BY <1>1 DEF LeaseMap, Option
  <2>2. RefreshedBinding(latest, pend, fl[l], now) \in InFlightWork
    BY <2>1, RefreshedBindingType
  <2>3. RefreshedPreemption(latest, pend, RefreshedBinding(latest, pend, fl[l], now))
            \in InFlightWork
    BY <2>2, RefreshedPreemptionType
  <2>4. Sticks(fl[l], RefreshedBinding(latest, pend, fl[l], now))
    BY <2>1, RefreshedBindingSticks, UntouchedSticks
  <2>5. Sticks(RefreshedBinding(latest, pend, fl[l], now),
               RefreshedPreemption(latest, pend,
                    RefreshedBinding(latest, pend, fl[l], now)))
    BY <2>2, RefreshedPreemptionSticks
  <2> QED
    BY <2>1, <2>2, <2>3, <2>4, <2>5, SticksOrder
<1>2. Survives(fl, Refreshed(latest, pend, fl, now))
  BY <1>1 DEF Survives, Refreshed
<1>3. Lives(fl, Refreshed(latest, pend, fl, now))
  BY RefreshedKeepsLeases DEF Lives
<1> QED
  BY <1>2, <1>3

\* The other edits of the lease map, slot by slot.
LEMMA UntouchedMap ==
    ASSUME NEW fl \in LeaseMap, NEW gl \in LeaseMap,
           \A l \in Leases : \/ gl[l] = fl[l]
                             \/ /\ fl[l] # None
                                /\ gl[l] # None
                                /\ Untouched(fl[l], gl[l])
    PROVE  Survives(fl, gl) /\ Lives(fl, gl)
<1>1. \A l \in Leases : fl[l] # None => fl[l] \in InFlightWork
  BY DEF LeaseMap, Option
<1> QED
  BY <1>1, UntouchedSticks, SticksOrder DEF Survives, Lives

LEMMA ExpiryEdits ==
    ASSUME NEW e \in InFlightWork, NEW b, NEW t
    PROVE  /\ Untouched(e, [e EXCEPT !.presentationBindingExpired = b])
           /\ Untouched(e, [e EXCEPT !.presentationBindingExpired = b,
                                     !.invalidatedAt = t])
BY DEF Untouched, InFlightWork

LEMMA LeaseEditsSurvive ==
    ASSUME NEW fl \in LeaseMap, NEW now \in Nat, NEW k, NEW active, NEW b
    PROVE  /\ Survives(fl, InvalidatedKey(fl, k, now))
           /\ Lives(fl, InvalidatedKey(fl, k, now))
           /\ Survives(fl, ClearedExpiry(fl)) /\ Lives(fl, ClearedExpiry(fl))
           /\ Survives(fl, DetachedLocality(fl)) /\ Lives(fl, DetachedLocality(fl))
           /\ Survives(fl, RestoredDemandBinding(active, fl, k, b))
           /\ Lives(fl, RestoredDemandBinding(active, fl, k, b))
<1>1. \A l \in Leases : fl[l] # None => fl[l] \in InFlightWork
  BY DEF LeaseMap, Option
<1>2. /\ InvalidatedKey(fl, k, now) \in LeaseMap
      /\ ClearedExpiry(fl) \in LeaseMap
      /\ DetachedLocality(fl) \in LeaseMap
      /\ RestoredDemandBinding(active, fl, k, b) \in LeaseMap
  BY LeaseEditsType, RestoredDemandBindingType
<1>3. \A t : \A l \in Leases : fl[l] # None =>
        /\ [fl[l] EXCEPT !.presentationBindingExpired = FALSE] # None
        /\ [fl[l] EXCEPT !.presentationBindingExpired = TRUE] # None
        /\ t \in Option(Nat) =>
            [fl[l] EXCEPT !.presentationBindingExpired = FALSE,
                          !.invalidatedAt = t] # None
  <2> SUFFICES ASSUME NEW l \in Leases, NEW t, fl[l] # None
               PROVE  /\ [fl[l] EXCEPT !.presentationBindingExpired = FALSE]
                            \in InFlightWork
                      /\ [fl[l] EXCEPT !.presentationBindingExpired = TRUE]
                            \in InFlightWork
                      /\ t \in Option(Nat) =>
                          [fl[l] EXCEPT !.presentationBindingExpired = FALSE,
                                        !.invalidatedAt = t] \in InFlightWork
    BY NoneAssumption
  <2> QED
    BY <1>1 DEF InFlightWork
<1>4. \A l \in Leases : fl[l] # None =>
        GetOrInsert(fl[l].invalidatedAt, now) \in Option(Nat)
  BY <1>1 DEF InFlightWork, GetOrInsert, Option
<1>5. Survives(fl, InvalidatedKey(fl, k, now)) /\ Lives(fl, InvalidatedKey(fl, k, now))
  <2>1. \A l \in Leases :
            \/ InvalidatedKey(fl, k, now)[l] = fl[l]
            \/ /\ fl[l] # None
               /\ InvalidatedKey(fl, k, now)[l] # None
               /\ Untouched(fl[l], InvalidatedKey(fl, k, now)[l])
    BY <1>1, <1>3, <1>4, ExpiryEdits DEF InvalidatedKey
  <2> QED
    BY <1>2, <2>1, UntouchedMap
<1>6. Survives(fl, ClearedExpiry(fl)) /\ Lives(fl, ClearedExpiry(fl))
  <2>1. \A l \in Leases :
            \/ ClearedExpiry(fl)[l] = fl[l]
            \/ /\ fl[l] # None
               /\ ClearedExpiry(fl)[l] # None
               /\ Untouched(fl[l], ClearedExpiry(fl)[l])
    BY <1>1, <1>3, ExpiryEdits DEF ClearedExpiry
  <2> QED
    BY <1>2, <2>1, UntouchedMap
<1>7. Survives(fl, DetachedLocality(fl)) /\ Lives(fl, DetachedLocality(fl))
  <2>1. \A l \in Leases :
            \/ DetachedLocality(fl)[l] = fl[l]
            \/ /\ fl[l] # None
               /\ DetachedLocality(fl)[l] # None
               /\ Untouched(fl[l], DetachedLocality(fl)[l])
    BY <1>1, <1>3, ExpiryEdits DEF DetachedLocality
  <2> QED
    BY <1>2, <2>1, UntouchedMap
<1>8. /\ Survives(fl, RestoredDemandBinding(active, fl, k, b))
      /\ Lives(fl, RestoredDemandBinding(active, fl, k, b))
  <2>1. \A l \in Leases :
            \/ RestoredDemandBinding(active, fl, k, b)[l] = fl[l]
            \/ /\ fl[l] # None
               /\ RestoredDemandBinding(active, fl, k, b)[l] # None
               /\ Untouched(fl[l], RestoredDemandBinding(active, fl, k, b)[l])
    BY <1>1, <1>3, ExpiryEdits DEF RestoredDemandBinding
  <2> QED
    BY <1>2, <2>1, UntouchedMap
<1> QED
  BY <1>5, <1>6, <1>7, <1>8

-----------------------------------------------------------------------------
(* Which steps free a lease and which take one.                            *)

Continues == Survives(inFlight, inFlight') /\ Lives(inFlight, inFlight')

LEMMA RefreshContinues ==
    ASSUME TypeOK, TypeOK', NEW fl \in LeaseMap, Survives(inFlight, fl),
           RefreshFrom(fl)
    PROVE  /\ Survives(inFlight, inFlight')
           /\ Lives(inFlight, fl) => Continues
<1>1. inFlight \in LeaseMap
  BY TypeParts
<1>2. pending' \in PendingMap /\ inFlight' \in LeaseMap
  BY DEF TypeOK, PendingMap, LeaseMap
<1>3. inFlight' = Refreshed(latestGeneration', pending', fl, Now)
  BY DEF RefreshFrom
<1>4. Survives(fl, inFlight') /\ Lives(fl, inFlight')
  BY <1>2, <1>3, NowType, RefreshedSurvives
<1> QED
  BY <1>1, <1>2, <1>4, SurvivesOrder DEF Continues

LEMMA UnchangedContinues ==
    ASSUME TypeOK, inFlight' = inFlight
    PROVE  Continues
<1>1. inFlight \in LeaseMap
  BY TypeParts
<1> QED
  BY <1>1, SurvivesOrder DEF Continues

LEMMA RotationContinues ==
    ASSUME TypeOK, TypeOK', Rotation
    PROVE  Continues
<1>1. inFlight \in LeaseMap
  BY TypeParts
<1>2. PICK fl \in {inFlight, ClearedExpiry(inFlight), DetachedLocality(inFlight)} :
        RefreshFrom(fl)
  BY DEF Rotation, BeginGeneration, BeginGenerationPreservingPlaybackLocality,
         BeginGenerationPreservingInFlightPlaybackLocality, PruneBefore,
         PruneObsolete, RotateTo
<1>3. fl \in LeaseMap /\ Survives(inFlight, fl) /\ Lives(inFlight, fl)
  BY <1>1, <1>2, NowType, LeaseEditsType, LeaseEditsSurvive, SurvivesOrder
<1> QED
  BY <1>2, <1>3, RefreshContinues

LEMMA PushContinues ==
    ASSUME TypeOK, TypeOK', NEW pend, NEW q, NEW fl \in LeaseMap, NEW r, NEW k,
           Survives(inFlight, fl), Lives(inFlight, fl),
           PushAfterEviction(pend, q, fl, r, k)
    PROVE  Continues
<1>1. inFlight \in LeaseMap
  BY TypeParts
<1>2. /\ EvictedLeases(fl, k) \in LeaseMap
      /\ Survives(fl, EvictedLeases(fl, k))
      /\ Lives(fl, EvictedLeases(fl, k))
  BY NowType, LeaseEditsType, LeaseEditsSurvive, SurvivesOrder DEF EvictedLeases
<1>3. /\ Survives(inFlight, EvictedLeases(fl, k))
      /\ Lives(inFlight, EvictedLeases(fl, k))
  BY <1>1, <1>2, SurvivesOrder
<1> QED
  BY <1>2, <1>3, RefreshContinues DEF PushAfterEviction

LEMMA AdmissionContinues ==
    ASSUME TypeOK, TypeOK', Admission
    PROVE  Continues
<1>1. inFlight \in LeaseMap /\ pending \in PendingMap
  BY TypeParts
<1>2. PICK r0 \in Requests : Submit(r0) \/ BindExisting(r0)
  BY DEF Admission
<1>3. CASE BindExisting(r0)
  <2>1. RefreshFrom(inFlight)
    BY <1>3 DEF BindExisting
  <2> QED
    BY <1>1, <2>1, SurvivesOrder, RefreshContinues
<1>4. CASE Submit(r0) /\ pending[r0.key] # None
  <2>1. PICK r, b :
            LET leases == RestoredDemandBinding(activePlaybackDemand, inFlight,
                                                r.key, b)
            IN  \/ RefreshFrom(leases)
                \/ \E k : PushAfterEviction(pending, queue, leases, r, k)
                \/ inFlight' = leases
    <3>1. Resubmit(r0)
      BY <1>4 DEF Submit
    <3>2. LET r == Promoted(pending[r0.key], r0)
              leases == RestoredDemandBinding(activePlaybackDemand, inFlight,
                                              r.key, BindingFor(r))
          IN  \/ RefreshFrom(leases)
              \/ \E k : PushAfterEviction(pending, queue, leases, r, k)
              \/ inFlight' = leases
      BY <3>1 DEF Resubmit
    <3> QED
      BY <3>2
  <2> DEFINE leases == RestoredDemandBinding(activePlaybackDemand, inFlight, r.key, b)
  <2>2. /\ leases \in LeaseMap
        /\ Survives(inFlight, leases)
        /\ Lives(inFlight, leases)
    BY <1>1, NowType, RestoredDemandBindingType, LeaseEditsSurvive
  <2>3. \/ RefreshFrom(leases)
        \/ \E k : PushAfterEviction(pending, queue, leases, r, k)
        \/ inFlight' = leases
    BY <2>1
  <2> HIDE DEF leases
  <2> QED
    BY <2>2, <2>3, RefreshContinues, PushContinues DEF Continues
<1>5. CASE Submit(r0) /\ pending[r0.key] = None
  <2> DEFINE pend == PrunedPending(pending, latestGeneration)
             q == PrunedQueue(queue, latestGeneration)
             leases == Refreshed(latestGeneration, pend, inFlight, Now)
  <2>1. \/ \E k : PushAfterEviction(pend, q, leases, r0, k)
        \/ inFlight' = leases
    BY <1>5 DEF Submit, Admit
  <2>2. pend \in PendingMap
    BY <1>1, PendingEditsType
  <2>3. /\ leases \in LeaseMap
        /\ Survives(inFlight, leases)
        /\ Lives(inFlight, leases)
    BY <1>1, <2>2, NowType, RefreshedType, RefreshedSurvives
  <2> HIDE DEF leases, pend, q
  <2> QED
    BY <2>1, <2>3, PushContinues DEF Continues
<1> QED
  BY <1>2, <1>3, <1>4, <1>5

\* Detaching leases, whichever they are, alters no evidence.
LEMMA DetachSurvives ==
    ASSUME NEW fl \in LeaseMap, NEW D
    PROVE  LET gl == [l \in Leases |->
                        IF fl[l] # None /\ l \in D
                        THEN [fl[l] EXCEPT !.presentationBindingExpired = TRUE]
                        ELSE fl[l]]
           IN  gl \in LeaseMap /\ Survives(fl, gl) /\ Lives(fl, gl)
<1> DEFINE gl == [l \in Leases |->
                    IF fl[l] # None /\ l \in D
                    THEN [fl[l] EXCEPT !.presentationBindingExpired = TRUE]
                    ELSE fl[l]]
<1>1. gl \in LeaseMap
  BY DetachType
<1>2. \A l \in Leases : fl[l] # None =>
        /\ Untouched(fl[l], [fl[l] EXCEPT !.presentationBindingExpired = TRUE])
        /\ [fl[l] EXCEPT !.presentationBindingExpired = TRUE] # None
  <2> SUFFICES ASSUME NEW l \in Leases, fl[l] # None
               PROVE  /\ Untouched(fl[l],
                            [fl[l] EXCEPT !.presentationBindingExpired = TRUE])
                      /\ [fl[l] EXCEPT !.presentationBindingExpired = TRUE]
                            \in InFlightWork
    BY NoneAssumption
  <2>1. fl[l] \in InFlightWork
    BY DEF LeaseMap, Option
  <2> QED
    BY <2>1, ExpiryEdits DEF InFlightWork
<1>3. \A l \in Leases : \/ gl[l] = fl[l]
                        \/ /\ fl[l] # None
                           /\ gl[l] # None
                           /\ Untouched(fl[l], gl[l])
  BY <1>2
<1> HIDE DEF gl
<1>4. Survives(fl, gl) /\ Lives(fl, gl)
  BY <1>1, <1>3, UntouchedMap
<1> QED
  BY <1>1, <1>4 DEF gl

LEMMA DemandContinues ==
    ASSUME TypeOK, TypeOK', NEW d,
           SynchronizePlaybackCurrentDemand(d) \/ ExpirePlaybackCurrent
    PROVE  Continues
<1>1. PICK D : RefreshFrom([l \in Leases |->
                    IF inFlight[l] # None /\ l \in D
                    THEN [inFlight[l] EXCEPT !.presentationBindingExpired = TRUE]
                    ELSE inFlight[l]])
  <2>1. ASSUME SynchronizePlaybackCurrentDemand(d)
        PROVE  \E D : RefreshFrom([l \in Leases |->
                    IF inFlight[l] # None /\ l \in D
                    THEN [inFlight[l] EXCEPT !.presentationBindingExpired = TRUE]
                    ELSE inFlight[l]])
    <3> DEFINE rebound(e) ==
                /\ pending[e.key] # None
                /\ pending[e.key].binding.generation >= latestGeneration
                /\ pending[e.key].binding.workClass = e.workClass
                /\ pending[e.key].binding.resourceScope = e.resourceScope
                /\ pending[e.key].binding.demandIdentity = d
               D == {l \in Leases :
                /\ inFlight[l].priority = "Current"
                /\ inFlight[l].demandIdentity \notin {None, d}
                /\ ~rebound(inFlight[l])
                /\ RetainsPlaybackLocality(inFlight[l])
                /\ Undisturbed(inFlight[l])}
    <3>1. RefreshFrom([l \in Leases |->
                    IF inFlight[l] # None /\ l \in D
                    THEN [inFlight[l] EXCEPT !.presentationBindingExpired = TRUE]
                    ELSE inFlight[l]])
      BY <2>1 DEF SynchronizePlaybackCurrentDemand
    <3> QED
      BY <3>1
  <2>2. ASSUME ExpirePlaybackCurrent
        PROVE  \E D : RefreshFrom([l \in Leases |->
                    IF inFlight[l] # None /\ l \in D
                    THEN [inFlight[l] EXCEPT !.presentationBindingExpired = TRUE]
                    ELSE inFlight[l]])
    <3> DEFINE expires(p) ==
                /\ p.binding.priority = "Current"
                /\ p.binding.workClass = "Playback"
                /\ p.binding.generation >= latestGeneration
                /\ IF p.deadlineAt = None THEN Now - p.requestedAt >= MaxAge
                   ELSE p.deadlineAt <= Now
               expired == {k \in PendingKeys(pending) : expires(pending[k])}
               detaches(e) ==
                /\ e.key \in expired
                /\ e.generation = pending[e.key].binding.generation
                /\ e.generation >= latestGeneration
                /\ e.workClass = pending[e.key].binding.workClass
                /\ e.resourceScope = pending[e.key].binding.resourceScope
                /\ e.inFlightDeadlinePolicy = "FinishForLocality"
                /\ e.invalidatedAt = None
                /\ e.preemptedAt = None
               D == {l \in Leases : detaches(inFlight[l])}
    <3>1. RefreshFrom([l \in Leases |->
                    IF inFlight[l] # None /\ l \in D
                    THEN [inFlight[l] EXCEPT !.presentationBindingExpired = TRUE]
                    ELSE inFlight[l]])
      BY <2>2 DEF ExpirePlaybackCurrent
    <3> QED
      BY <3>1
  <2> QED
    BY <2>1, <2>2
<1> DEFINE fl == [l \in Leases |->
                    IF inFlight[l] # None /\ l \in D
                    THEN [inFlight[l] EXCEPT !.presentationBindingExpired = TRUE]
                    ELSE inFlight[l]]
<1>2. fl \in LeaseMap /\ Survives(inFlight, fl) /\ Lives(inFlight, fl)
  BY TypeParts, DetachSurvives
<1>3. RefreshFrom(fl)
  BY <1>1
<1> HIDE DEF fl
<1> QED
  BY <1>2, <1>3, RefreshContinues

LEMMA RemoveContinues ==
    ASSUME TypeOK, TypeOK',
           \/ \E k : RemoveKey(k)
           \/ CancelAll
           \/ Close
    PROVE  Continues
<1>1. inFlight \in LeaseMap
  BY TypeParts
<1>2. PICK k : \/ RefreshFrom(InvalidatedKey(inFlight, k, Now))
               \/ RefreshFrom(ClearedExpiry(inFlight))
               \/ RefreshFrom(inFlight)
  BY DEF RemoveKey, CancelAll, Close
<1>3. \A fl \in {InvalidatedKey(inFlight, k, Now), ClearedExpiry(inFlight), inFlight} :
        fl \in LeaseMap /\ Survives(inFlight, fl) /\ Lives(inFlight, fl)
  BY <1>1, NowType, LeaseEditsType, LeaseEditsSurvive, SurvivesOrder
<1> QED
  BY <1>2, <1>3, RefreshContinues

\* Editing one lease to something its evidence allows.
LEMMA EditContinues ==
    ASSUME TypeOK, TypeOK', NEW l \in Leases, inFlight[l] # None, NEW e \in InFlightWork,
           Sticks(inFlight[l], e), inFlight' = [inFlight EXCEPT ![l] = e]
    PROVE  Continues
<1>1. \A x \in Leases : inFlight[x] # None => inFlight[x] \in InFlightWork
  BY TypeParts DEF LeaseMap, Option
<1>2. inFlight'[l] = e /\ \A x \in Leases : x # l => inFlight'[x] = inFlight[x]
  BY TypeParts DEF LeaseMap
<1>3. e # None
  BY NoneAssumption
<1> QED
  BY <1>1, <1>2, <1>3, SticksOrder DEF Continues, Survives, Lives

LEMMA MarkContinues ==
    ASSUME TypeOK, TypeOK', NEW l \in Leases, MarkExecutionCompleted(l)
    PROVE  Continues
<1> DEFINE e == [inFlight[l] EXCEPT !.completedAt = GetOrInsert(@, Now)]
<1>1. inFlight[l] # None /\ inFlight' = [inFlight EXCEPT ![l] = e]
  BY DEF MarkExecutionCompleted
<1>2. inFlight[l] \in InFlightWork
  BY <1>1, TypeParts DEF LeaseMap, Option
<1>3. e \in InFlightWork
  BY <1>1, CompletedType
<1>4. inFlight[l].preemptedAt # None => inFlight[l].preemptedAt \in Nat
  BY <1>2 DEF InFlightWork, Option
<1>5. Sticks(inFlight[l], e)
  BY <1>2, <1>4 DEF Sticks, InFlightWork, GetOrInsert
<1> HIDE DEF e
<1> QED
  BY <1>1, <1>3, <1>5, EditContinues

LEMMA PreemptContinues ==
    ASSUME TypeOK, TypeOK', RequestOneInFlightPrefetchPreemption
    PROVE  Continues
<1>1. PICK l \in Leases :
        /\ inFlight[l] # None
        /\ inFlight[l].preemptedAt = None
        /\ inFlight' = [inFlight EXCEPT ![l] =
                            [inFlight[l] EXCEPT !.preemptedAt = Now]]
  BY DEF RequestOneInFlightPrefetchPreemption, InFlightIn
<1>2. inFlight[l] \in InFlightWork
  BY <1>1, TypeParts DEF LeaseMap, Option
<1>3. [inFlight[l] EXCEPT !.preemptedAt = Now] \in InFlightWork
  BY <1>2, NowType DEF InFlightWork, Option
<1>4. Sticks(inFlight[l], [inFlight[l] EXCEPT !.preemptedAt = Now])
  BY <1>1, <1>2 DEF Sticks, InFlightWork
<1> QED
  BY <1>1, <1>3, <1>4, EditContinues

\* The steps that free a lease.
Frees(l) ==
    \/ \E reusable \in BOOLEAN : ResolveExecution(l, reusable)
    \/ AbandonExecution(l)
    \/ FailExecution(l)

LEMMA UnleasedContinues ==
    ASSUME TypeOK, TypeOK', NEW r, NEW reusable,
           ResolveUnleased(r.key, r.generation, r.workClass, r.resourceScope,
                           r.demandIdentity, reusable)
    PROVE  Continues
<1>1. RefreshFrom(inFlight)
  BY DEF ResolveUnleased, Settle
<1>2. inFlight \in LeaseMap
  BY TypeParts
<1> QED
  BY <1>1, <1>2, SurvivesOrder, RefreshContinues

LEMMA WorkerContinues ==
    ASSUME TypeOK, TypeOK', WorkerStep
    PROVE  \/ Continues
           \/ \E lane \in Lanes : Dequeue(lane)
           \/ \E l \in Leases : Frees(l)
<1>1. inFlight \in LeaseMap /\ pending \in PendingMap
  BY TypeParts
<1>2. Survives(inFlight, RefreshedLeases) /\ Lives(inFlight, RefreshedLeases)
  BY <1>1, NowType, RefreshedSurvives DEF RefreshedLeases
<1>3. ASSUME NEW lane \in Lanes,
             \/ Park(lane) \/ ObserveLifecycle(lane)
             \/ TimedWakeup(lane) \/ SpuriousWakeup(lane)
      PROVE  Continues
  <2>1. inFlight' \in {RefreshedLeases, inFlight}
    BY <1>3 DEF Park, ObserveLifecycle, TimedWakeup, SpuriousWakeup, Wake
  <2> QED
    BY <1>2, <2>1, UnchangedContinues DEF Continues
<1>4. ASSUME NEW l \in Leases, WaitForExecutionTerminalState(l)
      PROVE  Continues
  BY <1>2, <1>4 DEF WaitForExecutionTerminalState, Continues
<1> QED
  BY <1>3, <1>4, MarkContinues DEF WorkerStep, Frees

LEMMA LeaseSteps ==
    ASSUME TypeOK, TypeOK', [Next]_vars
    PROVE  \/ Continues
           \/ \E lane \in Lanes : Dequeue(lane)
           \/ \E l \in Leases : Frees(l)
<1>1. CASE CoordinatorStep
  <2>1. CASE Rotation
    BY <2>1, RotationContinues
  <2>2. CASE Admission
    BY <2>2, AdmissionContinues
  <2>3. CASE \/ \E k \in Keys : CancelKey(k)
             \/ \E k \in Keys, s \in Scopes : CancelPreemptedStill(k, s)
             \/ \E k \in Keys, g \in Generations : KeyCurrent(k, g)
             \/ CancelAll
             \/ Close
    <3>1. (\E k : RemoveKey(k)) \/ CancelAll \/ Close
      BY <2>3 DEF CancelKey, CancelPreemptedStill, KeyCurrent
    <3> QED
      BY <3>1, RemoveContinues
  <2>4. CASE CancelOneQueuedPrefetch \/ InterruptWorkerWaits
    BY <2>4, UnchangedContinues DEF CancelOneQueuedPrefetch, InterruptWorkerWaits
  <2>5. CASE RequestOneInFlightPrefetchPreemption
    BY <2>5, PreemptContinues
  <2>6. CASE \/ \E d \in Demands : SynchronizePlaybackCurrentDemand(d)
             \/ ExpirePlaybackCurrent
    BY <2>6, DemandContinues
  <2> QED
    BY <1>1, <2>1, <2>2, <2>3, <2>4, <2>5, <2>6
       DEF CoordinatorStep, Rotation, Admission
<1>2. CASE CompletionStep
  BY <1>2, UnleasedContinues DEF CompletionStep, Frees
<1>3. CASE WorkerStep
  BY <1>3, WorkerContinues
<1>4. CASE ClockStep
  BY <1>4, UnchangedContinues DEF ClockStep, ClockAdvances, ClockRegresses
<1>5. CASE \E l \in Leases : FailExecution(l)
  BY <1>5 DEF Frees
<1>6. CASE UNCHANGED vars
  BY <1>6, UnchangedContinues DEF vars, brokerVars
<1> QED
  BY <1>1, <1>2, <1>3, <1>4, <1>5, <1>6 DEF Next, NextWithoutFailure

\* Freeing one lease alters none of the others.
LEMMA FreesSurvives ==
    ASSUME TypeOK, TypeOK', NEW l \in Leases, Frees(l)
    PROVE  Survives(inFlight, inFlight')
<1> DEFINE fl == [inFlight EXCEPT ![l] = None]
<1>1. inFlight \in LeaseMap
  BY TypeParts
<1>2. fl \in LeaseMap
  BY <1>1, FreedType
<1>3. \A x \in Leases : fl[x] # None => fl[x] = inFlight[x]
  BY <1>1 DEF LeaseMap
<1>4. RefreshFrom(fl) \/ inFlight' = fl
  BY DEF Frees, ResolveExecution, Settle, AbandonExecution, FailExecution
<1> HIDE DEF fl
<1>5. \A x \in Leases : inFlight[x] # None => inFlight[x] \in InFlightWork
  BY <1>1 DEF LeaseMap, Option
<1>6. Survives(inFlight, fl)
  BY <1>3, <1>5, SticksOrder DEF Survives
<1> QED
  BY <1>2, <1>4, <1>6, RefreshContinues

\* A dequeue takes a slot that was free and alters no other lease.
LEMMA DequeueTakesSlot ==
    ASSUME TypeOK, TypeOK', NEW lane \in Lanes, Dequeue(lane)
    PROVE  LET i == NextWorkIndex(queue, lane, Now, Failover(RefreshedLeases, lane),
                                  PlaybackPrefetchBorrowAllowed(RefreshedLeases, lane))
           IN  /\ i \in DOMAIN queue
               /\ queue' = KeepAt(queue, DOMAIN queue \ {i})
               /\ Lives(inFlight, inFlight')
               /\ \E l \in Leases :
                    /\ inFlight[l] = None
                    /\ inFlight'[l] # None
                    /\ inFlight'[l].key = queue[i].request.key
                    /\ \A x \in Leases \ {l} : inFlight'[x] # None =>
                        inFlight[x] # None /\ Sticks(inFlight[x], inFlight'[x])
<1> DEFINE fl == RefreshedLeases
           i == NextWorkIndex(queue, lane, Now, Failover(fl, lane),
                              PlaybackPrefetchBorrowAllowed(fl, lane))
<1>1. /\ inFlight \in LeaseMap
      /\ pending \in PendingMap
      /\ queue \in Seq(QueuedWork)
      /\ inFlight' \in LeaseMap
  BY TypeParts DEF TypeOK, LeaseMap
<1>2. fl \in LeaseMap /\ Survives(inFlight, fl) /\ Lives(inFlight, fl)
  BY <1>1, NowType, RefreshedType, RefreshedSurvives DEF RefreshedLeases
<1>3. i \in DOMAIN queue
  BY <1>1, NextWorkIndexIn DEF Dequeue, Eligible
<1>4. queue' = KeepAt(queue, DOMAIN queue \ {i})
  BY DEF Dequeue
<1>5. PICK l \in Leases :
        /\ inFlight[l] = None
        /\ inFlight' = Refreshed(latestGeneration, pending,
                            [fl EXCEPT ![l] = NewLease(queue[i], lane)], Now)
  BY DEF Dequeue
<1> HIDE DEF i, fl
<1> DEFINE gl == [fl EXCEPT ![l] = NewLease(queue[i], lane)]
<1>6. NewLease(queue[i], lane) \in InFlightWork
  BY <1>1, <1>3, NewLeaseType
<1>7. gl \in LeaseMap
  BY <1>2, <1>6 DEF LeaseMap, Option
<1>8. Survives(gl, inFlight') /\ Lives(gl, inFlight')
  BY <1>1, <1>5, <1>7, NowType, RefreshedSurvives
<1>9. /\ gl[l] = NewLease(queue[i], lane)
      /\ \A x \in Leases \ {l} : gl[x] = fl[x]
  BY <1>2 DEF LeaseMap
<1> HIDE DEF gl
<1>10. gl[l] # None /\ gl[l].key = queue[i].request.key
  <2>1. NewLease(queue[i], lane) # None
    BY <1>6, NoneAssumption
  <2>2. NewLease(queue[i], lane).key = queue[i].request.key
    BY DEF NewLease
  <2> QED
    BY <1>9, <2>1, <2>2
<1>11. inFlight'[l] # None /\ inFlight'[l].key = queue[i].request.key
  BY <1>8, <1>10 DEF Lives, Survives, Sticks
<1>12. Lives(inFlight, inFlight')
  BY <1>2, <1>5, <1>8, <1>9 DEF Lives
<1>13. ASSUME NEW x \in Leases \ {l}, inFlight'[x] # None
       PROVE  inFlight[x] # None /\ Sticks(inFlight[x], inFlight'[x])
  <2>1. gl[x] # None /\ Sticks(gl[x], inFlight'[x])
    BY <1>8, <1>13 DEF Survives
  <2>2. fl[x] # None /\ gl[x] = fl[x]
    BY <1>9, <2>1
  <2>3. inFlight[x] # None /\ Sticks(inFlight[x], fl[x])
    BY <1>2, <2>2 DEF Survives
  <2>4. /\ inFlight[x] \in InFlightWork
        /\ fl[x] \in InFlightWork
        /\ inFlight'[x] \in InFlightWork
    BY <1>1, <1>2, <1>13, <2>2, <2>3 DEF LeaseMap, Option
  <2> QED
    BY <2>1, <2>2, <2>3, <2>4, SticksOrder
<1> QED
  BY <1>3, <1>4, <1>5, <1>11, <1>12, <1>13 DEF i, fl

LeaseEvidence ==
    \A l \in Leases :
        inFlight[l] # None /\ inFlight'[l] # None => Sticks(inFlight[l], inFlight'[l])

\* However a live lease is rebound, invalidated, preempted or completed, it
\* stays the execution it was: its identity and its start never change, its
\* completion stamp is written once and its preemption is never taken back or
\* moved to a later instant.
THEOREM LeaseEvidenceHolds == Spec => LeaseEvidenceSticks
<1>1. TypeOK /\ [Next]_vars => LeaseEvidence
  <2> SUFFICES ASSUME TypeOK, [Next]_vars PROVE LeaseEvidence
    OBVIOUS
  <2>1. TypeOK'
    BY TypeStep
  <2>2. CASE Continues
    BY <2>2 DEF Continues, Survives, LeaseEvidence
  <2>3. CASE \E l \in Leases : Frees(l)
    BY <2>1, <2>3, FreesSurvives DEF Survives, LeaseEvidence
  <2>4. CASE \E lane \in Lanes : Dequeue(lane)
    <3>1. PICK l \in Leases :
            /\ inFlight[l] = None
            /\ \A x \in Leases \ {l} : inFlight'[x] # None =>
                inFlight[x] # None /\ Sticks(inFlight[x], inFlight'[x])
      BY <2>1, <2>4, DequeueTakesSlot
    <3> QED
      BY <3>1 DEF LeaseEvidence
  <2> QED
    BY <2>1, <2>2, <2>3, <2>4, LeaseSteps
<1>2. LeaseEvidence => \A l \in Leases :
        inFlight[l] # None /\ inFlight'[l] # None =>
            LET old == inFlight[l]
                new == inFlight'[l]
            IN  /\ new.key = old.key
                /\ new.generation = old.generation
                /\ new.startedAt = old.startedAt
                /\ old.completedAt # None => new.completedAt = old.completedAt
                /\ old.preemptedAt # None =>
                    /\ new.preemptedAt # None
                    /\ new.preemptedAt <= old.preemptedAt
  BY DEF LeaseEvidence, Sticks
<1> QED
  BY <1>1, <1>2, TypeCorrect, PTL DEF Spec, LeaseEvidenceSticks

-----------------------------------------------------------------------------
(* Waiting workers.                                                        *)

\* After notify_all nobody is parked.
Woken == \A lane \in Lanes : worker'[lane] # "Parked"

\* Whoever is parked was parked before, and nothing it waits for came.
Undisturbing ==
    /\ lifecycleRevision' = lifecycleRevision
    /\ closedAt' = closedAt
    /\ \A lane \in Lanes : worker'[lane] = "Parked" =>
        /\ worker[lane] = "Parked"
        /\ observedRevision'[lane] = observedRevision[lane]

LEMMA NotifyWakes ==
    /\ NotifyAll => Woken
    /\ UNCHANGED <<workerVars, closedAt>> => Undisturbing
BY DEF NotifyAll, Woken, Undisturbing, workerVars

LEMMA AdmissionWakes ==
    ASSUME TypeOK, Admission
    PROVE  \/ Woken
           \/ /\ Undisturbing
              /\ queue' \in {queue, PrunedQueue(queue, latestGeneration)}
<1>1. PICK r \in Requests : Submit(r) \/ BindExisting(r)
  BY DEF Admission
<1>2. CASE BindExisting(r)
  BY <1>2, NotifyWakes DEF BindExisting
<1>3. CASE Submit(r)
  <2>1. closedAt' = closedAt /\ (Resubmit(r) \/ Admit(r))
    BY <1>3 DEF Submit
  <2>2. \/ NotifyAll
        \/ /\ UNCHANGED workerVars
           /\ queue' \in {queue, PrunedQueue(queue, latestGeneration)}
    BY <2>1 DEF Resubmit, Admit, PushAfterEviction
  <2> QED
    BY <2>1, <2>2, NotifyWakes
<1> QED
  BY <1>1, <1>2, <1>3

\* New work, a new revision and a close wake everybody; every other step
\* leaves the parked workers as they are.
LEMMA WorkerSteps ==
    ASSUME TypeOK, [Next]_vars
    PROVE  Woken \/ Undisturbing \/ \E lane \in Lanes : Park(lane)
<1>1. worker \in [Lanes -> WorkerStates] /\ observedRevision \in [Lanes -> 0 .. MaxRevision]
  BY DEF TypeOK
<1>2. CASE CoordinatorStep
  <2>1. CASE \/ BeginGeneration
             \/ BeginGenerationPreservingPlaybackLocality
             \/ BeginGenerationPreservingInFlightPlaybackLocality
             \/ \E g \in Generations : PruneBefore(g)
    BY <2>1, NotifyWakes
       DEF BeginGeneration, BeginGenerationPreservingPlaybackLocality,
           BeginGenerationPreservingInFlightPlaybackLocality, PruneBefore, RotateTo
  <2>2. CASE PruneObsolete
    <3>1. closedAt' = closedAt /\ (NotifyAll \/ UNCHANGED workerVars)
      BY <2>2 DEF PruneObsolete, NotifyAllIf
    <3> QED
      BY <3>1, NotifyWakes
  <2>3. CASE Admission
    BY <2>3, AdmissionWakes
  <2>4. CASE \E k \in Keys : CancelKey(k)
    <3>1. closedAt' = closedAt /\ (NotifyAll \/ UNCHANGED workerVars)
      BY <2>4 DEF CancelKey, RemoveKey, NotifyAllIf
    <3> QED
      BY <3>1, NotifyWakes
  <2>5. CASE \/ CancelAll \/ Close \/ CancelOneQueuedPrefetch
             \/ RequestOneInFlightPrefetchPreemption
             \/ \E k \in Keys, s \in Scopes : CancelPreemptedStill(k, s)
             \/ \E k \in Keys, g \in Generations : KeyCurrent(k, g)
             \/ \E d \in Demands : SynchronizePlaybackCurrentDemand(d)
    BY <2>5, NotifyWakes
       DEF CancelAll, Close, CancelOneQueuedPrefetch, CancelPreemptedStill,
           RequestOneInFlightPrefetchPreemption, KeyCurrent,
           SynchronizePlaybackCurrentDemand
  <2>6. CASE ExpirePlaybackCurrent
    <3>1. closedAt' = closedAt /\ (NotifyAll \/ UNCHANGED workerVars)
      BY <2>6 DEF ExpirePlaybackCurrent, NotifyAllIf
    <3> QED
      BY <3>1, NotifyWakes
  <2>7. CASE InterruptWorkerWaits
    BY <2>7 DEF InterruptWorkerWaits, Woken
  <2> QED
    BY <1>2, <2>1, <2>2, <2>3, <2>4, <2>5, <2>6, <2>7
       DEF CoordinatorStep, Admission
<1>3. CASE CompletionStep
  BY <1>3, NotifyWakes DEF CompletionStep, ResolveExecution, ResolveUnleased, Settle
<1>4. CASE WorkerStep
  <2>1. ASSUME NEW lane \in Lanes, Dequeue(lane)
        PROVE  Undisturbing
    BY <2>1, NotifyWakes DEF Dequeue
  <2>2. ASSUME NEW lane \in Lanes, TimedWakeup(lane) \/ SpuriousWakeup(lane)
        PROVE  Undisturbing
    BY <1>1, <2>2 DEF TimedWakeup, SpuriousWakeup, Wake, Undisturbing
  <2>3. ASSUME NEW lane \in Lanes, ObserveLifecycle(lane)
        PROVE  Undisturbing
    BY <1>1, <2>3 DEF ObserveLifecycle, Undisturbing
  <2>4. ASSUME NEW l \in Leases, WaitForExecutionTerminalState(l)
        PROVE  Undisturbing
    BY <2>4 DEF WaitForExecutionTerminalState, Undisturbing
  <2>5. ASSUME NEW l \in Leases, MarkExecutionCompleted(l) \/ AbandonExecution(l)
        PROVE  Woken
    BY <2>5, NotifyWakes DEF MarkExecutionCompleted, AbandonExecution
  <2> QED
    BY <1>4, <2>1, <2>2, <2>3, <2>4, <2>5 DEF WorkerStep
<1>5. CASE ClockStep
  BY <1>5, NotifyWakes DEF ClockStep, ClockAdvances, ClockRegresses
<1>6. CASE \E l \in Leases : FailExecution(l)
  BY <1>6, NotifyWakes DEF FailExecution
<1>7. CASE UNCHANGED vars
  BY <1>7, NotifyWakes DEF vars, brokerVars
<1> QED
  BY <1>2, <1>3, <1>4, <1>5, <1>6, <1>7 DEF Next, NextWithoutFailure

\* A payload that was not in the queue wakes everybody.
LEMMA NewWorkWakes ==
    ASSUME TypeOK, [Next]_vars
    PROVE  Woken \/ Subsequent(queue', queue)
<1>1. /\ queue \in Seq(QueuedWork)
      /\ Subsequent(queue, queue)
      /\ Subsequent(PrunedQueue(queue, latestGeneration), queue)
  <2>1. queue \in Seq(QueuedWork)
    BY TypeParts
  <2>2. Subsequent(PrunedQueue(queue, latestGeneration), queue)
    BY <2>1, QueueEditsType, PrunedQueueRetains DEF Subsequent
  <2> QED
    BY <2>1, <2>2, SubsequentKept
<1>2. CASE Rotation
  <2>1. NotifyAll \/ queue' = PrunedQueue(queue, latestGeneration)
    BY <1>2 DEF Rotation, BeginGeneration, PruneBefore, PruneObsolete, RotateTo,
                BeginGenerationPreservingPlaybackLocality,
                BeginGenerationPreservingInFlightPlaybackLocality
  <2> QED
    BY <1>1, <2>1, NotifyWakes
<1>3. CASE Admission
  BY <1>1, <1>3, AdmissionWakes
<1>4. CASE Retains
  BY <1>4 DEF Retains
<1> QED
  BY <1>2, <1>3, <1>4, StepSorts

\* What a lane takes by class or affinity it takes with any extra authority.
LEMMA LaneTakesMore ==
    ASSUME NEW lane, NEW r, NEW failover \in BOOLEAN, NEW borrow \in BOOLEAN,
           LaneTakes(lane, r, FALSE, FALSE)
    PROVE  LaneTakes(lane, r, failover, borrow)
BY DEF LaneTakes

\* A worker only parks on a queue without work for its lane.
LEMMA ParksIdle ==
    ASSUME TypeOK, NEW lane \in Lanes, Park(lane), worker'[lane] = "Parked",
           NEW i \in DOMAIN queue
    PROVE  /\ ~LaneTakes(lane, queue[i].request, FALSE, FALSE)
           /\ observedRevision[lane] = lifecycleRevision
           /\ closedAt = None
<1> DEFINE failover == Failover(RefreshedLeases, lane)
           borrow == PlaybackPrefetchBorrowAllowed(RefreshedLeases, lane)
           takes(p) == Positions(queue, LAMBDA w :
                /\ w.request.priority = p
                /\ LaneTakes(lane, w.request, failover, borrow))
<1>1. takes("Current") = {} /\ takes("Prefetch") = {}
  <2>1. EligiblePositions(queue, lane, failover, borrow) = {}
    BY DEF Park, Eligible
  <2>2. EligiblePositions(queue, lane, failover, borrow) =
            IF takes("Current") # {} THEN takes("Current") ELSE takes("Prefetch")
    BY DEF EligiblePositions
  <2> QED
    BY <2>1, <2>2
<1>2. queue[i].request.priority \in {"Prefetch", "Current"}
  <2>1. queue[i] \in QueuedWork
    BY TypeParts
  <2> QED
    BY <2>1 DEF QueuedWork, Request, Priorities
<1>3. failover \in BOOLEAN /\ borrow \in BOOLEAN
  BY DEF Failover, NonPlaybackCurrentFailoverAllowed, PlaybackPrefetchBorrowAllowed
<1> HIDE DEF failover, borrow
<1>4. ~LaneTakes(lane, queue[i].request, failover, borrow)
  BY <1>1, <1>2 DEF Positions
<1>5. ~LaneTakes(lane, queue[i].request, FALSE, FALSE)
  BY <1>3, <1>4, LaneTakesMore
<1>6. worker \in [Lanes -> WorkerStates]
  BY DEF TypeOK
<1> QED
  BY <1>5, <1>6 DEF Park, Receiving

\* Parking and notification never cross: whenever a worker sleeps, the queue
\* holds nothing its lane accepts by class or affinity, it has seen the last
\* lifecycle interrupt, and the broker is open.
THEOREM NoWakeupIsLost == Spec => []NoLostWakeup
<1>1. Init => NoLostWakeup
  BY DEF Init, NoLostWakeup
<1>2. TypeOK /\ NoLostWakeup /\ [Next]_vars => NoLostWakeup'
  <2> SUFFICES ASSUME TypeOK, NoLostWakeup, [Next]_vars,
                      NEW lane \in Lanes, worker'[lane] = "Parked"
               PROVE  /\ \A i \in DOMAIN queue' :
                            ~LaneTakes(lane, queue'[i].request, FALSE, FALSE)
                      /\ observedRevision'[lane] = lifecycleRevision'
                      /\ closedAt' = None
    BY DEF NoLostWakeup
  <2>1. CASE Undisturbing
    <3>1. worker[lane] = "Parked"
      BY <2>1 DEF Undisturbing
    <3>2. Subsequent(queue', queue)
      BY NewWorkWakes DEF Woken
    <3>3. \A i \in DOMAIN queue' : ~LaneTakes(lane, queue'[i].request, FALSE, FALSE)
      BY <3>1, <3>2 DEF NoLostWakeup, Subsequent
    <3> QED
      BY <2>1, <3>1, <3>3 DEF Undisturbing, NoLostWakeup
  <2>2. ASSUME NEW other \in Lanes, Park(other)
        PROVE  /\ \A i \in DOMAIN queue' :
                    ~LaneTakes(lane, queue'[i].request, FALSE, FALSE)
               /\ observedRevision'[lane] = lifecycleRevision'
               /\ closedAt' = None
    <3>1. UNCHANGED <<queue, observedRevision, lifecycleRevision, closedAt>>
      BY <2>2 DEF Park
    <3>2. CASE lane # other
      <4>1. worker[lane] = "Parked"
        BY <2>2, <3>2 DEF Park, TypeOK
      <4> QED
        BY <3>1, <4>1 DEF NoLostWakeup
    <3>3. CASE lane = other
      <4>1. \A i \in DOMAIN queue : ~LaneTakes(lane, queue[i].request, FALSE, FALSE)
        BY <2>2, <3>3, ParksIdle
      <4>2. observedRevision[lane] = lifecycleRevision /\ closedAt = None
        BY <2>2, <3>3 DEF Park, Receiving, TypeOK
      <4> QED
        BY <3>1, <4>1, <4>2
    <3> QED
      BY <3>2, <3>3
  <2> QED
    BY <2>1, <2>2, WorkerSteps DEF Woken
<1> QED
  BY <1>1, <1>2, TypeCorrect, PTL DEF Spec

-----------------------------------------------------------------------------
(* The pending map, the queue and the leases: one admission, three views.  *)

\* The binding p is the one the queued payload w was submitted with.
Mirrors(p, w) ==
    /\ p # None
    /\ p.binding = BindingFor(w.request)
    /\ p.deadlineAt = w.deadlineAt
    /\ p.inFlightDeadlinePolicy = w.request.inFlightDeadlinePolicy
    /\ p.executionCancellationBudget = w.request.executionCancellationBudget

Mirror(pend, q) ==
    /\ \A i, j \in DOMAIN q : q[i].request.key = q[j].request.key => i = j
    /\ \A i \in DOMAIN q : Mirrors(pend[q[i].request.key], q[i])

HasQueued(q, k) == \E i \in DOMAIN q : q[i].request.key = k
HasLease(fl, k) == \E l \in Leases : fl[l] # None /\ fl[l].key = k

\* Every binding has physical work of its key, queued or running.
Owned(pend, q, fl) ==
    \A k \in Keys : pend[k] # None => HasQueued(q, k) \/ HasLease(fl, k)

Agrees(pend, q, fl) == Mirror(pend, q) /\ Owned(pend, q, fl)

LEMMA AgreesParts ==
    Agrees(pending, queue, inFlight) <=> QueueMirrorsPending /\ NoBindingWithoutWork
BY DEF Agrees, Mirror, Mirrors, Owned, HasQueued, HasLease, InFlightIn,
       PendingKeys, QueueMirrorsPending, NoBindingWithoutWork

\* Retaining the payloads at I: each of them keeps a position, and one only.
LEMMA KeepAtPlaces ==
    ASSUME NEW S, NEW q \in Seq(S), NEW I \in SUBSET (DOMAIN q)
    PROVE  \E at \in [DOMAIN KeepAt(q, I) -> I] :
            /\ \A n \in DOMAIN KeepAt(q, I) : KeepAt(q, I)[n] = q[at[n]]
            /\ \A m, n \in DOMAIN KeepAt(q, I) : at[m] = at[n] => m = n
            /\ \A i \in I : \E n \in DOMAIN KeepAt(q, I) : at[n] = i
<1>1. DOMAIN q = 1 .. Len(q) /\ Len(q) \in Nat
  OBVIOUS
<1>2. IsFiniteSet(I)
  <2>1. IsFiniteSet(1 .. Len(q))
    BY <1>1, FS_Interval
  <2> QED
    BY <1>1, <2>1, FS_Subset
<1>3. Cardinality(I) \in Nat
  BY <1>2, FS_CardinalityType
<1> DEFINE D == 1 .. Cardinality(I)
           pos(n) == CHOOSE i \in I : Cardinality({j \in I : j <= i}) = n
           at == [n \in D |-> pos(n)]
<1>4. \A n \in D : pos(n) \in I /\ Cardinality({j \in I : j <= pos(n)}) = n
  <2> SUFFICES ASSUME NEW n \in D
               PROVE  pos(n) \in I /\ Cardinality({j \in I : j <= pos(n)}) = n
    OBVIOUS
  <2>1. I \in SUBSET Nat
    BY <1>1
  <2>2. \E i \in I : Cardinality({j \in I : j <= i}) = n
    BY <1>2, <2>1, RankExists
  <2> QED
    BY <2>2
<1>5. KeepAt(q, I) = [n \in D |-> q[pos(n)]]
  BY DEF KeepAt
<1> HIDE DEF pos
<1>6. DOMAIN KeepAt(q, I) = D
  BY <1>5
<1>7. at \in [D -> I] /\ \A n \in D : at[n] = pos(n)
  BY <1>4
<1> HIDE DEF at
<1>8. \A m, n \in D : at[m] = at[n] => m = n
  BY <1>4, <1>7
<1>9. at \in Injection(D, I)
  BY <1>7, <1>8 DEF Injection, IsInjective
<1>10. Cardinality(D) = Cardinality(I)
  <2>1. Cardinality(1 .. Cardinality(I)) = Cardinality(I)
    BY <1>3, FS_Interval
  <2> QED
    BY <2>1
<1>11. at \in Surjection(D, I)
  BY <1>2, <1>9, <1>10, FS_Injection
<1>12. \A i \in I : \E n \in D : at[n] = i
  BY <1>11 DEF Surjection
<1> HIDE DEF D
<1> QED
  BY <1>5, <1>6, <1>7, <1>8, <1>12

\* Dropping bindings and payloads keeps the views in agreement when every
\* payload that stays keeps its binding, and every binding that stays keeps
\* its payload or runs.
LEMMA AgreesKept ==
    ASSUME NEW q \in Seq(QueuedWork), NEW I \in SUBSET (DOMAIN q), NEW fl,
           NEW pend \in PendingMap, Agrees(pend, q, fl), NEW new,
           \A k \in Keys : new[k] \in {None, pend[k]},
           \A i \in I : new[q[i].request.key] # None,
           \A k \in Keys : new[k] # None =>
                \/ \A i \in DOMAIN q : q[i].request.key = k => i \in I
                \/ HasLease(fl, k)
    PROVE  Agrees(new, KeepAt(q, I), fl)
<1> DEFINE p == KeepAt(q, I)
<1>1. PICK at \in [DOMAIN p -> I] :
        /\ \A n \in DOMAIN p : p[n] = q[at[n]]
        /\ \A m, n \in DOMAIN p : at[m] = at[n] => m = n
        /\ \A i \in I : \E n \in DOMAIN p : at[n] = i
  BY KeepAtPlaces
<1> HIDE DEF p
<1>2. \A i \in DOMAIN q : q[i].request.key \in Keys
  <2>1. \A i \in DOMAIN q : q[i] \in QueuedWork
    OBVIOUS
  <2> QED
    BY <2>1 DEF QueuedWork, Request
<1>3. \A n \in DOMAIN p : at[n] \in I /\ at[n] \in DOMAIN q
  BY <1>1
<1>4. ASSUME NEW m \in DOMAIN p, NEW n \in DOMAIN p,
             p[m].request.key = p[n].request.key
      PROVE  m = n
  BY <1>1, <1>3, <1>4 DEF Agrees, Mirror
<1>5. ASSUME NEW n \in DOMAIN p
      PROVE  Mirrors(new[p[n].request.key], p[n])
  <2>1. p[n] = q[at[n]] /\ at[n] \in I /\ at[n] \in DOMAIN q
    BY <1>1, <1>3
  <2>2. new[p[n].request.key] = pend[p[n].request.key]
    BY <1>2, <2>1
  <2> QED
    BY <2>1, <2>2 DEF Agrees, Mirror
<1>6. ASSUME NEW k \in Keys, new[k] # None
      PROVE  HasQueued(p, k) \/ HasLease(fl, k)
  <2>1. HasQueued(q, k) \/ HasLease(fl, k)
    BY <1>6 DEF Agrees, Owned
  <2>2. ASSUME NEW i \in I, q[i].request.key = k
        PROVE  HasQueued(p, k)
    BY <1>1, <2>2 DEF HasQueued
  <2> QED
    BY <1>6, <2>1, <2>2 DEF HasQueued
<1> QED
  BY <1>4, <1>5, <1>6 DEF Agrees, Mirror, Owned, p

\* Leases that live on go on owning their keys.
LEMMA AgreesLeases ==
    ASSUME NEW pend, NEW q, NEW fl, NEW gl, Agrees(pend, q, fl),
           \A k \in Keys : HasLease(fl, k) => HasLease(gl, k)
    PROVE  Agrees(pend, q, gl)
BY DEF Agrees, Owned

LEMMA AgreesContinues ==
    ASSUME NEW pend, NEW q, NEW fl, NEW gl, Agrees(pend, q, fl),
           Survives(fl, gl), Lives(fl, gl)
    PROVE  Agrees(pend, q, gl)
<1>1. \A k : HasLease(fl, k) => HasLease(gl, k)
  BY DEF HasLease, Survives, Lives, Sticks
<1> QED
  BY <1>1, AgreesLeases

\* A payload and the binding it mirrors are of one generation.
LEMMA MirroredFacts ==
    ASSUME NEW q \in Seq(QueuedWork), NEW pend \in PendingMap, Mirror(pend, q),
           NEW i \in DOMAIN q
    PROVE  LET r == q[i].request
               b == pend[r.key].binding
           IN  /\ r \in Request /\ r.key \in Keys
               /\ pend[r.key] # None
               /\ b.generation = r.generation
               /\ b.priority = r.priority
               /\ b.workClass = r.workClass
               /\ b.resourceScope = r.resourceScope
               /\ b.demandIdentity = r.demandIdentity
               /\ r.generation \in Nat
               /\ QueuedMatchesBinding(q[i], r.key, b)
<1>1. q[i] \in QueuedWork
  OBVIOUS
<1>2. q[i].request \in Request
  BY <1>1 DEF QueuedWork
<1>3. q[i].request.key \in Keys /\ q[i].request.generation \in Nat
  BY <1>2, BoundsAssumption DEF Request, Generations
<1>4. Mirrors(pend[q[i].request.key], q[i])
  BY DEF Mirror
<1> QED
  BY <1>2, <1>3, <1>4 DEF Mirrors, BindingFor, QueuedMatchesBinding

\* Pruning takes a payload exactly when it takes its binding.
LEMMA PrunedAgrees ==
    ASSUME NEW q \in Seq(QueuedWork), NEW pend \in PendingMap, NEW fl,
           NEW latest \in Nat, Agrees(pend, q, fl)
    PROVE  Agrees(PrunedPending(pend, latest), PrunedQueue(q, latest), fl)
<1> DEFINE I == Positions(q, LAMBDA w : w.request.generation >= latest)
           new == PrunedPending(pend, latest)
<1>1. /\ I \in SUBSET (DOMAIN q)
      /\ \A i \in DOMAIN q : i \in I <=> q[i].request.generation >= latest
  BY DEF Positions
<1>2. PrunedQueue(q, latest) = KeepAt(q, I)
  BY DEF PrunedQueue
<1>3. \A k \in Keys : /\ new[k] \in {None, pend[k]}
                      /\ new[k] # None => ~(pend[k].binding.generation < latest)
                      /\ pend[k] # None /\ ~(pend[k].binding.generation < latest) =>
                            new[k] # None
  BY DEF PrunedPending
<1> HIDE DEF I, new
<1>4. ASSUME NEW i \in I
      PROVE  new[q[i].request.key] # None
  <2>1. i \in DOMAIN q /\ q[i].request.generation >= latest
    BY <1>1
  <2> QED
    BY <1>3, <2>1, MirroredFacts DEF Agrees
<1>5. ASSUME NEW k \in Keys, new[k] # None, NEW i \in DOMAIN q, q[i].request.key = k
      PROVE  i \in I
  <2>1. q[i].request.generation >= latest
    BY <1>3, <1>5, MirroredFacts DEF Agrees
  <2> QED
    BY <1>1, <2>1
<1>6. Agrees(new, KeepAt(q, I), fl)
  BY <1>1, <1>3, <1>4, <1>5, AgreesKept
<1> QED
  BY <1>2, <1>6 DEF new

\* Taking a key out of both views.
LEMMA WithoutKeyAgrees ==
    ASSUME NEW q \in Seq(QueuedWork), NEW pend \in PendingMap, NEW fl,
           Agrees(pend, q, fl), NEW k
    PROVE  Agrees([pend EXCEPT ![k] = None], WithoutKey(q, k), fl)
<1> DEFINE I == Positions(q, LAMBDA w : w.request.key # k)
           new == [pend EXCEPT ![k] = None]
<1>1. /\ I \in SUBSET (DOMAIN q)
      /\ \A i \in DOMAIN q : i \in I <=> q[i].request.key # k
  BY DEF Positions
<1>2. WithoutKey(q, k) = KeepAt(q, I)
  BY DEF WithoutKey
<1>3. \A x \in Keys : /\ new[x] \in {None, pend[x]}
                      /\ x # k => new[x] = pend[x]
                      /\ new[x] # None => x # k
  BY DEF PendingMap
<1> HIDE DEF I, new
<1>4. ASSUME NEW i \in I
      PROVE  new[q[i].request.key] # None
  <2>1. i \in DOMAIN q /\ q[i].request.key # k
    BY <1>1
  <2> QED
    BY <1>3, <2>1, MirroredFacts DEF Agrees
<1>5. \A x \in Keys : new[x] # None => \A i \in DOMAIN q : q[i].request.key = x => i \in I
  BY <1>1, <1>3
<1>6. Agrees(new, KeepAt(q, I), fl)
  BY <1>1, <1>3, <1>4, <1>5, AgreesKept
<1> QED
  BY <1>2, <1>6 DEF new

\* A key without a payload may lose its binding.
LEMMA DropAgrees ==
    ASSUME NEW q \in Seq(QueuedWork), NEW pend \in PendingMap, NEW fl,
           Agrees(pend, q, fl), NEW k, ~HasQueued(q, k)
    PROVE  Agrees([pend EXCEPT ![k] = None], q, fl)
<1> DEFINE new == [pend EXCEPT ![k] = None]
<1>1. \A x \in Keys : x # k => new[x] = pend[x]
  BY DEF PendingMap
<1>2. \A x \in Keys : x = k => new[x] = None
  BY DEF PendingMap
<1> HIDE DEF new
<1>3. \A i \in DOMAIN q : q[i].request.key \in Keys /\ q[i].request.key # k
  BY MirroredFacts DEF Agrees, HasQueued
<1>4. Agrees(new, q, fl)
  BY <1>1, <1>2, <1>3 DEF Agrees, Mirror, Owned
<1> QED
  BY <1>4 DEF new

\* The orphan sweep after leases of k were freed.
LEMMA SweepAgrees ==
    ASSUME NEW q \in Seq(QueuedWork), NEW pend \in PendingMap, NEW fl, NEW gl,
           NEW k \in Keys, Agrees(pend, q, fl),
           \A x \in Keys \ {k} : HasLease(fl, x) => HasLease(gl, x)
    PROVE  Agrees(WithoutOrphan(pend, q, gl, k), q, gl)
<1> DEFINE owner == PendingBindingHasExecutionOwner(q, gl, k, pend[k].binding)
<1>1. owner => HasQueued(q, k) \/ HasLease(gl, k)
  BY DEF PendingBindingHasExecutionOwner, QueuedMatchesBinding, HasQueued,
         ExecutionMatchesBinding, InFlightIn, HasLease
<1>2. ASSUME HasQueued(q, k)
      PROVE  owner
  <2>1. PICK i \in DOMAIN q : q[i].request.key = k
    BY <1>2 DEF HasQueued
  <2>2. QueuedMatchesBinding(q[i], k, pend[k].binding)
    BY <2>1, MirroredFacts DEF Agrees
  <2> QED
    BY <2>2 DEF PendingBindingHasExecutionOwner
<1>3. WithoutOrphan(pend, q, gl, k) =
        IF pend[k] # None /\ ~owner THEN [pend EXCEPT ![k] = None] ELSE pend
  BY DEF WithoutOrphan
<1> HIDE DEF owner
<1>4. CASE pend[k] # None /\ ~owner
  <2>1. Agrees([pend EXCEPT ![k] = None], q, fl)
    BY <1>2, <1>4, DropAgrees
  <2>2. [pend EXCEPT ![k] = None][k] = None
    BY DEF PendingMap
  <2>3. Agrees([pend EXCEPT ![k] = None], q, gl)
    BY <2>1, <2>2 DEF Agrees, Owned
  <2> QED
    BY <1>3, <1>4, <2>3
<1>5. CASE pend[k] = None \/ owner
  <2>1. pend[k] # None => HasQueued(q, k) \/ HasLease(gl, k)
    BY <1>1, <1>5
  <2>2. Agrees(pend, q, gl)
    BY <2>1 DEF Agrees, Owned
  <2> QED
    BY <1>3, <1>5, <2>2
<1> QED
  BY <1>4, <1>5

-----------------------------------------------------------------------------
(* The views agree across the steps that drop.                             *)

Agreement == Agrees(pending, queue, inFlight)

LEMMA AgreementPrimed ==
    Agreement' <=> Agrees(pending', queue', inFlight')
BY DEF Agreement, Agrees, Mirror, Owned, HasQueued, HasLease

\* Most steps edit the leases in place: it is enough to look at the views of
\* admission.
LEMMA ContinuesAgrees ==
    ASSUME Continues, Agrees(pending', queue', inFlight)
    PROVE  Agreement'
BY AgreesContinues, AgreementPrimed DEF Continues

LEMMA RemoveKeyAgrees ==
    ASSUME TypeOK, TypeOK', Agreement, NEW k, RemoveKey(k)
    PROVE  Agreement'
<1>1. pending \in PendingMap /\ queue \in Seq(QueuedWork)
  BY TypeParts
<1>2. /\ pending' = [pending EXCEPT ![k] = None]
      /\ queue' = WithoutKey(queue, k)
  BY DEF RemoveKey
<1>3. Agrees(pending', queue', inFlight)
  BY <1>1, <1>2, WithoutKeyAgrees DEF Agreement
<1> QED
  BY <1>3, RemoveContinues, ContinuesAgrees

LEMMA CancelAllAgrees ==
    ASSUME TypeOK, CancelAll \/ Close
    PROVE  Agreement'
<1>1. pending' = [k \in Keys |-> None] /\ queue' = <<>>
  BY DEF CancelAll, Close
<1>2. Agrees(pending', queue', inFlight')
  BY <1>1 DEF Agrees, Mirror, Owned
<1> QED
  BY <1>2, AgreementPrimed

LEMMA CancelPrefetchAgrees ==
    ASSUME TypeOK, TypeOK', Agreement, CancelOneQueuedPrefetch
    PROVE  Agreement'
<1>1. pending \in PendingMap /\ queue \in Seq(QueuedWork)
  BY TypeParts
<1>2. PICK i \in DOMAIN queue :
        /\ queue' = KeepAt(queue, DOMAIN queue \ {i})
        /\ pending' = [pending EXCEPT ![queue[i].request.key] = None]
        /\ inFlight' = inFlight
  <2> DEFINE idle == Positions(queue, LAMBDA w :
                /\ w.request.priority = "Prefetch"
                /\ ~\E l \in InFlightIn(inFlight) : inFlight[l].key = w.request.key)
  <2>1. idle # {} /\ idle \in SUBSET (DOMAIN queue)
    BY DEF CancelOneQueuedPrefetch, Positions
  <2>2. /\ queue' = KeepAt(queue, DOMAIN queue \ {FirstPosition(idle)})
        /\ pending' = [pending EXCEPT
                            ![queue[FirstPosition(idle)].request.key] = None]
        /\ inFlight' = inFlight
    BY DEF CancelOneQueuedPrefetch
  <2> HIDE DEF idle
  <2>3. idle \in SUBSET Nat
    BY <1>1, <2>1
  <2>4. FirstPosition(idle) \in idle
    BY <2>1, <2>3, LeastOfIn DEF FirstPosition, LeastOf
  <2> QED
    BY <2>1, <2>2, <2>4
<1> DEFINE I == DOMAIN queue \ {i}
           k == queue[i].request.key
<1>3. \A x \in Keys : /\ pending'[x] \in {None, pending[x]}
                      /\ x # k => pending'[x] = pending[x]
                      /\ pending'[x] # None => x # k
  BY <1>1, <1>2 DEF PendingMap
<1>4. ASSUME NEW j \in I
      PROVE  pending'[queue[j].request.key] # None
  <2>1. queue[j].request.key # k
    BY DEF Agreement, Agrees, Mirror
  <2> QED
    BY <1>1, <1>3, <2>1, MirroredFacts DEF Agreement, Agrees
<1>5. \A x \in Keys : pending'[x] # None =>
        \A j \in DOMAIN queue : queue[j].request.key = x => j \in I
  BY <1>3
<1>6. I \in SUBSET (DOMAIN queue) /\ queue' = KeepAt(queue, I)
  BY <1>2
<1> HIDE DEF I, k
<1>7. Agrees(pending', queue', inFlight)
  BY <1>1, <1>3, <1>4, <1>5, <1>6, AgreesKept DEF Agreement
<1> QED
  BY <1>2, <1>7, AgreementPrimed

LEMMA ExpireAgrees ==
    ASSUME TypeOK, TypeOK', Agreement, ExpirePlaybackCurrent
    PROVE  Agreement'
<1>1. pending \in PendingMap /\ queue \in Seq(QueuedWork)
  BY TypeParts
<1>2. PICK expired : \E I \in SUBSET (DOMAIN queue) :
        /\ pending' = [k \in Keys |-> IF k \in expired THEN None ELSE pending[k]]
        /\ \A i \in DOMAIN queue : i \in I <=> queue[i].request.key \notin expired
        /\ queue' = KeepAt(queue, I)
  <2> DEFINE expires(p) ==
                /\ p.binding.priority = "Current"
                /\ p.binding.workClass = "Playback"
                /\ p.binding.generation >= latestGeneration
                /\ IF p.deadlineAt = None THEN Now - p.requestedAt >= MaxAge
                   ELSE p.deadlineAt <= Now
             expired == {k \in PendingKeys(pending) : expires(pending[k])}
             I == Positions(queue, LAMBDA w : w.request.key \notin expired)
  <2>1. /\ pending' = [k \in Keys |-> IF k \in expired THEN None ELSE pending[k]]
        /\ queue' = KeepAt(queue, I)
    BY DEF ExpirePlaybackCurrent
  <2>2. /\ I \in SUBSET (DOMAIN queue)
        /\ \A i \in DOMAIN queue : i \in I <=> queue[i].request.key \notin expired
    BY DEF Positions
  <2> HIDE DEF expired, I
  <2> QED
    BY <2>1, <2>2
<1>3. PICK I \in SUBSET (DOMAIN queue) :
        /\ pending' = [k \in Keys |-> IF k \in expired THEN None ELSE pending[k]]
        /\ \A i \in DOMAIN queue : i \in I <=> queue[i].request.key \notin expired
        /\ queue' = KeepAt(queue, I)
  BY <1>2
<1>4. \A k \in Keys : /\ pending'[k] \in {None, pending[k]}
                      /\ k \notin expired => pending'[k] = pending[k]
                      /\ pending'[k] # None => k \notin expired
  BY <1>3
<1>5. \A i \in I : pending'[queue[i].request.key] # None
  BY <1>1, <1>3, <1>4, MirroredFacts DEF Agreement, Agrees
<1>6. \A k \in Keys : pending'[k] # None =>
        \A i \in DOMAIN queue : queue[i].request.key = k => i \in I
  BY <1>3, <1>4
<1>7. Agrees(pending', queue', inFlight)
  BY <1>1, <1>3, <1>4, <1>5, <1>6, AgreesKept DEF Agreement
<1> QED
  BY <1>7, DemandContinues, ContinuesAgrees

LEMMA SynchronizeAgrees ==
    ASSUME TypeOK, TypeOK', Agreement, NEW active \in Demands,
           SynchronizePlaybackCurrentDemand(active)
    PROVE  Agreement'
<1> DEFINE rebound(e) ==
                /\ pending[e.key] # None
                /\ pending[e.key].binding.generation >= latestGeneration
                /\ pending[e.key].binding.workClass = e.workClass
                /\ pending[e.key].binding.resourceScope = e.resourceScope
                /\ pending[e.key].binding.demandIdentity = active
           detaches(e) ==
                /\ e.priority = "Current"
                /\ e.demandIdentity \notin {None, active}
                /\ ~rebound(e)
                /\ RetainsPlaybackLocality(e)
                /\ Undisturbed(e)
           leases == [l \in Leases |->
                IF inFlight[l] # None /\ detaches(inFlight[l])
                THEN [inFlight[l] EXCEPT !.presentationBindingExpired = TRUE]
                ELSE inFlight[l]]
           superseded(w) == /\ w.request.priority = "Current"
                            /\ w.request.workClass = "Playback"
                            /\ w.request.demandIdentity \notin {None, active}
           dropped(k) ==
                /\ \E i \in DOMAIN queue : superseded(queue[i]) /\ queue[i].request.key = k
                /\ pending[k] # None
                /\ PlaybackCurrentBindingIsSuperseded(active, pending[k].binding)
                /\ ~\E l \in InFlightIn(leases) :
                    /\ leases[l].key = k
                    /\ leases[l].workClass = pending[k].binding.workClass
                    /\ leases[l].resourceScope = pending[k].binding.resourceScope
           I == Positions(queue, LAMBDA w : ~superseded(w))
<1>1. /\ pending \in PendingMap
      /\ queue \in Seq(QueuedWork)
      /\ inFlight \in LeaseMap
      /\ Mirror(pending, queue)
  BY TypeParts DEF Agreement, Agrees
<1>2. /\ queue' = KeepAt(queue, I)
      /\ pending' = [k \in Keys |-> IF dropped(k) THEN None ELSE pending[k]]
  BY ZenonT(30) DEF SynchronizePlaybackCurrentDemand
<1>3. Survives(inFlight, leases)
  <2> HIDE DEF detaches
  <2> DEFINE D == {l \in Leases : detaches(inFlight[l])}
  <2>1. leases = [l \in Leases |->
                    IF inFlight[l] # None /\ l \in D
                    THEN [inFlight[l] EXCEPT !.presentationBindingExpired = TRUE]
                    ELSE inFlight[l]]
    OBVIOUS
  <2> HIDE DEF D
  <2> QED
    BY <1>1, <2>1, DetachSurvives
<1> HIDE DEF leases
<1>4. /\ I \in SUBSET (DOMAIN queue)
      /\ \A i \in DOMAIN queue : i \in I <=> ~superseded(queue[i])
  BY DEF Positions
<1> HIDE DEF I
<1>5. ASSUME NEW i \in I
      PROVE  pending'[queue[i].request.key] # None
  <2>1. i \in DOMAIN queue /\ ~superseded(queue[i])
    BY <1>4
  <2>2. queue[i].request.key \in Keys /\ pending[queue[i].request.key] # None
    BY <1>1, <2>1, MirroredFacts
  <2>3. \A j \in DOMAIN queue : queue[j].request.key = queue[i].request.key => j = i
    BY <1>1, <2>1 DEF Mirror
  <2> HIDE DEF superseded
  <2>4. ~dropped(queue[i].request.key)
    BY <2>1, <2>3
  <2> HIDE DEF dropped
  <2> QED
    BY <1>2, <2>2, <2>4
<1>6. ASSUME NEW k \in Keys, pending'[k] # None,
             NEW i \in DOMAIN queue, queue[i].request.key = k, i \notin I
      PROVE  HasLease(inFlight, k)
  <2>1. superseded(queue[i])
    BY <1>4, <1>6
  <2>2. /\ pending[k] # None
        /\ pending[k].binding.priority = queue[i].request.priority
        /\ pending[k].binding.workClass = queue[i].request.workClass
        /\ pending[k].binding.demandIdentity = queue[i].request.demandIdentity
    BY <1>1, <1>6, MirroredFacts
  <2>3. active # None
    BY NoneAssumption
  <2>4. PlaybackCurrentBindingIsSuperseded(active, pending[k].binding)
    BY <2>1, <2>2, <2>3 DEF PlaybackCurrentBindingIsSuperseded
  <2> HIDE DEF superseded
  <2>5. ~dropped(k)
    BY <1>2, <1>6
  <2>6. PICK l \in InFlightIn(leases) : leases[l].key = k
    BY <1>6, <2>1, <2>2, <2>4, <2>5
  <2> QED
    BY <1>3, <2>6 DEF InFlightIn, Survives, Sticks, HasLease
<1>7. \A k \in Keys : pending'[k] \in {None, pending[k]}
  BY <1>2
<1> HIDE DEF superseded, dropped
<1>8. \A k \in Keys : pending'[k] # None =>
        \/ \A i \in DOMAIN queue : queue[i].request.key = k => i \in I
        \/ HasLease(inFlight, k)
  BY <1>6
<1>9. Agrees(pending', KeepAt(queue, I), inFlight)
  BY <1>1, <1>4, <1>5, <1>7, <1>8, AgreesKept DEF Agreement
<1>10. Continues
  BY DemandContinues
<1> QED
  BY <1>2, <1>9, <1>10, ContinuesAgrees

LEMMA DequeueAgrees ==
    ASSUME TypeOK, TypeOK', Agreement, NEW lane \in Lanes, Dequeue(lane)
    PROVE  Agreement'
<1>1. pending \in PendingMap /\ queue \in Seq(QueuedWork) /\ pending' = pending
  BY TypeParts DEF Dequeue
<1>2. PICK i \in DOMAIN queue :
        /\ queue' = KeepAt(queue, DOMAIN queue \ {i})
        /\ Lives(inFlight, inFlight')
        /\ \E l \in Leases :
            /\ inFlight[l] = None
            /\ inFlight'[l] # None
            /\ inFlight'[l].key = queue[i].request.key
            /\ \A x \in Leases \ {l} : inFlight'[x] # None =>
                inFlight[x] # None /\ Sticks(inFlight[x], inFlight'[x])
  BY DequeueTakesSlot
<1>3. PICK l \in Leases :
        /\ inFlight[l] = None
        /\ inFlight'[l] # None
        /\ inFlight'[l].key = queue[i].request.key
        /\ \A x \in Leases \ {l} : inFlight'[x] # None =>
            inFlight[x] # None /\ Sticks(inFlight[x], inFlight'[x])
  BY <1>2
<1>4. \A k \in Keys : HasLease(inFlight, k) => HasLease(inFlight', k)
  BY <1>2, <1>3 DEF HasLease, Lives, Sticks
<1>5. Agrees(pending, queue, inFlight')
  BY <1>4, AgreesLeases DEF Agreement
<1>6. HasLease(inFlight', queue[i].request.key)
  BY <1>3 DEF HasLease
<1> DEFINE I == DOMAIN queue \ {i}
<1>7. \A k \in Keys : pending[k] # None =>
        \/ \A j \in DOMAIN queue : queue[j].request.key = k => j \in I
        \/ HasLease(inFlight', k)
  BY <1>6
<1>8. \A j \in I : pending[queue[j].request.key] # None
  BY <1>1, MirroredFacts DEF Agreement, Agrees
<1>9. I \in SUBSET (DOMAIN queue) /\ queue' = KeepAt(queue, I)
  BY <1>2
<1> HIDE DEF I
<1>10. Agrees(pending, queue', inFlight')
  BY <1>1, <1>5, <1>7, <1>8, <1>9, AgreesKept
<1> QED
  BY <1>1, <1>10, AgreementPrimed

\* Settling takes a payload only with its binding, and a binding only when no
\* payload is left behind.
LEMMA ResolveLockedTakes ==
    ASSUME NEW e, NEW fl, NEW reusable, queue \in Seq(QueuedWork),
           pending \in PendingMap, Mirror(pending, queue), e.key \in Keys
    PROVE  LET o == ResolveLocked(e, fl, reusable) IN
           /\ o.takesQueued => o.takesPending
           /\ o.takesPending /\ ~o.takesQueued => ~HasQueued(queue, e.key)
<1> DEFINE o == ResolveLocked(e, fl, reusable)
           fallback == HasPreemptedFallback(latestGeneration, pending, queue, fl, e)
<1>1. ASSUME HasQueued(queue, e.key)
      PROVE  fallback
  <2>1. PICK i \in DOMAIN queue : queue[i].request.key = e.key
    BY <1>1 DEF HasQueued
  <2>2. /\ pending[e.key] # None
        /\ QueuedMatchesBinding(queue[i], e.key, pending[e.key].binding)
    BY <2>1, MirroredFacts
  <2> QED
    BY <2>2 DEF HasPreemptedFallback
<1>2. CASE BudgetExpiredBeforeCompletion(e)
  <2>1. /\ o.takesPending =
            (HasExactPendingBinding(latestGeneration, pending, e) /\ ~fallback)
        /\ o.takesQueued = FALSE
    BY <1>2 DEF ResolveLocked
  <2> QED
    BY <1>1, <2>1
<1>3. CASE ~BudgetExpiredBeforeCompletion(e) /\ e.preemptedAt # None
  <2>1. o.takesPending = ~fallback /\ o.takesQueued = FALSE
    BY <1>3 DEF ResolveLocked
  <2> QED
    BY <1>1, <2>1
<1>4. CASE ~BudgetExpiredBeforeCompletion(e) /\ e.preemptedAt = None
  <2>1. \/ o.takesPending = FALSE /\ o.takesQueued = FALSE
        \/ o.takesPending = TRUE /\ o.takesQueued = TRUE
    BY <1>4 DEF ResolveLocked
  <2> QED
    BY <2>1
<1> QED
  BY <1>2, <1>3, <1>4

LEMMA SettleAgrees ==
    ASSUME TypeOK, TypeOK', Agreement, NEW e, e.key \in Keys, NEW fl \in LeaseMap,
           \A x \in Keys \ {e.key} : HasLease(inFlight, x) => HasLease(fl, x),
           NEW reusable, Settle(e, fl, reusable)
    PROVE  Agreement'
<1> DEFINE o == ResolveLocked(e, fl, reusable)
           k == e.key
           pend == IF o.takesPending THEN [pending EXCEPT ![k] = None] ELSE pending
           q == IF o.takesQueued THEN WithoutKey(queue, k) ELSE queue
<1>1. /\ pending \in PendingMap
      /\ queue \in Seq(QueuedWork)
      /\ Mirror(pending, queue)
  BY TypeParts DEF Agreement, Agrees
<1>2. queue' = q /\ pending' = WithoutOrphan(pend, q, fl, k) /\ RefreshFrom(fl)
  BY DEF Settle
<1>3. /\ o.takesQueued => o.takesPending
      /\ o.takesPending /\ ~o.takesQueued => ~HasQueued(queue, k)
  BY <1>1, ResolveLockedTakes
<1> HIDE DEF o
<1>4. Agrees(pend, q, inFlight) /\ pend \in PendingMap /\ q \in Seq(QueuedWork)
  <2>1. CASE o.takesQueued
    BY <1>1, <1>3, <2>1, WithoutKeyAgrees, PendingEditsType, QueueEditsType
       DEF Agreement
  <2>2. CASE ~o.takesQueued
    BY <1>1, <1>3, <2>2, DropAgrees, PendingEditsType DEF Agreement
  <2> QED
    BY <2>1, <2>2
<1> HIDE DEF pend, q
<1>5. Agrees(pending', queue', fl)
  BY <1>2, <1>4, SweepAgrees
<1>6. Survives(fl, inFlight') /\ Lives(fl, inFlight')
  <2>1. pending' \in PendingMap
    BY DEF TypeOK, PendingMap
  <2> QED
    BY <1>2, <2>1, NowType, RefreshedSurvives DEF RefreshFrom
<1> QED
  BY <1>5, <1>6, AgreesContinues, AgreementPrimed

\* Freeing a lease takes work from its key only.
LEMMA FreedLeases ==
    ASSUME NEW fl \in LeaseMap, NEW l \in Leases, fl[l] # None,
           NEW k \in Keys \ {fl[l].key}, HasLease(fl, k)
    PROVE  HasLease([fl EXCEPT ![l] = None], k)
BY DEF HasLease, LeaseMap

LEMMA CompletionAgrees ==
    ASSUME TypeOK, TypeOK', Agreement, CompletionStep
    PROVE  Agreement'
<1>1. ASSUME NEW l \in Leases, NEW reusable \in BOOLEAN,
             ResolveExecution(l, reusable)
      PROVE  Agreement'
  <2> DEFINE e == [inFlight[l] EXCEPT !.completedAt = GetOrInsert(@, Now)]
             fl == [inFlight EXCEPT ![l] = None]
  <2>1. inFlight[l] # None /\ Settle(e, fl, reusable)
    BY <1>1 DEF ResolveExecution
  <2>2. inFlight \in LeaseMap /\ fl \in LeaseMap /\ inFlight[l] \in InFlightWork
    BY <2>1, TypeParts, FreedType DEF LeaseMap, Option
  <2>3. e.key = inFlight[l].key /\ e.key \in Keys
    BY <2>2 DEF InFlightWork
  <2>4. \A x \in Keys \ {e.key} : HasLease(inFlight, x) => HasLease(fl, x)
    BY <2>1, <2>2, <2>3, FreedLeases
  <2> HIDE DEF e, fl
  <2> QED
    BY <2>1, <2>2, <2>3, <2>4, SettleAgrees
<1>2. ASSUME NEW r \in Requests, NEW reusable \in BOOLEAN,
             ResolveUnleased(r.key, r.generation, r.workClass, r.resourceScope,
                             r.demandIdentity, reusable)
      PROVE  Agreement'
  <2>1. r.key \in Keys /\ inFlight \in LeaseMap
    BY InputAssumption, TypeParts DEF Request
  <2>2. PICK e : e.key = r.key /\ Settle(e, inFlight, reusable)
    BY <1>2 DEF ResolveUnleased
  <2> QED
    BY <2>1, <2>2, SettleAgrees
<1> QED
  BY <1>1, <1>2 DEF CompletionStep

LEMMA AbandonAgrees ==
    ASSUME TypeOK, TypeOK', Agreement, NEW l \in Leases, AbandonExecution(l)
    PROVE  Agreement'
<1>1. /\ inFlight[l] # None
      /\ inFlight' = [inFlight EXCEPT ![l] = None]
      /\ pending' = WithoutOrphan(pending, queue, inFlight', inFlight[l].key)
      /\ queue' = queue
  BY DEF AbandonExecution
<1>2. /\ pending \in PendingMap
      /\ queue \in Seq(QueuedWork)
      /\ inFlight \in LeaseMap
  BY TypeParts
<1>3. inFlight[l].key \in Keys
  BY <1>1, <1>2 DEF LeaseMap, Option, InFlightWork
<1>4. \A x \in Keys \ {inFlight[l].key} :
        HasLease(inFlight, x) => HasLease(inFlight', x)
  BY <1>1, <1>2, FreedLeases
<1>5. Agrees(pending', queue', inFlight')
  BY <1>1, <1>2, <1>3, <1>4, SweepAgrees DEF Agreement
<1> QED
  BY <1>5, AgreementPrimed

-----------------------------------------------------------------------------
(* The views agree across a rotation.                                      *)

LEMMA RotateToAgrees ==
    ASSUME NEW latest \in Nat, NEW pend \in PendingMap,
           NEW q \in Seq(QueuedWork), NEW fl, RotateTo(latest, pend, q, fl),
           Agrees(pend, q, inFlight), Continues
    PROVE  Agreement'
<1>1. /\ pending' = PrunedPending(pend, latest)
      /\ queue' = PrunedQueue(q, latest)
  BY DEF RotateTo
<1> QED
  BY <1>1, PrunedAgrees, ContinuesAgrees

\* Rebinding the locality-preserving payloads to the new generation rebinds
\* their bindings with them: a key has one payload, so its last one is it.
LEMMA ReboundAgrees ==
    ASSUME TypeOK, Agreement, NEW pend \in PendingMap, NEW q \in Seq(QueuedWork),
           Len(q) = Len(queue),
           \A i \in DOMAIN queue : q[i] =
                IF RetainsPlaybackLocality(queue[i].request)
                THEN [queue[i] EXCEPT !.request.generation = latestGeneration + 1]
                ELSE queue[i],
           \A k \in Keys :
                IF pending[k] # None /\ LocalPositions(k) # {}
                THEN \E i \in LocalPositions(k) :
                    pend[k] = [pending[k] EXCEPT !.binding =
                                    BindingFor(q[i].request)]
                ELSE pend[k] = pending[k]
    PROVE  Agrees(pend, q, inFlight)
<1>1. /\ pending \in PendingMap
      /\ queue \in Seq(QueuedWork)
      /\ Mirror(pending, queue)
      /\ Owned(pending, queue, inFlight)
      /\ DOMAIN q = DOMAIN queue
  BY TypeParts DEF Agreement, Agrees
<1>2. ASSUME NEW i \in DOMAIN queue
      PROVE  /\ queue[i] \in QueuedWork /\ q[i] \in QueuedWork
             /\ q[i].request.key = queue[i].request.key
             /\ q[i].deadlineAt = queue[i].deadlineAt
             /\ q[i].request.inFlightDeadlinePolicy =
                    queue[i].request.inFlightDeadlinePolicy
             /\ q[i].request.executionCancellationBudget =
                    queue[i].request.executionCancellationBudget
  <2>1. queue[i] \in QueuedWork /\ q[i] \in QueuedWork
    BY <1>1
  <2>2. queue[i].request \in Request
    BY <2>1 DEF QueuedWork
  <2>3. CASE RetainsPlaybackLocality(queue[i].request)
    <3>1. q[i] = [queue[i] EXCEPT !.request.generation = latestGeneration + 1]
      BY <2>3
    <3>2. q[i].request = [queue[i].request EXCEPT !.generation = latestGeneration + 1]
          /\ q[i].deadlineAt = queue[i].deadlineAt
      BY <2>1, <3>1 DEF QueuedWork
    <3> QED
      BY <2>1, <2>2, <3>2 DEF Request
  <2>4. CASE ~RetainsPlaybackLocality(queue[i].request)
    BY <2>1, <2>4
  <2> QED
    BY <2>3, <2>4
<1>3. \A i, j \in DOMAIN q : q[i].request.key = q[j].request.key => i = j
  BY <1>1, <1>2 DEF Mirror
<1>4. ASSUME NEW i \in DOMAIN q
      PROVE  Mirrors(pend[q[i].request.key], q[i])
  <2> DEFINE k == queue[i].request.key
  <2>1. /\ i \in DOMAIN queue
        /\ k \in Keys /\ q[i].request.key = k
        /\ pending[k] # None
        /\ Mirrors(pending[k], queue[i])
    <3>1. i \in DOMAIN queue
      BY <1>1
    <3>2. k \in Keys /\ pending[k] # None
      BY <1>1, <3>1, MirroredFacts
    <3>3. q[i].request.key = k
      BY <1>2, <3>1
    <3>4. Mirrors(pending[k], queue[i])
      BY <1>1, <3>1 DEF Mirror
    <3> QED
      BY <3>1, <3>2, <3>3, <3>4
  <2>2. pending[k] \in PendingBinding
    BY <1>1, <2>1 DEF PendingMap, Option
  <2>3. LocalPositions(k) \in SUBSET {i}
    BY <1>1, <2>1 DEF LocalPositions, Mirror
  <2>4. i \in LocalPositions(k) <=> RetainsPlaybackLocality(queue[i].request)
    BY <2>1 DEF LocalPositions
  <2> HIDE DEF k
  <2>5. CASE RetainsPlaybackLocality(queue[i].request)
    <3>1. pend[k] = [pending[k] EXCEPT !.binding = BindingFor(q[i].request)]
      <4>1. LocalPositions(k) # {}
        BY <2>4, <2>5
      <4>2. PICK j \in LocalPositions(k) :
                pend[k] = [pending[k] EXCEPT !.binding = BindingFor(q[j].request)]
        BY <2>1, <4>1
      <4>3. j = i
        BY <2>3, <4>2
      <4> QED
        BY <4>2, <4>3
    <3>2. pend[k].binding = BindingFor(q[i].request)
          /\ pend[k].deadlineAt = pending[k].deadlineAt
          /\ pend[k].inFlightDeadlinePolicy = pending[k].inFlightDeadlinePolicy
          /\ pend[k].executionCancellationBudget =
                pending[k].executionCancellationBudget
      BY <2>2, <3>1 DEF PendingBinding
    <3>3. pend[k] # None
      <4>1. BindingFor(q[i].request) \in Binding
        <5>1. q[i].request \in Request
          BY <1>2, <2>1 DEF QueuedWork
        <5> QED
          BY <5>1 DEF BindingFor, Binding, Request
      <4>2. pend[k] \in PendingBinding
        BY <2>2, <3>1, <4>1 DEF PendingBinding
      <4> QED
        BY <4>2, NoneAssumption
    <3> QED
      BY <1>2, <2>1, <3>2, <3>3 DEF Mirrors
  <2>6. CASE ~RetainsPlaybackLocality(queue[i].request)
    <3>1. LocalPositions(k) = {}
      BY <2>3, <2>4, <2>6
    <3>2. pend[k] = pending[k] /\ q[i] = queue[i]
      BY <2>1, <2>6, <3>1
    <3> QED
      BY <2>1, <3>2
  <2> QED
    BY <2>5, <2>6
<1>5. ASSUME NEW k \in Keys, pend[k] # None
      PROVE  HasQueued(q, k) \/ HasLease(inFlight, k)
  <2>1. pending[k] # None
    BY <1>5
  <2>2. HasQueued(queue, k) => HasQueued(q, k)
    BY <1>1, <1>2 DEF HasQueued
  <2> QED
    BY <1>1, <2>1, <2>2 DEF Owned
<1> QED
  BY <1>3, <1>4, <1>5 DEF Agrees, Mirror, Owned

LEMMA RotationAgrees ==
    ASSUME TypeOK, TypeOK', Agreement, Rotation
    PROVE  Agreement'
<1>1. /\ pending \in PendingMap
      /\ queue \in Seq(QueuedWork)
      /\ latestGeneration \in Nat /\ latestGeneration + 1 \in Nat
      /\ Continues
  BY TypeParts, BoundsAssumption, RotationContinues DEF Generations
<1>2. CASE BeginGeneration \/ BeginGenerationPreservingInFlightPlaybackLocality
  <2>1. PICK fl : RotateTo(latestGeneration + 1, pending, queue, fl)
    BY <1>2 DEF BeginGeneration, BeginGenerationPreservingInFlightPlaybackLocality
  <2> QED
    BY <1>1, <2>1, RotateToAgrees DEF Agreement
<1>3. CASE BeginGenerationPreservingPlaybackLocality
  <2>1. PICK pend \in PendingMap, q \in Seq(QueuedWork) :
            /\ RotateTo(latestGeneration + 1, pend, q, DetachedLocality(inFlight))
            /\ Len(q) = Len(queue)
            /\ \A i \in DOMAIN queue : q[i] =
                    IF RetainsPlaybackLocality(queue[i].request)
                    THEN [queue[i] EXCEPT !.request.generation =
                            latestGeneration + 1]
                    ELSE queue[i]
            /\ \A k \in Keys :
                    IF pending[k] # None /\ LocalPositions(k) # {}
                    THEN \E i \in LocalPositions(k) :
                        pend[k] = [pending[k] EXCEPT !.binding =
                                        BindingFor(q[i].request)]
                    ELSE pend[k] = pending[k]
    BY <1>3, PreservingRotates
  <2>2. Agrees(pend, q, inFlight)
    BY <2>1, ReboundAgrees
  <2> QED
    BY <1>1, <2>1, <2>2, RotateToAgrees
<1>4. CASE \E g \in Generations : PruneBefore(g)
  <2>1. PICK latest \in Nat : RotateTo(latest, pending, queue, inFlight)
    BY <1>1, <1>4, BoundsAssumption DEF PruneBefore, Generations
  <2> QED
    BY <1>1, <2>1, RotateToAgrees DEF Agreement
<1>5. CASE PruneObsolete
  <2>1. /\ pending' = PrunedPending(pending, latestGeneration)
        /\ queue' = PrunedQueue(queue, latestGeneration)
    BY <1>5 DEF PruneObsolete
  <2> QED
    BY <1>1, <2>1, PrunedAgrees, ContinuesAgrees DEF Agreement
<1> QED
  BY <1>2, <1>3, <1>4, <1>5 DEF Rotation

-----------------------------------------------------------------------------
(* The views agree across an admission.                                    *)

\* What is bound and what is queued for a request are the same work.
LEMMA SubmittedMirrors ==
    ASSUME TypeOK, NEW r \in Request, NEW t \in Nat
    PROVE  /\ Mirrors(PendingFor(r, t), QueuedFor(r))
           /\ QueuedFor(r).request = r
<1>1. PendingFor(r, t) # None
  BY RequestTypes, NoneAssumption
<1>2. QueuedFor(r).request = r
  BY DEF QueuedFor
<1> QED
  BY <1>1, <1>2 DEF Mirrors, PendingFor, QueuedFor

\* A key without a payload gets its binding and its payload together.
LEMMA AppendAgrees ==
    ASSUME NEW q \in Seq(QueuedWork), NEW pend \in PendingMap, NEW fl,
           Agrees(pend, q, fl), NEW bound, NEW w \in QueuedWork,
           Mirrors(bound, w), ~HasQueued(q, w.request.key)
    PROVE  Agrees([pend EXCEPT ![w.request.key] = bound], Append(q, w), fl)
<1> DEFINE k == w.request.key
           new == [pend EXCEPT ![k] = bound]
           p == Append(q, w)
<1>1. k \in Keys
  BY DEF QueuedWork, Request
<1>2. new[k] = bound /\ \A x \in Keys : x # k => new[x] = pend[x]
  BY <1>1 DEF PendingMap
<1>3. /\ \A n \in DOMAIN q : n \in DOMAIN p /\ p[n] = q[n]
      /\ Len(q) + 1 \in DOMAIN p /\ p[Len(q) + 1] = w
      /\ \A n \in DOMAIN p : n \in DOMAIN q \/ n = Len(q) + 1
  OBVIOUS
<1>4. \A n \in DOMAIN q : q[n].request.key \in Keys /\ q[n].request.key # k
  BY MirroredFacts DEF Agrees, HasQueued
<1> HIDE DEF p, new
<1>5. \A m, n \in DOMAIN p : p[m].request.key = p[n].request.key => m = n
  BY <1>3, <1>4 DEF Agrees, Mirror
<1>6. \A n \in DOMAIN p : Mirrors(new[p[n].request.key], p[n])
  BY <1>2, <1>3, <1>4 DEF Agrees, Mirror
<1>7. ASSUME NEW x \in Keys, new[x] # None
      PROVE  HasQueued(p, x) \/ HasLease(fl, x)
  <2>1. CASE x = k
    BY <1>3, <2>1 DEF HasQueued
  <2>2. CASE x # k
    BY <1>2, <1>3, <1>7, <2>2 DEF Agrees, Owned, HasQueued
  <2> QED
    BY <2>1, <2>2
<1>8. Agrees(new, p, fl)
  BY <1>5, <1>6, <1>7 DEF Agrees, Mirror, Owned
<1> QED
  BY <1>8 DEF new, p

\* A key with a payload gets both replaced.
LEMMA ReplaceAgrees ==
    ASSUME NEW q \in Seq(QueuedWork), NEW pend \in PendingMap, NEW fl,
           Agrees(pend, q, fl), NEW bound, NEW w \in QueuedWork,
           Mirrors(bound, w), NEW i \in DOMAIN q,
           q[i].request.key = w.request.key
    PROVE  Agrees([pend EXCEPT ![w.request.key] = bound], [q EXCEPT ![i] = w], fl)
<1> DEFINE k == w.request.key
           new == [pend EXCEPT ![k] = bound]
           p == [q EXCEPT ![i] = w]
<1>1. k \in Keys
  BY DEF QueuedWork, Request
<1>2. new[k] = bound /\ \A x \in Keys : x # k => new[x] = pend[x]
  BY <1>1 DEF PendingMap
<1>3. /\ DOMAIN p = DOMAIN q
      /\ p[i] = w
      /\ \A n \in DOMAIN q : n # i => p[n] = q[n]
      /\ \A n \in DOMAIN q : p[n].request.key = q[n].request.key
  OBVIOUS
<1>4. \A n \in DOMAIN q : /\ q[n].request.key \in Keys
                          /\ n # i => q[n].request.key # k
  BY MirroredFacts DEF Agrees, Mirror
<1> HIDE DEF p, new
<1>5. \A m, n \in DOMAIN p : p[m].request.key = p[n].request.key => m = n
  BY <1>3 DEF Agrees, Mirror
<1>6. \A n \in DOMAIN p : Mirrors(new[p[n].request.key], p[n])
  BY <1>2, <1>3, <1>4 DEF Agrees, Mirror
<1>7. ASSUME NEW x \in Keys, new[x] # None
      PROVE  HasQueued(p, x) \/ HasLease(fl, x)
  <2>1. CASE x = k
    BY <1>3, <2>1 DEF HasQueued
  <2>2. CASE x # k
    BY <1>2, <1>3, <1>7, <2>2 DEF Agrees, Owned, HasQueued
  <2> QED
    BY <2>1, <2>2
<1>8. Agrees(new, p, fl)
  BY <1>5, <1>6, <1>7 DEF Agrees, Mirror, Owned
<1> QED
  BY <1>8 DEF new, p

\* A key that only runs may be bound anew.
LEMMA RebindAgrees ==
    ASSUME NEW q \in Seq(QueuedWork), NEW pend \in PendingMap, NEW fl,
           Agrees(pend, q, fl), NEW bound, NEW k \in Keys,
           ~HasQueued(q, k), HasLease(fl, k)
    PROVE  Agrees([pend EXCEPT ![k] = bound], q, fl)
<1> DEFINE new == [pend EXCEPT ![k] = bound]
<1>1. \A x \in Keys : x # k => new[x] = pend[x]
  BY DEF PendingMap
<1>2. \A n \in DOMAIN q : q[n].request.key \in Keys /\ q[n].request.key # k
  BY MirroredFacts DEF Agrees, HasQueued
<1> HIDE DEF new
<1>3. Agrees(new, q, fl)
  BY <1>1, <1>2 DEF Agrees, Mirror, Owned
<1> QED
  BY <1>3 DEF new

LEMMA PushAgrees ==
    ASSUME TypeOK, TypeOK', NEW pend \in PendingMap, NEW q \in Seq(QueuedWork),
           NEW fl \in LeaseMap, NEW r \in Request, NEW k,
           Survives(inFlight, fl), Lives(inFlight, fl),
           PushAfterEviction(pend, q, fl, r, k),
           Agrees(pend, q, inFlight), ~HasQueued(q, r.key)
    PROVE  Agreement'
<1> DEFINE kept == Evicted(pend, k)
           p == EvictedQueue(q, k)
<1>1. Continues
  BY PushContinues
<1>2. /\ pending' = [kept EXCEPT ![r.key] = PendingFor(r, Now)]
      /\ queue' = Append(p, QueuedFor(r))
  BY DEF PushAfterEviction
<1>3. Agrees(kept, p, inFlight)
  BY WithoutKeyAgrees DEF Evicted, EvictedQueue
<1>4. kept \in PendingMap /\ p \in Seq(QueuedWork)
  BY PendingEditsType, QueueEditsType
<1>5. \A n \in DOMAIN p : \E i \in DOMAIN q : p[n] = q[i]
  BY WithoutKeyRetains DEF EvictedQueue
<1> HIDE DEF kept, p
<1>6. ~HasQueued(p, r.key)
  BY <1>5 DEF HasQueued
<1>7. /\ QueuedFor(r) \in QueuedWork
      /\ QueuedFor(r).request = r
      /\ Mirrors(PendingFor(r, Now), QueuedFor(r))
  BY NowType, RequestTypes, SubmittedMirrors
<1>8. Agrees(pending', queue', inFlight)
  BY <1>2, <1>3, <1>4, <1>6, <1>7, AppendAgrees
<1> QED
  BY <1>1, <1>8, ContinuesAgrees

LEMMA FirstPositionIn ==
    ASSUME NEW q \in Seq(QueuedWork), NEW I \in SUBSET (DOMAIN q), I # {}
    PROVE  FirstPosition(I) \in I
<1>1. I \in SUBSET Nat
  OBVIOUS
<1> QED
  BY <1>1, LeastOfIn DEF FirstPosition, LeastOf

\* A key that is bound: its payload, its lease, or a new fallback carries the
\* new binding, and on backpressure nothing changes.
LEMMA ResubmitAgrees ==
    ASSUME TypeOK, TypeOK', Agreement, Continues, NEW r0 \in Request,
           pending[r0.key] # None, Resubmit(r0)
    PROVE  Agreement'
<1> DEFINE previous == pending[r0.key]
           r == Promoted(previous, r0)
           leases == RestoredDemandBinding(activePlaybackDemand, inFlight, r.key,
                                           BindingFor(r))
           queued == Positions(queue, LAMBDA w : w.request.key = r.key)
           reusable ==
                /\ previous.binding.workClass = r.workClass
                /\ \E l \in InFlightIn(leases) :
                    ExecutionMatchesBinding(leases[l], r.key, BindingFor(r))
           bound == PendingFor(r, RequestedAt(previous, r))
<1>1. /\ pending \in PendingMap
      /\ queue \in Seq(QueuedWork)
      /\ inFlight \in LeaseMap
      /\ Agrees(pending, queue, inFlight)
  BY TypeParts DEF Agreement
<1>2. previous \in PendingBinding /\ r \in Request
  <2>1. r0.key \in Keys
    BY DEF Request
  <2>2. previous \in PendingBinding
    BY <1>1, <2>1 DEF PendingMap, Option
  <2> QED
    BY <2>2, PromotedType
<1>3. /\ leases \in LeaseMap
      /\ Survives(inFlight, leases)
      /\ Lives(inFlight, leases)
  BY <1>1, NowType, RestoredDemandBindingType, LeaseEditsSurvive
<1>4. /\ queued \in SUBSET (DOMAIN queue)
      /\ \A i \in DOMAIN queue : i \in queued <=> queue[i].request.key = r.key
  BY DEF Positions
<1>5. /\ QueuedFor(r) \in QueuedWork
      /\ QueuedFor(r).request = r
      /\ Mirrors(bound, QueuedFor(r))
  BY <1>2, NowType, RequestTypes, RequestedAtType, SubmittedMirrors
<1>6. reusable => HasLease(leases, r.key)
  BY DEF InFlightIn, ExecutionMatchesBinding, HasLease
<1>7. \/ /\ queued # {}
         /\ pending' = [pending EXCEPT ![r.key] = bound]
         /\ queue' = [queue EXCEPT ![FirstPosition(queued)] = QueuedFor(r)]
      \/ /\ queued = {} /\ reusable
         /\ pending' = [pending EXCEPT ![r.key] = bound]
         /\ queue' = queue
      \/ /\ queued = {}
         /\ \E k : PushAfterEviction(pending, queue, leases, r, k)
      \/ UNCHANGED <<pending, queue>>
  BY DEF Resubmit
<1> HIDE DEF previous, r, leases, queued, reusable, bound
<1>8. queued = {} => ~HasQueued(queue, r.key)
  BY <1>4 DEF HasQueued
<1>9. CASE /\ queued # {}
           /\ pending' = [pending EXCEPT ![r.key] = bound]
           /\ queue' = [queue EXCEPT ![FirstPosition(queued)] = QueuedFor(r)]
  <2>1. FirstPosition(queued) \in queued
    BY <1>1, <1>4, <1>9, FirstPositionIn
  <2>2. /\ FirstPosition(queued) \in DOMAIN queue
        /\ queue[FirstPosition(queued)].request.key = r.key
    BY <1>4, <2>1
  <2>3. Agrees(pending', queue', inFlight)
    BY <1>1, <1>5, <1>9, <2>2, ReplaceAgrees
  <2> QED
    BY <2>3, ContinuesAgrees
<1>10. CASE /\ queued = {} /\ reusable
            /\ pending' = [pending EXCEPT ![r.key] = bound]
            /\ queue' = queue
  <2>1. HasLease(inFlight, r.key)
    BY <1>3, <1>6, <1>10 DEF HasLease, Survives, Sticks
  <2>2. r.key \in Keys
    BY <1>2 DEF Request
  <2>3. Agrees(pending', queue', inFlight)
    BY <1>1, <1>8, <1>10, <2>1, <2>2, RebindAgrees
  <2> QED
    BY <2>3, ContinuesAgrees
<1>11. CASE /\ queued = {}
            /\ \E k : PushAfterEviction(pending, queue, leases, r, k)
  BY <1>1, <1>2, <1>3, <1>8, <1>11, PushAgrees
<1>12. CASE UNCHANGED <<pending, queue>>
  BY <1>1, <1>12, ContinuesAgrees
<1> QED
  BY <1>7, <1>9, <1>10, <1>11, <1>12

\* A key that is not bound has no payload either.
LEMMA AdmitAgrees ==
    ASSUME TypeOK, TypeOK', Agreement, Continues, NEW r \in Request,
           pending[r.key] = None, Admit(r)
    PROVE  Agreement'
<1> DEFINE pend == PrunedPending(pending, latestGeneration)
           q == PrunedQueue(queue, latestGeneration)
           leases == Refreshed(latestGeneration, pend, inFlight, Now)
<1>1. /\ pending \in PendingMap
      /\ queue \in Seq(QueuedWork)
      /\ inFlight \in LeaseMap
      /\ latestGeneration \in Nat
  BY TypeParts, BoundsAssumption DEF Generations
<1>2. Agrees(pend, q, inFlight) /\ pend \in PendingMap /\ q \in Seq(QueuedWork)
  BY <1>1, PrunedAgrees, PendingEditsType, QueueEditsType DEF Agreement
<1>3. /\ leases \in LeaseMap
      /\ Survives(inFlight, leases)
      /\ Lives(inFlight, leases)
  BY <1>1, <1>2, NowType, RefreshedType, RefreshedSurvives
<1>4. \A k \in Keys : pending[k] = None => pend[k] = None
  BY <1>1, PrunedLatest
<1>5. \/ \E k : PushAfterEviction(pend, q, leases, r, k)
      \/ pending' = pend /\ queue' = q
  BY DEF Admit
<1> HIDE DEF pend, q, leases
<1>6. ~HasQueued(q, r.key)
  BY <1>2, <1>4, MirroredFacts DEF HasQueued, Agrees
<1> QED
  BY <1>2, <1>3, <1>5, <1>6, PushAgrees, ContinuesAgrees

\* Rebinding without a payload keeps the one queued, or needs a lease.
LEMMA BindExistingAgrees ==
    ASSUME TypeOK, TypeOK', Agreement, Continues, NEW r0 \in Request,
           BindExisting(r0)
    PROVE  Agreement'
<1> DEFINE previous == pending[r0.key]
           r == Promoted(previous, r0)
           queued == Positions(queue, LAMBDA w :
                        /\ w.request.key = r.key
                        /\ w.request.resourceScope = r.resourceScope)
           first == FirstPosition(queued)
           kept == [r EXCEPT !.workerAffinity = queue[first].request.workerAffinity]
           compatible == \E l \in InFlightIn(inFlight) :
                ExecutionMatchesBinding(inFlight[l], r.key, BindingFor(r))
           bound == PendingFor(r, RequestedAt(previous, r))
<1>1. /\ pending \in PendingMap
      /\ queue \in Seq(QueuedWork)
      /\ inFlight \in LeaseMap
      /\ Agrees(pending, queue, inFlight)
  BY TypeParts DEF Agreement
<1>2. /\ previous # None
      /\ previous.binding.resourceScope = r0.resourceScope
      /\ queued # {} \/ compatible
      /\ pending' = [pending EXCEPT ![r.key] = bound]
      /\ queue' = IF queued = {} THEN queue
                  ELSE [queue EXCEPT ![first] = QueuedFor(kept)]
  BY DEF BindExisting
<1>3. /\ previous \in PendingBinding /\ r \in Request
      /\ r.key = r0.key /\ r.resourceScope = r0.resourceScope
  <2>1. r0.key \in Keys
    BY DEF Request
  <2>2. previous \in PendingBinding
    BY <1>1, <1>2, <2>1 DEF PendingMap, Option
  <2> QED
    BY <2>2, PromotedType DEF Promoted, Request
<1>4. /\ queued \in SUBSET (DOMAIN queue)
      /\ \A i \in DOMAIN queue : i \in queued <=>
            /\ queue[i].request.key = r.key
            /\ queue[i].request.resourceScope = r.resourceScope
  BY DEF Positions
<1>5. Mirrors(bound, QueuedFor(r)) /\ bound \in PendingBinding
  BY <1>3, NowType, RequestTypes, RequestedAtType, SubmittedMirrors
<1>6. compatible => HasLease(inFlight, r.key)
  BY DEF InFlightIn, ExecutionMatchesBinding, HasLease
<1>7. CASE queued = {}
  <2> HIDE DEF r, queued, compatible, bound
  <2>1. ASSUME NEW i \in DOMAIN queue, queue[i].request.key = r.key
        PROVE  FALSE
    <3>1. pending[r.key].binding.resourceScope = queue[i].request.resourceScope
      BY <1>1, <2>1, MirroredFacts DEF Agrees
    <3> QED
      BY <1>2, <1>3, <1>4, <1>7, <2>1, <3>1
  <2>2. ~HasQueued(queue, r.key) /\ r.key \in Keys
    BY <1>3, <2>1 DEF HasQueued, Request
  <2>3. Agrees(pending', queue', inFlight)
    BY <1>1, <1>2, <1>6, <1>7, <2>2, RebindAgrees
  <2> QED
    BY <2>3, ContinuesAgrees
<1>8. CASE queued # {}
  <2>1. first \in queued
    BY <1>1, <1>4, <1>8, FirstPositionIn
  <2>2. first \in DOMAIN queue /\ queue[first].request.key = r.key
    BY <1>4, <2>1
  <2> HIDE DEF first, queued, bound
  <2>3. queue[first].request.workerAffinity \in Option(AllLanes)
    <3>1. queue[first] \in QueuedWork
      BY <1>1, <2>2
    <3> QED
      BY <3>1 DEF QueuedWork, Request
  <2> HIDE DEF r
  <2>4. kept \in Request /\ kept.key = r.key /\ BindingFor(kept) = BindingFor(r)
    BY <1>3, <2>3 DEF Request, BindingFor
  <2>5. /\ kept.deadline = r.deadline
        /\ kept.inFlightDeadlinePolicy = r.inFlightDeadlinePolicy
        /\ kept.executionCancellationBudget = r.executionCancellationBudget
    BY <1>3, <2>3 DEF Request
  <2> HIDE DEF kept
  <2>6. /\ QueuedFor(kept) \in QueuedWork
        /\ QueuedFor(kept).request = kept
        /\ Mirrors(bound, QueuedFor(kept))
    <3>1. QueuedFor(kept) \in QueuedWork
      BY <2>4, NowType, RequestTypes
    <3> QED
      BY <1>5, <2>4, <2>5, <3>1 DEF Mirrors, QueuedFor
  <2>7. Agrees(pending', queue', inFlight)
    BY <1>1, <1>2, <1>8, <2>2, <2>4, <2>6, ReplaceAgrees
  <2> QED
    BY <2>7, ContinuesAgrees
<1> QED
  BY <1>7, <1>8

LEMMA AdmissionAgrees ==
    ASSUME TypeOK, TypeOK', Agreement, Admission
    PROVE  Agreement'
<1>1. Continues
  BY AdmissionContinues
<1>2. PICK r \in Requests : Submit(r) \/ BindExisting(r)
  BY DEF Admission
<1>3. r \in Request
  BY InputAssumption
<1>4. CASE Submit(r)
  BY <1>1, <1>3, <1>4, ResubmitAgrees, AdmitAgrees DEF Submit
<1>5. CASE BindExisting(r)
  BY <1>1, <1>3, <1>5, BindExistingAgrees
<1> QED
  BY <1>2, <1>4, <1>5

-----------------------------------------------------------------------------
(* The pending map mirrors the queue, and no binding outlives its work.    *)

LEMMA UntouchedAgrees ==
    ASSUME Agreement, Continues, UNCHANGED <<pending, queue>>
    PROVE  Agreement'
BY ContinuesAgrees DEF Agreement

LEMMA WorkerAgrees ==
    ASSUME TypeOK, TypeOK', Agreement, WorkerStep
    PROVE  Agreement'
<1>1. inFlight \in LeaseMap /\ pending \in PendingMap
  BY TypeParts
<1>2. Survives(inFlight, RefreshedLeases) /\ Lives(inFlight, RefreshedLeases)
  BY <1>1, NowType, RefreshedSurvives DEF RefreshedLeases
<1>3. ASSUME NEW lane \in Lanes, Dequeue(lane)
      PROVE  Agreement'
  BY <1>3, DequeueAgrees
<1>4. ASSUME NEW lane \in Lanes,
             \/ Park(lane) \/ ObserveLifecycle(lane)
             \/ TimedWakeup(lane) \/ SpuriousWakeup(lane)
      PROVE  Agreement'
  <2>1. inFlight' \in {RefreshedLeases, inFlight} /\ UNCHANGED <<pending, queue>>
    BY <1>4 DEF Park, ObserveLifecycle, TimedWakeup, SpuriousWakeup, Wake
  <2>2. Continues
    BY <1>2, <2>1, UnchangedContinues DEF Continues
  <2> QED
    BY <2>1, <2>2, UntouchedAgrees
<1>5. ASSUME NEW l \in Leases, WaitForExecutionTerminalState(l)
      PROVE  Agreement'
  <2>1. Continues
    BY <1>2, <1>5 DEF WaitForExecutionTerminalState, Continues
  <2> QED
    BY <1>5, <2>1, UntouchedAgrees DEF WaitForExecutionTerminalState
<1>6. ASSUME NEW l \in Leases, MarkExecutionCompleted(l)
      PROVE  Agreement'
  <2>1. UNCHANGED <<pending, queue>>
    BY <1>6 DEF MarkExecutionCompleted
  <2> QED
    BY <1>6, <2>1, MarkContinues, UntouchedAgrees
<1>7. ASSUME NEW l \in Leases, AbandonExecution(l)
      PROVE  Agreement'
  BY <1>7, AbandonAgrees
<1> QED
  BY <1>3, <1>4, <1>5, <1>6, <1>7 DEF WorkerStep

LEMMA CoordinatorAgrees ==
    ASSUME TypeOK, TypeOK', Agreement, CoordinatorStep
    PROVE  Agreement'
<1>1. CASE Rotation
  BY <1>1, RotationAgrees
<1>2. CASE Admission
  BY <1>2, AdmissionAgrees
<1>3. CASE \/ \E k \in Keys : CancelKey(k)
           \/ \E k \in Keys, s \in Scopes : CancelPreemptedStill(k, s)
           \/ \E k \in Keys, g \in Generations : KeyCurrent(k, g)
  BY <1>3, RemoveKeyAgrees DEF CancelKey, CancelPreemptedStill, KeyCurrent
<1>4. CASE CancelAll \/ Close
  BY <1>4, CancelAllAgrees
<1>5. CASE CancelOneQueuedPrefetch
  BY <1>5, CancelPrefetchAgrees
<1>6. CASE RequestOneInFlightPrefetchPreemption
  <2>1. UNCHANGED <<pending, queue>>
    BY <1>6 DEF RequestOneInFlightPrefetchPreemption
  <2> QED
    BY <1>6, <2>1, PreemptContinues, UntouchedAgrees
<1>7. CASE \E d \in Demands : SynchronizePlaybackCurrentDemand(d)
  BY <1>7, SynchronizeAgrees
<1>8. CASE ExpirePlaybackCurrent
  BY <1>8, ExpireAgrees
<1>9. CASE InterruptWorkerWaits
  <2>1. UNCHANGED <<pending, queue, inFlight>>
    BY <1>9 DEF InterruptWorkerWaits
  <2> QED
    BY <2>1, UnchangedContinues, UntouchedAgrees
<1> QED
  BY <1>1, <1>2, <1>3, <1>4, <1>5, <1>6, <1>7, <1>8, <1>9
     DEF CoordinatorStep, Rotation, Admission

LEMMA AgreementStep ==
    ASSUME TypeOK, TypeOK', Agreement, [NextWithoutFailure]_vars
    PROVE  Agreement'
<1>1. CASE ClockStep
  <2>1. UNCHANGED <<pending, queue, inFlight>>
    BY <1>1 DEF ClockStep, ClockAdvances, ClockRegresses
  <2> QED
    BY <2>1, UnchangedContinues, UntouchedAgrees
<1>2. CASE UNCHANGED vars
  <2>1. UNCHANGED <<pending, queue, inFlight>>
    BY <1>2 DEF vars, brokerVars
  <2> QED
    BY <2>1, UnchangedContinues, UntouchedAgrees
<1> QED
  BY <1>1, <1>2, CoordinatorAgrees, CompletionAgrees, WorkerAgrees
     DEF NextWithoutFailure

LEMMA WithoutFailureIsSpec == SpecWithoutFailure => Spec
<1>1. [NextWithoutFailure]_vars => [Next]_vars
  BY DEF Next
<1> QED
  BY <1>1, PTL DEF SpecWithoutFailure, Spec

LEMMA AgreementHolds == SpecWithoutFailure => []Agreement
<1>1. Init => Agreement
  BY DEF Init, Agreement, Agrees, Mirror, Owned
<1>2. TypeOK /\ TypeOK' /\ Agreement /\ [NextWithoutFailure]_vars => Agreement'
  BY AgreementStep
<1> QED
  BY <1>1, <1>2, TypeCorrect, WithoutFailureIsSpec, PTL DEF SpecWithoutFailure

\* As long as no execution fails, every queued payload is the only one of its
\* key and carries the pending binding of that key: submit, bind_existing and
\* the rotations write both, and whatever drops a binding drops its payload.
\* The converse does not hold: a binding lives on while a lease works for it.
THEOREM PendingMirrorsQueue == SpecWithoutFailure => []QueueMirrorsPending
<1>1. Agreement => QueueMirrorsPending
  BY AgreesParts DEF Agreement
<1> QED
  BY <1>1, AgreementHolds, PTL

\* As long as no execution fails, remove_orphaned_pending_binding_locked runs
\* wherever the last physical work of a key goes: every binding has a payload
\* to dequeue or a lease to complete.
THEOREM BindingsHaveWork == SpecWithoutFailure => []NoBindingWithoutWork
<1>1. Agreement => NoBindingWithoutWork
  BY AgreesParts DEF Agreement
<1> QED
  BY <1>1, AgreementHolds, PTL

-----------------------------------------------------------------------------
(* The pending budget.                                                     *)

LEMMA FewerBindings ==
    ASSUME PendingWithinBudget, \A k \in Keys : pending[k] = None => pending'[k] = None
    PROVE  PendingWithinBudget'
<1> DEFINE P == PendingKeys(pending)
           Q == {k \in Keys : pending'[k] # None}
<1>1. IsFiniteSet(P) /\ Q \in SUBSET P
  <2>1. P \in SUBSET Keys
    BY DEF PendingKeys
  <2> QED
    BY <2>1, FiniteAssumption, FS_Subset DEF PendingKeys
<1>2. Cardinality(P) <= MaxPending
  BY DEF PendingWithinBudget
<1>3. PendingWithinBudget' <=> Cardinality(Q) <= MaxPending
  BY DEF PendingWithinBudget, PendingKeys
<1> HIDE DEF P, Q
<1>4. /\ Cardinality(Q) <= Cardinality(P)
      /\ Cardinality(Q) \in Nat /\ Cardinality(P) \in Nat
  <2>1. IsFiniteSet(Q) /\ Cardinality(Q) <= Cardinality(P)
    BY <1>1, FS_Subset
  <2> QED
    BY <1>1, <2>1, FS_CardinalityType
<1> QED
  BY <1>2, <1>3, <1>4, BoundsAssumption

\* A plan gives up a key that is bound.
LEMMA PlannedIsBound ==
    ASSUME NEW pend \in PendingMap, NEW q \in Seq(QueuedWork), Mirror(pend, q),
           NEW r, NEW k \in AdmissionEvictionPlans(pend, q, r)
    PROVE  /\ k # None => k \in PendingKeys(pend)
           /\ FitsPending(Cardinality(PendingKeys(pend)) - IF k = None THEN 0 ELSE 1)
<1> DEFINE still == Positions(q, LAMBDA w :
                /\ w.request.priority = "Current" /\ w.request.workClass = "Still")
<1>1. \A i \in DOMAIN q : q[i].request.key \in PendingKeys(pend)
  BY MirroredFacts DEF PendingKeys
<1>2. still \in SUBSET (DOMAIN q)
  BY DEF Positions
<1>3. \/ still # {} /\ k = q[FirstPosition(still)].request.key
      \/ k = None
      \/ k \in QueueEvictionCandidate(q, r)
      \/ k \in PendingEvictionCandidates(pend, r)
  BY DEF AdmissionEvictionPlans
<1>4. FitsPending(Cardinality(PendingKeys(pend)) - IF k = None THEN 0 ELSE 1)
  BY DEF AdmissionEvictionPlans
<1> HIDE DEF still
<1>5. CASE still # {} /\ k = q[FirstPosition(still)].request.key
  <2>1. FirstPosition(still) \in DOMAIN q
    BY <1>2, <1>5, FirstPositionIn
  <2> QED
    BY <1>1, <1>4, <1>5, <2>1
<1>6. CASE k \in QueueEvictionCandidate(q, r)
  <2>1. \E i \in DOMAIN q : q[i].request.key = k
    BY <1>6, CandidateQueued
  <2> QED
    BY <1>1, <1>4, <2>1
<1>7. CASE k \in PendingEvictionCandidates(pend, r)
  <2>1. k \in PendingKeys(pend)
    BY <1>7 DEF PendingEvictionCandidates
  <2> QED
    BY <1>4, <2>1
<1> QED
  BY <1>3, <1>4, <1>5, <1>6, <1>7

\* A new key takes the room its plan found or made.
LEMMA AdmitBudget ==
    ASSUME TypeOK, TypeOK', Agreement, PendingWithinBudget, NEW r \in Request,
           Admit(r)
    PROVE  PendingWithinBudget'
<1> DEFINE pend == PrunedPending(pending, latestGeneration)
           q == PrunedQueue(queue, latestGeneration)
           leases == Refreshed(latestGeneration, pend, inFlight, Now)
<1>1. /\ pending \in PendingMap
      /\ queue \in Seq(QueuedWork)
      /\ latestGeneration \in Nat
  BY TypeParts, BoundsAssumption DEF Generations
<1>2. Mirror(pend, q) /\ pend \in PendingMap /\ q \in Seq(QueuedWork)
  BY <1>1, PrunedAgrees, PendingEditsType, QueueEditsType DEF Agreement, Agrees
<1>3. \A k \in Keys : pending[k] = None => pend[k] = None
  BY <1>1, PrunedLatest
<1>4. \/ \E k \in AdmissionEvictionPlans(pend, q, r) :
            PushAfterEviction(pend, q, leases, r, k)
      \/ pending' = pend
  BY DEF Admit
<1> HIDE DEF pend, q, leases
<1>5. CASE pending' = pend
  BY <1>3, <1>5, FewerBindings
<1>6. ASSUME NEW k \in AdmissionEvictionPlans(pend, q, r),
             PushAfterEviction(pend, q, leases, r, k)
      PROVE  PendingWithinBudget'
  <2> DEFINE P == PendingKeys(pend)
             Q == {x \in Keys : pending'[x] # None}
             R == IF k = None THEN P ELSE P \ {k}
  <2>1. /\ k # None => k \in P
        /\ Cardinality(P) - (IF k = None THEN 0 ELSE 1) < MaxPending
    BY <1>2, PlannedIsBound DEF FitsPending
  <2>2. IsFiniteSet(P)
    <3>1. P \in SUBSET Keys
      BY DEF PendingKeys
    <3> QED
      BY <3>1, FiniteAssumption, FS_Subset
  <2>3. Q \in SUBSET (R \cup {r.key})
    <3>1. pending' = [Evicted(pend, k) EXCEPT ![r.key] = PendingFor(r, Now)]
      BY <1>6 DEF PushAfterEviction
    <3>2. Evicted(pend, k) \in PendingMap
      BY <1>2, PendingEditsType
    <3>3. \A x \in Keys \ {r.key} : pending'[x] = Evicted(pend, k)[x]
      BY <3>1, <3>2 DEF PendingMap
    <3>4. \A x \in Keys : Evicted(pend, k)[x] # None => x \in R
      BY <1>2 DEF Evicted, PendingMap, PendingKeys
    <3> QED
      BY <3>3, <3>4
  <2>4. PendingWithinBudget' <=> Cardinality(Q) <= MaxPending
    BY DEF PendingWithinBudget, PendingKeys
  <2> HIDE DEF P, Q
  <2>5. IsFiniteSet(R) /\ Cardinality(R) \in Nat /\ Cardinality(R) < MaxPending
    <3>1. CASE k = None
      BY <2>1, <2>2, <3>1, FS_CardinalityType
    <3>2. CASE k # None
      <4>1. IsFiniteSet(P \ {k}) /\ Cardinality(P \ {k}) = Cardinality(P) - 1
        BY <2>1, <2>2, <3>2, FS_RemoveElement
      <4>2. Cardinality(P \ {k}) \in Nat
        BY <4>1, FS_CardinalityType
      <4> QED
        BY <2>1, <3>2, <4>1, <4>2
    <3> QED
      BY <3>1, <3>2
  <2> HIDE DEF R
  <2>6. /\ IsFiniteSet(R \cup {r.key})
        /\ Cardinality(R \cup {r.key}) <= Cardinality(R) + 1
    BY <2>5, FS_AddElement
  <2>7. IsFiniteSet(Q) /\ Cardinality(Q) <= Cardinality(R \cup {r.key})
    BY <2>3, <2>6, FS_Subset
  <2>8. Cardinality(Q) \in Nat /\ Cardinality(R \cup {r.key}) \in Nat
    BY <2>6, <2>7, FS_CardinalityType
  <2> QED
    BY <2>4, <2>5, <2>6, <2>7, <2>8, BoundsAssumption
<1> QED
  BY <1>4, <1>5, <1>6

\* Rebinding a bound key takes no room.
LEMMA RebindBudget ==
    ASSUME PendingWithinBudget, pending \in PendingMap, NEW r \in Request,
           pending[r.key] # None,
           \A x \in Keys \ {r.key} : pending'[x] \in {None, pending[x]}
    PROVE  PendingWithinBudget'
<1>1. \A k \in Keys : pending[k] = None => pending'[k] = None
  OBVIOUS
<1> QED
  BY <1>1, FewerBindings

LEMMA AdmissionBudget ==
    ASSUME TypeOK, TypeOK', Agreement, PendingWithinBudget, Admission
    PROVE  PendingWithinBudget'
<1>1. pending \in PendingMap
  BY TypeParts
<1>2. PICK r0 \in Requests : Submit(r0) \/ BindExisting(r0)
  BY DEF Admission
<1>3. r0 \in Request /\ r0.key \in Keys
  BY InputAssumption DEF Request
<1>4. CASE \/ BindExisting(r0)
           \/ Submit(r0) /\ pending[r0.key] # None
  <2> DEFINE r == Promoted(pending[r0.key], r0)
             t == RequestedAt(pending[r0.key], r)
  <2>1. pending[r0.key] # None
    BY <1>4 DEF BindExisting
  <2>2. r.key = r0.key
    BY <1>3, PromotedGeneration
  <2>3. CASE pending' = [pending EXCEPT ![r.key] = PendingFor(r, t)]
    <3>1. \A x \in Keys \ {r0.key} : pending'[x] = pending[x]
      BY <1>1, <2>2, <2>3 DEF PendingMap
    <3> QED
      BY <1>1, <1>3, <2>1, <3>1, RebindBudget
  <2>4. ASSUME NEW k,
               pending' = [Evicted(pending, k) EXCEPT ![r.key] = PendingFor(r, Now)]
        PROVE  PendingWithinBudget'
    <3>1. Evicted(pending, k) \in PendingMap
      BY <1>1, PendingEditsType
    <3>2. \A x \in Keys \ {r0.key} : pending'[x] = Evicted(pending, k)[x]
      BY <2>2, <2>4, <3>1 DEF PendingMap
    <3>3. \A x \in Keys \ {r0.key} : pending'[x] \in {None, pending[x]}
      BY <1>1, <3>2, PendingEditsRetain
    <3> QED
      BY <1>1, <1>3, <2>1, <3>3, RebindBudget
  <2>5. \/ pending' = [pending EXCEPT ![r.key] = PendingFor(r, t)]
        \/ \E k : pending' = [Evicted(pending, k) EXCEPT ![r.key] = PendingFor(r, Now)]
        \/ pending' = pending
    BY <1>4 DEF BindExisting, Submit, Resubmit, PushAfterEviction
  <2> QED
    BY <2>3, <2>4, <2>5, FewerBindings
<1>5. CASE Submit(r0) /\ pending[r0.key] = None
  BY <1>3, <1>5, AdmitBudget DEF Submit
<1> QED
  BY <1>2, <1>4, <1>5

LEMMA BudgetStep ==
    ASSUME TypeOK, TypeOK', Agreement, PendingWithinBudget, [Next]_vars
    PROVE  PendingWithinBudget'
<1>1. CASE Rotation
  BY <1>1, RotationFacts, FewerBindings
<1>2. CASE Admission
  BY <1>2, AdmissionBudget
<1>3. CASE Retains
  <2>1. \A k \in Keys : pending[k] = None => pending'[k] = None
    BY <1>3 DEF Retains
  <2> QED
    BY <2>1, FewerBindings
<1> QED
  BY <1>1, <1>2, <1>3, StepSorts

\* As long as no execution fails, the pending map never holds more keys than
\* its budget: a submission that finds it full either gives up a key that is
\* really bound, which plan_new_admission_eviction counts on, or is dropped.
THEOREM PendingBudgetHolds == SpecWithoutFailure => []PendingWithinBudget
<1>1. Init => PendingWithinBudget
  <2> SUFFICES ASSUME Init PROVE PendingWithinBudget
    OBVIOUS
  <2>1. PendingKeys(pending) = {}
    BY DEF Init, PendingKeys
  <2> QED
    BY <2>1, FS_EmptySet, BoundsAssumption DEF PendingWithinBudget
<1>2. /\ TypeOK /\ TypeOK' /\ Agreement
      /\ PendingWithinBudget /\ [NextWithoutFailure]_vars
      => PendingWithinBudget'
  <2>1. [NextWithoutFailure]_vars => [Next]_vars
    BY DEF Next
  <2> QED
    BY <2>1, BudgetStep
<1> QED
  BY <1>1, <1>2, TypeCorrect, WithoutFailureIsSpec, AgreementHolds, PTL
     DEF SpecWithoutFailure

-----------------------------------------------------------------------------
(* The order of evictions.                                                 *)

\* A plan for a queue that is full: whom it is for, and whom it may take.
LEMMA QueueVictim ==
    ASSUME NEW q \in Seq(QueuedWork), NEW pend \in PendingMap, Mirror(pend, q),
           NEW r, NEW k \in QueueEvictionCandidate(q, r)
    PROVE  \/ pend[k].binding.priority = "Prefetch"
           \/ pend[k].binding.workClass = "Still"
<1> DEFINE prefetch == Positions(q, LAMBDA w : w.request.priority = "Prefetch")
           still    == Positions(q, LAMBDA w : w.request.workClass = "Still")
<1>1. /\ prefetch \in SUBSET (DOMAIN q)
      /\ still \in SUBSET (DOMAIN q)
      /\ \A i \in prefetch : q[i].request.priority = "Prefetch"
      /\ \A i \in still : q[i].request.workClass = "Still"
  BY DEF Positions
<1>2. \/ prefetch # {} /\ k = q[FirstPosition(prefetch)].request.key
      \/ still # {} /\ k = q[FirstPosition(still)].request.key
  BY DEF QueueEvictionCandidate
<1> HIDE DEF prefetch, still
<1>3. \E i \in prefetch \cup still : k = q[i].request.key
  BY <1>1, <1>2, FirstPositionIn
<1> QED
  BY <1>1, <1>3, MirroredFacts

LEMMA AdmissionVictim ==
    ASSUME NEW q \in Seq(QueuedWork), NEW pend \in PendingMap, Mirror(pend, q),
           NEW r, NEW k \in AdmissionEvictionPlans(pend, q, r), k # None
    PROVE  /\ r.priority = "Current"
           /\ \/ pend[k].binding.priority = "Prefetch"
              \/ pend[k].binding.workClass = "Still"
<1> DEFINE still == Positions(q, LAMBDA w :
                /\ w.request.priority = "Current" /\ w.request.workClass = "Still")
<1>1. /\ still \in SUBSET (DOMAIN q)
      /\ \A i \in still : q[i].request.workClass = "Still"
  BY DEF Positions
<1>2. /\ r.priority = "Current"
      /\ \/ still # {} /\ k = q[FirstPosition(still)].request.key
         \/ k \in QueueEvictionCandidate(q, r)
         \/ k \in PendingEvictionCandidates(pend, r)
  BY DEF AdmissionEvictionPlans
<1> HIDE DEF still
<1>3. CASE still # {} /\ k = q[FirstPosition(still)].request.key
  <2>1. FirstPosition(still) \in still
    BY <1>1, <1>3, FirstPositionIn
  <2> QED
    BY <1>1, <1>2, <1>3, <2>1, MirroredFacts
<1>4. CASE k \in QueueEvictionCandidate(q, r)
  BY <1>2, <1>4, QueueVictim
<1>5. CASE k \in PendingEvictionCandidates(pend, r)
  BY <1>2, <1>5 DEF PendingEvictionCandidates
<1> QED
  BY <1>2, <1>3, <1>4, <1>5

\* Only the key a plan names loses its binding to a push.
LEMMA PushTakes ==
    ASSUME TypeOK, NEW pend \in PendingMap, NEW q, NEW fl, NEW r \in Request,
           NEW k, PushAfterEviction(pend, q, fl, r, k),
           NEW x \in Keys, pend[x] # None, pending'[x] = None
    PROVE  x = k /\ k # None
<1>1. pending' = [Evicted(pend, k) EXCEPT ![r.key] = PendingFor(r, Now)]
  BY DEF PushAfterEviction
<1>2. PendingFor(r, Now) # None
  BY NowType, RequestTypes, NoneAssumption
<1>3. Evicted(pend, k) \in PendingMap
  BY PendingEditsType
<1>4. Evicted(pend, k)[x] = None
  BY <1>1, <1>2, <1>3 DEF PendingMap
<1> QED
  BY <1>4 DEF Evicted, PendingMap

\* What one submission takes from another key.
RespectsPriority(r) ==
    \A k \in PendingKeys(pending) :
        pending'[k] = None =>
            /\ \/ r.priority = "Current"
               \/ /\ pending[r.key] # None
                  /\ pending[r.key].binding.priority = "Current"
            /\ \/ pending[k].binding.priority = "Prefetch"
               \/ pending[k].binding.workClass = "Still"

LEMMA ResubmitRespects ==
    ASSUME TypeOK, Agreement, NEW r0 \in Request, pending[r0.key] # None,
           Resubmit(r0), NEW x \in Keys, pending[x] # None, pending'[x] = None
    PROVE  /\ \/ r0.priority = "Current"
              \/ pending[r0.key].binding.priority = "Current"
           /\ \/ pending[x].binding.priority = "Prefetch"
              \/ pending[x].binding.workClass = "Still"
<1> DEFINE previous == pending[r0.key]
           r == Promoted(previous, r0)
           leases == RestoredDemandBinding(activePlaybackDemand, inFlight, r.key,
                                           BindingFor(r))
           t == RequestedAt(previous, r)
<1>1. /\ pending \in PendingMap
      /\ queue \in Seq(QueuedWork)
      /\ Mirror(pending, queue)
  BY TypeParts DEF Agreement, Agrees
<1>2. previous \in PendingBinding /\ r \in Request
  <2>1. r0.key \in Keys
    BY DEF Request
  <2>2. previous \in PendingBinding
    BY <1>1, <2>1 DEF PendingMap, Option
  <2> QED
    BY <2>2, PromotedType
<1>3. r.priority = "Current" =>
        r0.priority = "Current" \/ previous.binding.priority = "Current"
  BY DEF Promoted
<1>4. PendingFor(r, t) # None
  BY <1>2, RequestedAtType, RequestTypes, NoneAssumption
<1>5. \/ pending' = [pending EXCEPT ![r.key] = PendingFor(r, t)]
      \/ \E k \in QueueEvictionPlans(queue, r) :
            PushAfterEviction(pending, queue, leases, r, k)
      \/ pending' = pending
  BY DEF Resubmit
<1> HIDE DEF previous, r, leases, t
<1>6. PICK k \in QueueEvictionPlans(queue, r) :
        PushAfterEviction(pending, queue, leases, r, k)
  BY <1>1, <1>4, <1>5 DEF PendingMap
<1>7. x = k /\ k # None
  <2>1. pending \in PendingMap /\ r \in Request
    BY <1>1, <1>2
  <2> QED
    BY <1>6, <2>1, PushTakes
<1>8. r.priority = "Current" /\ k \in QueueEvictionCandidate(queue, r)
  BY <1>6, <1>7 DEF QueueEvictionPlans
<1> QED
  BY <1>1, <1>3, <1>7, <1>8, QueueVictim DEF previous

\* Bindings are latest, so the pruning of an admission takes none of them.
LEMMA AdmitRespects ==
    ASSUME TypeOK, Agreement, BindingsAreLatest, NEW r \in Request, Admit(r),
           NEW x \in Keys, pending[x] # None, pending'[x] = None
    PROVE  /\ r.priority = "Current"
           /\ \/ pending[x].binding.priority = "Prefetch"
              \/ pending[x].binding.workClass = "Still"
<1> DEFINE pend == PrunedPending(pending, latestGeneration)
           q == PrunedQueue(queue, latestGeneration)
           leases == Refreshed(latestGeneration, pend, inFlight, Now)
<1>1. /\ pending \in PendingMap
      /\ queue \in Seq(QueuedWork)
      /\ latestGeneration \in Nat
  BY TypeParts, BoundsAssumption DEF Generations
<1>2. Mirror(pend, q) /\ pend \in PendingMap /\ q \in Seq(QueuedWork)
  BY <1>1, PrunedAgrees, PendingEditsType, QueueEditsType DEF Agreement, Agrees
<1>3. pend[x] = pending[x]
  <2>1. pending[x] \in PendingBinding
    BY <1>1 DEF PendingMap, Option
  <2>2. pending[x].binding.generation \in Nat
    BY <2>1, BoundsAssumption DEF PendingBinding, Binding, Generations
  <2>3. pending[x].binding.generation >= latestGeneration
    BY DEF BindingsAreLatest, PendingKeys
  <2>4. ~(pending[x].binding.generation < latestGeneration)
    BY <1>1, <2>2, <2>3
  <2> QED
    BY <2>4 DEF PrunedPending
<1>4. \/ \E k \in AdmissionEvictionPlans(pend, q, r) :
            PushAfterEviction(pend, q, leases, r, k)
      \/ pending' = pend
  BY DEF Admit
<1> HIDE DEF pend, q, leases
<1>5. PICK k \in AdmissionEvictionPlans(pend, q, r) :
        PushAfterEviction(pend, q, leases, r, k)
  BY <1>3, <1>4
<1>6. x = k /\ k # None
  BY <1>2, <1>3, <1>5, PushTakes
<1> QED
  BY <1>2, <1>3, <1>6, AdmissionVictim

LEMMA SubmitRespects ==
    ASSUME TypeOK, Agreement, BindingsAreLatest, NEW r \in Requests, Submit(r)
    PROVE  RespectsPriority(r)
<1>1. r \in Request
  BY InputAssumption
<1>2. CASE pending[r.key] # None
  BY <1>1, <1>2, ResubmitRespects DEF Submit, RespectsPriority, PendingKeys
<1>3. CASE pending[r.key] = None
  BY <1>1, <1>3, AdmitRespects DEF Submit, RespectsPriority, PendingKeys
<1> QED
  BY <1>2, <1>3

Respects == \A r \in Requests : Submit(r) => RespectsPriority(r)

\* As long as no execution fails, admission for capacity takes its victims in
\* the order plan_queue_eviction and plan_new_admission_eviction state: only
\* Current work evicts, and only speculative or Still work is evicted.
THEOREM EvictionsRespectPriority == SpecWithoutFailure => AdmissionRespectsPriority
<1>1. TypeOK /\ Agreement /\ SafetyInvariant => Respects
  BY SubmitRespects DEF Respects, SafetyInvariant
<1>2. Respects => \A k \in PendingKeys(pending) :
        pending'[k] = None =>
            \A r \in Requests : Submit(r) =>
                /\ \/ r.priority = "Current"
                   \/ /\ pending[r.key] # None
                      /\ pending[r.key].binding.priority = "Current"
                /\ \/ pending[k].binding.priority = "Prefetch"
                   \/ pending[k].binding.workClass = "Still"
  BY DEF Respects, RespectsPriority
<1> QED
  BY <1>1, <1>2, TypeCorrect, SafetyInvariantHolds, WithoutFailureIsSpec,
     AgreementHolds, PTL DEF SpecWithoutFailure, AdmissionRespectsPriority

=============================================================================
