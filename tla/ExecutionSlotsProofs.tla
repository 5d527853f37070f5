-------------------------- MODULE ExecutionSlotsProofs --------------------------
(***************************************************************************)
(* The safety properties of the dispatch slots, for every number of        *)
(* domains, every division of them into classes, every machine class and   *)
(* every bound on the queues: the allocator's record keeps its shape       *)
(* whatever it is told, an open seam belongs to a domain the allocator     *)
(* counts, and attempts that start under the lock of their seam never      *)
(* exceed the machine.                                                     *)
(***************************************************************************)
EXTENDS ExecutionSlotsProperties, FiniteSetTheorems, SequenceTheorems, TLAPS

-----------------------------------------------------------------------------
(* The inductive invariants.                                               *)

\* A domain a slot is spent on, and one whose seam may be open.
Counted(a) == Active(a) \cup a.draining
Openable(a) == Active(a) \cup (a.draining \ a.acknowledged)

\* The shape of an allocator: granted and draining domains are disjoint, only
\* draining ones are acknowledged, only granted ones have outlived a grace.
Allocators ==
    [active : Seq(Domains), draining : SUBSET Domains, acknowledged : SUBSET Domains,
     overdue : SUBSET Domains, cursor : Domains]

AllocatorOK(a) ==
    /\ a \in Allocators
    /\ IsInjective(a.active)
    /\ a.draining \cap Active(a) = {}
    /\ a.acknowledged \subseteq a.draining
    /\ a.overdue \subseteq Active(a)

Steps == {"Idle", "Closing", "Opening"}
Activities == {"Idle", "Passed", "Running", "Committing"}

\* Only a worker that reports itself late stands between its gate and its
\* mark, and its job counts as queued until then.
DomainsOK ==
    /\ domain \in [Domains -> [at : Activities, queued : Nat, ended : BOOLEAN]]
    /\ \A d \in Domains :
           domain[d].at = "Passed" => d \in LateMarked /\ domain[d].queued > 0

SlotsInv ==
    /\ AllocatorOK(allocator)
    /\ Len(allocator.active) <= MachineSlots
    /\ demand \in [Domains -> Facts]
    /\ pressure \in {"Nominal", "Elevated", "Critical"}
    /\ realtime \in BOOLEAN
    /\ app \in [at : Steps, window : BOOLEAN]
    /\ seam \in [Domains -> BOOLEAN]
    /\ DomainsOK

\* A domain whose starts are atomic.
Atomic == Domains \ LateMarked

\* An atomic domain that executes, or that the last demand said executes, is
\* counted: nothing retires it before a fresh sample has seen it stop.
AttemptsAreCounted ==
    \A d \in Atomic : AtWork(d) \/ demand[d].running => d \in Counted(allocator)

\* Atomic domains are counted only within the machine: a slot is filled when
\* nothing drains, and no atomic domain is ever found running untracked.
CountedFit == Cardinality(Counted(allocator) \cap Atomic) <= MachineSlots

StartsInv == AttemptsAreCounted /\ CountedFit

-----------------------------------------------------------------------------
(* Sequences of domains.                                                   *)

LEMMA DomainsFinite ==
    /\ IsFiniteSet(Domains)
    /\ Cardinality(Domains) = DomainCount
    /\ DomainCount \in Nat \ {0}
    /\ Domains \subseteq Nat
    /\ 0 \in Domains
<1>1. DomainCount \in Nat \ {0}
  BY SlotsAssumption
<1>2. IsFiniteSet(0 .. DomainCount - 1) /\ Cardinality(0 .. DomainCount - 1) = DomainCount
  <2>1. 0 \in Int /\ DomainCount - 1 \in Int /\ ~(0 > DomainCount - 1)
    BY <1>1
  <2> QED
    BY <1>1, <2>1, FS_Interval
<1> QED
  BY <1>1, <1>2 DEF Domains

\* Ordered lists every member of its set, and each of them once.
LEMMA OrderedLists ==
    ASSUME NEW S, IsFiniteSet(S), NEW key \in [S -> Nat],
           \A d, e \in S : key[d] = key[e] => d = e
    PROVE  /\ Ordered(S, key) \in Seq(S)
           /\ Len(Ordered(S, key)) = Cardinality(S)
           /\ IsInjective(Ordered(S, key))
           /\ Range(Ordered(S, key)) = S
<1> DEFINE upTo(d) == {e \in S : key[e] <= key[d]}
           place == [d \in S |-> Cardinality(upTo(d))]
           at(n) == CHOOSE d \in S : Cardinality(upTo(d)) = n
<1>0. Cardinality(S) \in Nat
  BY FS_CardinalityType
<1>1. \A d \in S : /\ IsFiniteSet(upTo(d))
                   /\ Cardinality(upTo(d)) \in 1 .. Cardinality(S)
  <2> SUFFICES ASSUME NEW d \in S
               PROVE  /\ IsFiniteSet(upTo(d))
                      /\ Cardinality(upTo(d)) \in 1 .. Cardinality(S)
    OBVIOUS
  <2>1. upTo(d) \in SUBSET S /\ d \in upTo(d)
    OBVIOUS
  <2>2. IsFiniteSet(upTo(d)) /\ Cardinality(upTo(d)) <= Cardinality(S)
    BY <2>1, FS_Subset
  <2>3. Cardinality(upTo(d)) \in Nat
    BY <2>2, FS_CardinalityType
  <2>4. Cardinality(upTo(d)) # 0
    BY <2>1, <2>2, FS_EmptySet
  <2> QED
    BY <1>0, <2>2, <2>3, <2>4
<1>2. \A d, e \in S : key[d] < key[e] => Cardinality(upTo(d)) # Cardinality(upTo(e))
  <2> SUFFICES ASSUME NEW d \in S, NEW e \in S, key[d] < key[e]
               PROVE  Cardinality(upTo(d)) # Cardinality(upTo(e))
    OBVIOUS
  <2>1. key[d] \in Nat /\ key[e] \in Nat /\ \A c \in S : key[c] \in Nat
    OBVIOUS
  <2>2. \A c \in S : key[c] <= key[d] => key[c] <= key[e]
    BY <2>1
  <2>3. upTo(d) \in SUBSET upTo(e)
    BY <2>2
  <2>4. e \in upTo(e) /\ e \notin upTo(d)
    BY <2>1
  <2> QED
    BY <1>1, <2>3, <2>4, FS_Subset
<1>3. place \in Injection(S, 1 .. Cardinality(S))
  <2>1. place \in [S -> 1 .. Cardinality(S)]
    BY <1>1
  <2>2. \A d, e \in S : place[d] = place[e] => d = e
    <3> SUFFICES ASSUME NEW d \in S, NEW e \in S, d # e
                 PROVE  Cardinality(upTo(d)) # Cardinality(upTo(e))
      OBVIOUS
    <3>1. key[d] < key[e] \/ key[e] < key[d]
      <4>1. key[d] # key[e] /\ key[d] \in Nat /\ key[e] \in Nat
        OBVIOUS
      <4> QED
        BY <4>1
    <3> QED
      BY <1>2, <3>1
  <2> QED
    BY <2>1, <2>2 DEF Injection, IsInjective
<1>4. place \in Surjection(S, 1 .. Cardinality(S))
  <2>1. IsFiniteSet(1 .. Cardinality(S)) /\ Cardinality(1 .. Cardinality(S)) = Cardinality(S)
    <3>1. Cardinality(1 .. Cardinality(S)) = Cardinality(S)
      BY <1>0, FS_Interval
    <3> QED
      BY <1>0, <3>1, FS_Interval
  <2> QED
    BY <1>3, <2>1, FS_Injection
<1>5. \A n \in 1 .. Cardinality(S) : \E d \in S : Cardinality(upTo(d)) = n
  BY <1>4 DEF Surjection
<1>6. \A n \in 1 .. Cardinality(S) : at(n) \in S /\ Cardinality(upTo(at(n))) = n
  <2> SUFFICES ASSUME NEW n \in 1 .. Cardinality(S)
               PROVE  at(n) \in S /\ Cardinality(upTo(at(n))) = n
    OBVIOUS
  <2>1. \E d \in S : Cardinality(upTo(d)) = n
    BY <1>5
  <2> QED
    BY <2>1
<1>7. \A d, e \in S : Cardinality(upTo(d)) = Cardinality(upTo(e)) => d = e
  BY <1>3 DEF Injection, IsInjective
<1>8. Ordered(S, key) = [n \in 1 .. Cardinality(S) |-> at(n)]
  BY DEF Ordered
<1> HIDE DEF at
<1> HIDE DEF upTo
<1>9. Ordered(S, key) \in Seq(S) /\ Len(Ordered(S, key)) = Cardinality(S)
  BY <1>0, <1>6, <1>8
<1>10. IsInjective(Ordered(S, key))
  BY <1>6, <1>8 DEF IsInjective
<1>11. Range(Ordered(S, key)) = S
  <2>1. \A d \in S : Cardinality(upTo(d)) \in 1 .. Cardinality(S)
    BY <1>1
  <2>2. \A d \in S : d = at(Cardinality(upTo(d)))
    BY <1>6, <1>7, <2>1
  <2> QED
    BY <1>6, <1>8, <2>1, <2>2 DEF Range
<1> QED
  BY <1>9, <1>10, <1>11

\* A sequence without repetitions is as long as its range is large.
LEMMA DistinctLength ==
    ASSUME NEW S, NEW s \in Seq(S), IsInjective(s)
    PROVE  /\ IsFiniteSet(Range(s))
           /\ Cardinality(Range(s)) = Len(s)
           /\ Range(s) \subseteq S
<1>1. Len(s) \in Nat /\ DOMAIN s = 1 .. Len(s) /\ s \in [1 .. Len(s) -> S]
  OBVIOUS
<1>2. IsFiniteSet(1 .. Len(s)) /\ Cardinality(1 .. Len(s)) = Len(s)
  <2>1. Cardinality(1 .. Len(s)) = Len(s)
    BY <1>1, FS_Interval
  <2> QED
    BY <1>1, <2>1, FS_Interval
<1>3. s \in Surjection(1 .. Len(s), Range(s))
  BY <1>1 DEF Surjection, Range
<1>4. s \in Injection(1 .. Len(s), Range(s))
  BY <1>1, <1>3 DEF Injection, Surjection
<1>5. Range(s) \subseteq S
  BY <1>1 DEF Range
<1> QED
  BY <1>2, <1>3, <1>4, <1>5, FS_Surjection

\* The first members of a sequence.
LEMMA FirstOfPrefix ==
    ASSUME NEW S, NEW s \in Seq(S), IsInjective(s), NEW n \in Nat
    PROVE  /\ FirstOf(s, n) \in Seq(S)
           /\ Len(FirstOf(s, n)) = IF n < Len(s) THEN n ELSE Len(s)
           /\ IsInjective(FirstOf(s, n))
           /\ Range(FirstOf(s, n)) \subseteq Range(s)
<1> DEFINE k == IF n < Len(s) THEN n ELSE Len(s)
<1>1. Len(s) \in Nat /\ DOMAIN s = 1 .. Len(s) /\ s \in [1 .. Len(s) -> S]
  OBVIOUS
<1>2. k \in Nat /\ k <= Len(s)
  BY <1>1
<1>3. FirstOf(s, n) = SubSeq(s, 1, k)
  BY DEF FirstOf
<1> HIDE DEF k
<1>4. \A i \in 1 .. k : s[i] \in S /\ i \in 1 .. Len(s)
  BY <1>1, <1>2
<1>5. /\ SubSeq(s, 1, k) \in Seq(S)
      /\ Len(SubSeq(s, 1, k)) = IF 1 <= k THEN k - 1 + 1 ELSE 0
      /\ \A i \in 1 .. k - 1 + 1 : SubSeq(s, 1, k)[i] = s[1 + i - 1]
  BY <1>2, <1>4, SubSeqProperties
<1>6. Len(SubSeq(s, 1, k)) = k /\ DOMAIN SubSeq(s, 1, k) = 1 .. k
  BY <1>2, <1>5
<1>7. \A i \in 1 .. k : SubSeq(s, 1, k)[i] = s[i]
  <2> SUFFICES ASSUME NEW i \in 1 .. k
               PROVE  SubSeq(s, 1, k)[i] = s[i]
    OBVIOUS
  <2>1. i \in 1 .. k - 1 + 1 /\ 1 + i - 1 = i
    BY <1>2
  <2> QED
    BY <1>5, <2>1
<1>8. IsInjective(SubSeq(s, 1, k))
  BY <1>1, <1>4, <1>6, <1>7 DEF IsInjective
<1>9. Range(SubSeq(s, 1, k)) \subseteq Range(s)
  BY <1>1, <1>4, <1>6, <1>7 DEF Range
<1> QED
  BY <1>3, <1>5, <1>6, <1>8, <1>9 DEF k

\* Sequences without common members are joined without repetitions.
LEMMA JoinDistinct ==
    ASSUME NEW S, NEW s \in Seq(S), NEW t \in Seq(S), IsInjective(s), IsInjective(t),
           Range(s) \cap Range(t) = {}
    PROVE  /\ s \o t \in Seq(S)
           /\ Len(s \o t) = Len(s) + Len(t)
           /\ IsInjective(s \o t)
           /\ Range(s \o t) = Range(s) \cup Range(t)
<1>1. /\ Len(s) \in Nat /\ Len(t) \in Nat
      /\ DOMAIN s = 1 .. Len(s) /\ DOMAIN t = 1 .. Len(t)
  OBVIOUS
<1>2. /\ s \o t \in Seq(S)
      /\ Len(s \o t) = Len(s) + Len(t)
      /\ \A i \in 1 .. Len(s) + Len(t) :
             (s \o t)[i] = IF i <= Len(s) THEN s[i] ELSE t[i - Len(s)]
  BY ConcatProperties
<1> DEFINE c == s \o t
<1>3. DOMAIN c = 1 .. Len(s) + Len(t)
  BY <1>2
<1>4. \A i \in DOMAIN c : \/ i \in DOMAIN s /\ c[i] = s[i]
                          \/ i - Len(s) \in DOMAIN t /\ c[i] = t[i - Len(s)] /\ ~(i <= Len(s))
  BY <1>1, <1>2, <1>3
<1>5. \A i \in DOMAIN s : i \in DOMAIN c /\ c[i] = s[i]
  BY <1>1, <1>2, <1>3
<1>6. \A i \in DOMAIN t : Len(s) + i \in DOMAIN c /\ c[Len(s) + i] = t[i]
  <2> SUFFICES ASSUME NEW i \in DOMAIN t
               PROVE  Len(s) + i \in DOMAIN c /\ c[Len(s) + i] = t[i]
    OBVIOUS
  <2>1. /\ Len(s) + i \in 1 .. Len(s) + Len(t)
        /\ ~(Len(s) + i <= Len(s))
        /\ Len(s) + i - Len(s) = i
    BY <1>1
  <2> QED
    BY <1>2, <1>3, <2>1
<1> HIDE DEF c
<1>7. Range(c) = Range(s) \cup Range(t)
  <2>1. \A x \in Range(c) : x \in Range(s) \cup Range(t)
    BY <1>4 DEF Range
  <2>2. \A x \in Range(s) \cup Range(t) : x \in Range(c)
    BY <1>5, <1>6 DEF Range
  <2> QED
    BY <2>1, <2>2
<1>8. \A i, j \in DOMAIN c : c[i] = c[j] => i = j
  <2> SUFFICES ASSUME NEW i \in DOMAIN c, NEW j \in DOMAIN c, c[i] = c[j]
               PROVE  i = j
    OBVIOUS
  <2>1. i \in Nat /\ j \in Nat
    BY <1>1, <1>3
  <2>2. CASE i \in DOMAIN s /\ c[i] = s[i] /\ j \in DOMAIN s /\ c[j] = s[j]
    BY <2>2 DEF IsInjective
  <2>3. CASE /\ i - Len(s) \in DOMAIN t /\ c[i] = t[i - Len(s)]
             /\ j - Len(s) \in DOMAIN t /\ c[j] = t[j - Len(s)]
    <3>1. i - Len(s) = j - Len(s)
      BY <2>3 DEF IsInjective
    <3> QED
      BY <1>1, <2>1, <3>1
  <2>4. ~(/\ i \in DOMAIN s /\ c[i] = s[i]
          /\ j - Len(s) \in DOMAIN t /\ c[j] = t[j - Len(s)])
    BY DEF Range
  <2>5. ~(/\ j \in DOMAIN s /\ c[j] = s[j]
          /\ i - Len(s) \in DOMAIN t /\ c[i] = t[i - Len(s)])
    BY DEF Range
  <2> QED
    BY <1>4, <2>2, <2>3, <2>4, <2>5
<1>9. IsInjective(c)
  BY <1>8 DEF IsInjective
<1> QED
  BY <1>2, <1>7, <1>9 DEF c

\* domains_from_cursor visits every domain once.
LEMMA CursorLists ==
    ASSUME NEW cursor \in Domains, NEW S \in SUBSET Domains
    PROVE  /\ FromCursor(cursor, S) \in Seq(S)
           /\ Len(FromCursor(cursor, S)) = Cardinality(S)
           /\ IsInjective(FromCursor(cursor, S))
           /\ Range(FromCursor(cursor, S)) = S
<1> DEFINE key == [d \in S |-> Offset(cursor, d)]
<1>1. IsFiniteSet(S)
  BY DomainsFinite, FS_Subset
<1>2. DomainCount \in Nat /\ cursor \in 0 .. DomainCount - 1 /\ S \subseteq 0 .. DomainCount - 1
  BY DomainsFinite DEF Domains
<1>3. \A d \in S : Offset(cursor, d) \in Nat
  BY <1>2 DEF Offset
<1>4. key \in [S -> Nat]
  BY <1>3
<1>5. \A d, e \in S : key[d] = key[e] => d = e
  BY <1>2 DEF Offset
<1>6. FromCursor(cursor, S) = Ordered(S, key)
  BY DEF FromCursor
<1> HIDE DEF key
<1> QED
  BY <1>1, <1>4, <1>5, <1>6, OrderedLists

LEMMA InOrderLists ==
    ASSUME NEW S \in SUBSET Domains
    PROVE  /\ InOrder(S) \in Seq(S)
           /\ Len(InOrder(S)) = Cardinality(S)
           /\ IsInjective(InOrder(S))
           /\ Range(InOrder(S)) = S
BY DomainsFinite, CursorLists DEF InOrder

-----------------------------------------------------------------------------
(* What granting and revoking do to the allocator.                         *)

LEMMA AllocatorFacts ==
    ASSUME NEW a, AllocatorOK(a)
    PROVE  /\ a.active \in Seq(Domains)
           /\ Len(a.active) \in Nat
           /\ Len(a.active) <= DomainCount
           /\ Active(a) \in SUBSET Domains
           /\ Cardinality(Active(a)) = Len(a.active)
           /\ IsFiniteSet(Active(a))
           /\ a.draining \in SUBSET Domains
           /\ a.acknowledged \in SUBSET a.draining
           /\ a.overdue \in SUBSET Active(a)
           /\ a.cursor \in Domains
           /\ a.draining \cap Active(a) = {}
<1>1. a.active \in Seq(Domains) /\ a.draining \in SUBSET Domains /\ a.cursor \in Domains
  BY DEF AllocatorOK, Allocators
<1>2. /\ Len(a.active) \in Nat
      /\ IsFiniteSet(Active(a))
      /\ Cardinality(Active(a)) = Len(a.active)
      /\ Active(a) \subseteq Domains
  BY <1>1, DistinctLength DEF AllocatorOK, Active
<1>3. Len(a.active) <= DomainCount
  BY <1>2, DomainsFinite, FS_Subset
<1> QED
  BY <1>1, <1>2, <1>3 DEF AllocatorOK

\* The grants keep their order, and each of them one place in it.
LEMMA Positions ==
    ASSUME NEW a, AllocatorOK(a)
    PROVE  /\ \A d \in Active(a) : Position(a, d) \in 1 .. Len(a.active)
           /\ \A d, e \in Active(a) : Position(a, d) = Position(a, e) => d = e
<1>1. \A d \in Active(a) : \E i \in DOMAIN a.active : a.active[i] = d
  BY DEF Active, Range
<1>2. \A d \in Active(a) : Position(a, d) \in DOMAIN a.active /\ a.active[Position(a, d)] = d
  <2> SUFFICES ASSUME NEW d \in Active(a)
               PROVE  Position(a, d) \in DOMAIN a.active /\ a.active[Position(a, d)] = d
    OBVIOUS
  <2>1. \E i \in DOMAIN a.active : a.active[i] = d
    BY <1>1
  <2> QED
    BY <2>1 DEF Position
<1>3. DOMAIN a.active = 1 .. Len(a.active)
  BY AllocatorFacts
<1> QED
  BY <1>2, <1>3

\* grant: domains outside the allocator become active, after those that are.
LEMMA GrantKeeps ==
    ASSUME NEW a, AllocatorOK(a), NEW s \in Seq(Domains), IsInjective(s),
           Range(s) \cap Counted(a) = {}
    PROVE  /\ AllocatorOK(Grant(a, s))
           /\ Active(Grant(a, s)) = Active(a) \cup Range(s)
           /\ Grant(a, s).draining = a.draining
           /\ Grant(a, s).acknowledged = a.acknowledged
           /\ Len(Grant(a, s).active) = Len(a.active) + Len(s)
<1> DEFINE b == Grant(a, s)
<1>1. a \in Allocators /\ a.active \in Seq(Domains) /\ IsInjective(a.active)
  BY DEF AllocatorOK, Allocators
<1>2. Range(a.active) \cap Range(s) = {}
  BY DEF Counted, Active
<1>3. /\ a.active \o s \in Seq(Domains)
      /\ Len(a.active \o s) = Len(a.active) + Len(s)
      /\ IsInjective(a.active \o s)
      /\ Range(a.active \o s) = Range(a.active) \cup Range(s)
  BY <1>1, <1>2, JoinDistinct
<1>4. (IF s = <<>> THEN a.cursor ELSE Next1(s[Len(s)])) \in Domains
  <2>1. CASE s = <<>>
    BY <1>1, <2>1 DEF Allocators
  <2>2. CASE s # <<>>
    <3>1. s[Len(s)] \in Domains
      BY <2>2
    <3>2. Next1(s[Len(s)]) \in Domains
      BY <3>1, DomainsFinite DEF Next1, Domains
    <3> QED
      BY <2>2, <3>2
  <2> QED
    BY <2>1, <2>2
<1>5. /\ b.active = a.active \o s
      /\ b.draining = a.draining
      /\ b.acknowledged = a.acknowledged
      /\ b.overdue = a.overdue \ Range(s)
      /\ b \in Allocators
  <2>1. a.overdue \ Range(s) \in SUBSET Domains
    BY <1>1 DEF Allocators
  <2> QED
    BY <1>1, <1>3, <1>4, <2>1 DEF Grant, Allocators
<1> HIDE DEF b
<1>6. Active(b) = Active(a) \cup Range(s)
  BY <1>3, <1>5 DEF Active
<1>7. AllocatorOK(b)
  <2>1. b.draining \cap Active(b) = {}
    BY <1>5, <1>6, AllocatorFacts DEF Counted
  <2>2. b.overdue \subseteq Active(b) /\ b.acknowledged \subseteq b.draining
    BY <1>5, <1>6, AllocatorFacts
  <2> QED
    BY <1>3, <1>5, <2>1, <2>2 DEF AllocatorOK
<1> QED
  BY <1>3, <1>5, <1>6, <1>7 DEF b

\* revoke: active domains drain, and the others keep their order.
LEMMA RevokeKeeps ==
    ASSUME NEW a, AllocatorOK(a), NEW s \in Seq(Domains), Range(s) \subseteq Active(a)
    PROVE  /\ AllocatorOK(Revoke(a, s))
           /\ Active(Revoke(a, s)) = Active(a) \ Range(s)
           /\ Revoke(a, s).draining = a.draining \cup Range(s)
           /\ Revoke(a, s).acknowledged = a.acknowledged
           /\ Len(Revoke(a, s).active) = Cardinality(Active(a) \ Range(s))
<1> DEFINE b == Revoke(a, s)
           kept == Active(a) \ Range(s)
           key == [d \in kept |-> Position(a, d)]
<1>1. a \in Allocators /\ a.active \in Seq(Domains)
  BY DEF AllocatorOK, Allocators
<1>2. kept \in SUBSET Active(a) /\ kept \in SUBSET Domains /\ IsFiniteSet(kept)
  BY AllocatorFacts, FS_Subset
<1>3. key \in [kept -> Nat]
  <2>1. \A d \in kept : Position(a, d) \in Nat
    BY <1>2, Positions, AllocatorFacts
  <2> QED
    BY <2>1
<1>4. \A d, e \in kept : key[d] = key[e] => d = e
  BY <1>2, Positions
<1>5. /\ Ordered(kept, key) \in Seq(kept)
      /\ Len(Ordered(kept, key)) = Cardinality(kept)
      /\ IsInjective(Ordered(kept, key))
      /\ Range(Ordered(kept, key)) = kept
  <2> HIDE DEF key
  <2> HIDE DEF kept
  <2> QED
    BY <1>2, <1>3, <1>4, OrderedLists
<1>6. Ordered(kept, key) \in Seq(Domains)
  BY <1>2, <1>5, SeqMonotonic
<1>7. (IF s = <<>> THEN a.cursor ELSE Next1(s[Len(s)])) \in Domains
  <2>1. CASE s = <<>>
    BY <1>1, <2>1 DEF Allocators
  <2>2. CASE s # <<>>
    <3>1. s[Len(s)] \in Domains
      BY <2>2
    <3>2. Next1(s[Len(s)]) \in Domains
      BY <3>1, DomainsFinite DEF Next1, Domains
    <3> QED
      BY <2>2, <3>2
  <2> QED
    BY <2>1, <2>2
<1>8. /\ b.active = Ordered(kept, key)
      /\ b.draining = a.draining \cup Range(s)
      /\ b.acknowledged = a.acknowledged
      /\ b.overdue = a.overdue \ Range(s)
      /\ b \in Allocators
  <2>1. a.overdue \ Range(s) \in SUBSET Domains
    BY <1>1 DEF Allocators
  <2>2. a.draining \cup Range(s) \in SUBSET Domains
    BY AllocatorFacts
  <2>3. b = [a EXCEPT !.active = Ordered(kept, key),
                      !.overdue = @ \ Range(s),
                      !.draining = @ \cup Range(s),
                      !.cursor = IF s = <<>> THEN @ ELSE Next1(s[Len(s)])]
    BY DEF Revoke
  <2> HIDE DEF b
  <2> HIDE DEF key
  <2> HIDE DEF kept
  <2> QED
    BY <1>1, <1>6, <1>7, <2>1, <2>2, <2>3 DEF Allocators
<1> HIDE DEF b
<1> HIDE DEF key
<1>9. Active(b) = kept
  BY <1>5, <1>8 DEF Active
<1>10. AllocatorOK(b)
  <2>1. b.draining \cap Active(b) = {}
    BY <1>8, <1>9, AllocatorFacts
  <2>2. b.overdue \subseteq Active(b) /\ b.acknowledged \subseteq b.draining
    BY <1>8, <1>9, AllocatorFacts
  <2> QED
    BY <1>5, <1>8, <2>1, <2>2 DEF AllocatorOK
<1> QED
  BY <1>5, <1>8, <1>9, <1>10 DEF b

-----------------------------------------------------------------------------
(* The revoking stages of an update.                                       *)

\* b is a with some grants revoked: they drain, unacknowledged.
Narrowed(a, b) ==
    /\ AllocatorOK(b)
    /\ Counted(b) = Counted(a)
    /\ Active(b) \subseteq Active(a)
    /\ a.draining \subseteq b.draining
    /\ b.acknowledged = a.acknowledged
    /\ Len(b.active) <= Len(a.active)

LEMMA NarrowedTwice ==
    ASSUME NEW a, NEW b, NEW c, AllocatorOK(a), Narrowed(a, b), Narrowed(b, c)
    PROVE  Narrowed(a, c)
<1>1. AllocatorOK(b) /\ AllocatorOK(c)
  BY DEF Narrowed
<1>2. Len(a.active) \in Nat /\ Len(b.active) \in Nat /\ Len(c.active) \in Nat
  BY <1>1, AllocatorFacts
<1> QED
  BY <1>1, <1>2 DEF Narrowed

LEMMA NotNarrowed ==
    ASSUME NEW a, AllocatorOK(a)
    PROVE  Narrowed(a, a)
BY AllocatorFacts DEF Narrowed

LEMMA RevokeNarrows ==
    ASSUME NEW a, AllocatorOK(a), NEW s \in Seq(Domains), Range(s) \subseteq Active(a)
    PROVE  Narrowed(a, Revoke(a, s))
<1> DEFINE b == Revoke(a, s)
<1>1. /\ AllocatorOK(b)
      /\ Active(b) = Active(a) \ Range(s)
      /\ b.draining = a.draining \cup Range(s)
      /\ b.acknowledged = a.acknowledged
      /\ Len(b.active) = Cardinality(Active(a) \ Range(s))
  BY RevokeKeeps
<1>2. /\ Active(a) \ Range(s) \in SUBSET Active(a)
      /\ IsFiniteSet(Active(a))
      /\ Cardinality(Active(a)) = Len(a.active)
  BY AllocatorFacts
<1>3. Cardinality(Active(a) \ Range(s)) <= Len(a.active)
  BY <1>2, FS_Subset
<1>4. Counted(b) = Counted(a)
  BY <1>1 DEF Counted
<1> HIDE DEF b
<1>5. Narrowed(a, b)
  BY <1>1, <1>3, <1>4 DEF Narrowed
<1> QED
  BY <1>5 DEF b

\* The first n of a set of active domains, in the order of the cursor.
LEMMA RevokeSomeNarrows ==
    ASSUME NEW a, AllocatorOK(a), NEW S \in SUBSET Active(a), NEW cursor \in Domains,
           NEW n \in Nat
    PROVE  Narrowed(a, Revoke(a, FirstOf(FromCursor(cursor, S), n)))
<1>1. S \in SUBSET Domains
  BY AllocatorFacts
<1> DEFINE all == FromCursor(cursor, S)
<1>2. all \in Seq(S) /\ IsInjective(all) /\ Range(all) = S
  BY <1>1, CursorLists
<1>3. all \in Seq(Domains)
  BY <1>1, <1>2, SeqMonotonic
<1> HIDE DEF all
<1>4. FirstOf(all, n) \in Seq(Domains) /\ Range(FirstOf(all, n)) \subseteq Active(a)
  BY <1>2, <1>3, FirstOfPrefix
<1>5. Narrowed(a, Revoke(a, FirstOf(all, n)))
  BY <1>4, RevokeNarrows
<1> QED
  BY <1>5 DEF all

LEMMA RevokeAllNarrows ==
    ASSUME NEW a, AllocatorOK(a), NEW S \in SUBSET Active(a)
    PROVE  Narrowed(a, Revoke(a, InOrder(S)))
<1>1. S \in SUBSET Domains
  BY AllocatorFacts
<1>2. InOrder(S) \in Seq(S) /\ Range(InOrder(S)) = S
  BY <1>1, InOrderLists
<1>3. InOrder(S) \in Seq(Domains)
  BY <1>1, <1>2, SeqMonotonic
<1> QED
  BY <1>2, <1>3, RevokeNarrows

\* No two active domains have the same key in revoke_for_capacity.
LEMMA VictimKeysDiffer ==
    ASSUME NEW a, AllocatorOK(a), NEW facts
    PROVE  /\ \A d \in Active(a) : VictimKey(a, facts, d) \in Nat
           /\ \A d, e \in Active(a) : VictimKey(a, facts, d) = VictimKey(a, facts, e) => d = e
<1> DEFINE weight(d) == (IF facts[d].running THEN 2 * DomainCount ELSE 0)
                        + (IF HasExplicitWork(facts, d) THEN DomainCount ELSE 0)
           back(d) == Len(a.active) - Position(a, d)
<1>1. /\ DomainCount \in Nat \ {0}
      /\ Len(a.active) \in Nat
      /\ Len(a.active) <= DomainCount
  BY AllocatorFacts, DomainsFinite
<1>2. \A d \in Active(a) : Position(a, d) \in 1 .. Len(a.active)
  BY Positions
<1>3. \A d \in Active(a) : back(d) \in 0 .. DomainCount - 1
  BY <1>1, <1>2
<1>4. \A d : weight(d) \in {0, DomainCount, 2 * DomainCount, 3 * DomainCount}
  BY <1>1
<1>5. \A d \in Active(a) : VictimKey(a, facts, d) = weight(d) + back(d)
  <2> SUFFICES ASSUME NEW d \in Active(a)
               PROVE  VictimKey(a, facts, d) = weight(d) + back(d)
    OBVIOUS
  <2>1. weight(d) \in Nat
    BY <1>1
  <2>2. Position(a, d) \in Nat
    BY <1>1, <1>2
  <2>3. VictimKey(a, facts, d) = weight(d) + Len(a.active) - Position(a, d)
    BY DEF VictimKey
  <2> HIDE DEF weight
  <2> QED
    BY <1>1, <2>1, <2>2, <2>3
<1> HIDE DEF weight
<1>6. \A d, e \in Active(a) : back(d) = back(e) => d = e
  <2> SUFFICES ASSUME NEW d \in Active(a), NEW e \in Active(a), back(d) = back(e)
               PROVE  d = e
    OBVIOUS
  <2>1. Position(a, d) \in Nat /\ Position(a, e) \in Nat
    BY <1>1, <1>2
  <2>2. Position(a, d) = Position(a, e)
    BY <1>1, <2>1
  <2> QED
    BY <2>2, Positions
<1> HIDE DEF back
<1>7. \A d \in Active(a) : weight(d) + back(d) \in Nat
  BY <1>1, <1>3, <1>4
<1>8. \A d, e \in Active(a) : weight(d) + back(d) = weight(e) + back(e) => back(d) = back(e)
  BY <1>1, <1>3, <1>4
<1> QED
  BY <1>5, <1>6, <1>7, <1>8

\* revoke_for_capacity leaves no more grants than the capacity.
LEMMA FittedToNarrows ==
    ASSUME NEW a, AllocatorOK(a), NEW facts, NEW capacity \in Nat
    PROVE  /\ Narrowed(a, FittedTo(a, facts, capacity))
           /\ Len(FittedTo(a, facts, capacity).active) <= capacity
<1> DEFINE key == [d \in Active(a) |-> VictimKey(a, facts, d)]
           victims == Ordered(Active(a), key)
           n == AtLeastZero(Len(a.active) - capacity)
           s == FirstOf(victims, n)
<1>1. key \in [Active(a) -> Nat] /\ \A d, e \in Active(a) : key[d] = key[e] => d = e
  BY VictimKeysDiffer
<1>2. /\ Active(a) \in SUBSET Domains
      /\ IsFiniteSet(Active(a))
      /\ Cardinality(Active(a)) = Len(a.active)
      /\ Len(a.active) \in Nat
  BY AllocatorFacts
<1>3. /\ victims \in Seq(Active(a))
      /\ Len(victims) = Len(a.active)
      /\ IsInjective(victims)
      /\ Range(victims) = Active(a)
  <2> HIDE DEF key
  <2> QED
    BY <1>1, <1>2, OrderedLists
<1>4. n \in Nat /\ n >= Len(a.active) - capacity /\ n <= Len(a.active)
  BY <1>2 DEF AtLeastZero
<1>5. FittedTo(a, facts, capacity) = Revoke(a, s)
  BY DEF FittedTo
<1> HIDE DEF victims
<1> HIDE DEF n
<1>6. victims \in Seq(Domains)
  BY <1>2, <1>3, SeqMonotonic
<1>7. /\ s \in Seq(Domains)
      /\ Len(s) = n
      /\ IsInjective(s)
      /\ Range(s) \subseteq Active(a)
  <2>1. (IF n < Len(victims) THEN n ELSE Len(victims)) = n
    BY <1>2, <1>3, <1>4
  <2> QED
    BY <1>3, <1>4, <1>6, <2>1, FirstOfPrefix
<1> HIDE DEF s
<1>8. Narrowed(a, Revoke(a, s)) /\ Len(Revoke(a, s).active) = Cardinality(Active(a) \ Range(s))
  BY <1>7, RevokeNarrows, RevokeKeeps
<1>9. Cardinality(Range(s)) = n
  BY <1>7, DistinctLength
<1>10. Cardinality(Active(a) \ Range(s)) = Len(a.active) - n
  <2>1. Active(a) \cap Range(s) = Range(s)
    BY <1>7
  <2>2. Cardinality(Active(a) \ Range(s))
            = Cardinality(Active(a)) - Cardinality(Active(a) \cap Range(s))
    BY <1>2, FS_Difference
  <2> QED
    BY <1>2, <1>9, <2>1, <2>2
<1>11. Len(Revoke(a, s).active) <= capacity
  BY <1>2, <1>4, <1>8, <1>10
<1> QED
  BY <1>5, <1>8, <1>11

\* Withheld, revoke_idle_domains, preemption, rotation and the refreshed graces.
LEMMA WithheldNarrows ==
    ASSUME NEW a, AllocatorOK(a), NEW granted
    PROVE  Narrowed(a, Withheld(a, granted))
<1>1. Narrowed(a, Revoke(a, InOrder(Active(a) \ granted)))
  BY RevokeAllNarrows
<1> QED
  BY <1>1, NotNarrowed DEF Withheld

LEMMA WithoutIdleNarrows ==
    ASSUME NEW a, AllocatorOK(a), NEW facts
    PROVE  Narrowed(a, WithoutIdle(a, facts))
<1>1. {d \in Active(a) : ~HasWork(facts, d)} \in SUBSET Active(a)
  OBVIOUS
<1> QED
  BY <1>1, RevokeAllNarrows DEF WithoutIdle

LEMMA GivenUpForNarrows ==
    ASSUME NEW a, AllocatorOK(a), NEW waiters \in SUBSET Domains,
           NEW eligible \in SUBSET Active(a), NEW capacity \in Nat
    PROVE  Narrowed(a, GivenUpFor(a, waiters, eligible, capacity))
<1> DEFINE free == AtLeastZero(capacity - Len(a.active))
           needed == AtLeastZero(Cardinality(waiters) - free)
<1>1. IsFiniteSet(waiters)
  BY DomainsFinite, FS_Subset
<1>2. Cardinality(waiters) \in Nat /\ Len(a.active) \in Nat /\ a.cursor \in Domains
  BY <1>1, AllocatorFacts, FS_CardinalityType
<1>3. free \in Nat
  BY <1>2 DEF AtLeastZero
<1> HIDE DEF free
<1>4. needed \in Nat
  BY <1>2, <1>3 DEF AtLeastZero
<1>5. GivenUpFor(a, waiters, eligible, capacity)
          = Revoke(a, FirstOf(FromCursor(a.cursor, eligible), needed))
  BY DEF GivenUpFor, free
<1> HIDE DEF needed
<1> QED
  BY <1>2, <1>4, <1>5, RevokeSomeNarrows

LEMMA PreemptedNarrows ==
    ASSUME NEW a, AllocatorOK(a), NEW facts, NEW capacity \in Nat
    PROVE  Narrowed(a, Preempted(a, facts, capacity))
<1>1. {d \in Domains : facts[d].queued /\ HasExplicitWork(facts, d) /\ Outside(a, d)}
          \in SUBSET Domains
  OBVIOUS
<1>2. {d \in Active(a) : ~facts[d].running /\ ~HasExplicitWork(facts, d)} \in SUBSET Active(a)
  OBVIOUS
<1> QED
  BY <1>1, <1>2, GivenUpForNarrows DEF Preempted

LEMMA RotatedNarrows ==
    ASSUME NEW a, AllocatorOK(a), NEW facts, NEW capacity \in Nat, NEW ended
    PROVE  Narrowed(a, Rotated(a, facts, capacity, ended))
<1>1. {d \in Domains : facts[d].queued /\ Outside(a, d)} \in SUBSET Domains
  OBVIOUS
<1>2. {d \in Active(a) : d \in ended \/ (~facts[d].running /\ d \in a.overdue)}
          \in SUBSET Active(a)
  OBVIOUS
<1> QED
  BY <1>1, <1>2, GivenUpForNarrows DEF Rotated

LEMMA RefreshedNarrows ==
    ASSUME NEW a, AllocatorOK(a), NEW ended
    PROVE  Narrowed(a, Refreshed(a, ended))
<1> DEFINE b == Refreshed(a, ended)
<1>1. a \in Allocators /\ IsInjective(a.active)
  BY DEF AllocatorOK
<1>2. /\ b \in Allocators
      /\ b.active = a.active
      /\ b.draining = a.draining
      /\ b.acknowledged = a.acknowledged
      /\ b.overdue \subseteq a.overdue
  BY <1>1 DEF Refreshed, Allocators
<1> HIDE DEF b
<1>3. Active(b) = Active(a) /\ Counted(b) = Counted(a)
  BY <1>2 DEF Active, Counted
<1>4. AllocatorOK(b)
  BY <1>1, <1>2, <1>3, AllocatorFacts DEF AllocatorOK
<1>5. Len(b.active) <= Len(a.active)
  BY <1>2, AllocatorFacts
<1>6. Narrowed(a, b)
  BY <1>2, <1>3, <1>4, <1>5 DEF Narrowed
<1> QED
  BY <1>6 DEF b

\* The grants that are left once slots are taken back for work that waits.
TakenBack(a, facts, capacity, ended) ==
    Refreshed(Rotated(Preempted(WithoutIdle(a, facts), facts, capacity), facts, capacity, ended),
              ended)

LEMMA TakenBackNarrows ==
    ASSUME NEW a, AllocatorOK(a), NEW facts, NEW capacity \in Nat, NEW ended
    PROVE  Narrowed(a, TakenBack(a, facts, capacity, ended))
<1> DEFINE b == WithoutIdle(a, facts)
           c == Preempted(b, facts, capacity)
           e == Rotated(c, facts, capacity, ended)
<1>1. Narrowed(a, b)
  BY WithoutIdleNarrows
<1> HIDE DEF b
<1>2. AllocatorOK(b)
  BY <1>1 DEF Narrowed
<1>3. Narrowed(b, c)
  BY <1>2, PreemptedNarrows
<1> HIDE DEF c
<1>4. AllocatorOK(c) /\ Narrowed(a, c)
  BY <1>1, <1>2, <1>3, NarrowedTwice DEF Narrowed
<1>5. Narrowed(c, e)
  BY <1>4, RotatedNarrows
<1> HIDE DEF e
<1>6. AllocatorOK(e) /\ Narrowed(a, e)
  BY <1>4, <1>5, NarrowedTwice DEF Narrowed
<1>7. Narrowed(e, Refreshed(e, ended))
  BY <1>6, RefreshedNarrows
<1>8. Narrowed(a, Refreshed(e, ended))
  BY <1>6, <1>7, NarrowedTwice
<1> QED
  BY <1>8 DEF TakenBack, b, c, e

-----------------------------------------------------------------------------
(* The granting stages of an update.                                       *)

\* Finished retires a draining domain only when its close was acknowledged and
\* a fresh sample says it does not run.
LEMMA FinishedRetires ==
    ASSUME NEW a, AllocatorOK(a), NEW facts, NEW fresh
    PROVE  /\ AllocatorOK(Finished(a, facts, fresh))
           /\ Finished(a, facts, fresh).active = a.active
           /\ Finished(a, facts, fresh).draining \subseteq a.draining
           /\ \A d \in a.draining : facts[d].running \/ d \notin fresh
                  => d \in Finished(a, facts, fresh).draining
           /\ Openable(a) = Openable(Finished(a, facts, fresh))
<1> DEFINE left == {d \in a.draining :
                        d \notin a.acknowledged \/ d \notin fresh \/ facts[d].running}
           b == Finished(a, facts, fresh)
<1>1. a \in Allocators /\ IsInjective(a.active)
  BY DEF AllocatorOK
<1>2. left \in SUBSET Domains /\ left \subseteq a.draining /\ a.acknowledged \cap left \in SUBSET Domains
  BY AllocatorFacts
<1>3. b = [a EXCEPT !.draining = left, !.acknowledged = @ \cap left]
  BY DEF Finished
<1>4. \A d \in a.draining : (facts[d].running \/ d \notin fresh) => d \in left
  OBVIOUS
<1>5. a.draining \ a.acknowledged = left \ (a.acknowledged \cap left)
  OBVIOUS
<1> HIDE DEF left
<1> HIDE DEF b
<1>6. /\ b \in Allocators
      /\ b.active = a.active
      /\ b.draining = left
      /\ b.acknowledged = a.acknowledged \cap left
      /\ b.overdue = a.overdue
  BY <1>1, <1>2, <1>3 DEF Allocators
<1>7. Active(b) = Active(a)
  BY <1>6 DEF Active
<1>8. AllocatorOK(b)
  BY <1>1, <1>2, <1>6, <1>7, AllocatorFacts DEF AllocatorOK
<1>9. Openable(a) = Openable(b)
  BY <1>5, <1>6, <1>7 DEF Openable
<1> QED
  BY <1>2, <1>4, <1>6, <1>8, <1>9 DEF b

\* adopt_untracked_running_domains: a domain found running is counted from now
\* on, and nothing is closed on paper that is open in fact.
LEMMA AdoptedCounts ==
    ASSUME NEW a, AllocatorOK(a), NEW facts, NEW allowed \in BOOLEAN
    PROVE  /\ AllocatorOK(Adopted(a, facts, allowed))
           /\ Counted(Adopted(a, facts, allowed))
                  = Counted(a) \cup {d \in Domains : facts[d].running /\ Outside(a, d)}
           /\ Openable(a) \subseteq Openable(Adopted(a, facts, allowed))
<1> DEFINE untracked == {d \in Domains : facts[d].running /\ Outside(a, d)}
           b == Adopted(a, facts, allowed)
<1>1. untracked \in SUBSET Domains /\ untracked \cap Counted(a) = {}
  BY DEF Outside, Counted
<1>2. b = IF allowed /\ a.draining = {} THEN Grant(a, InOrder(untracked))
          ELSE [a EXCEPT !.draining = @ \cup untracked]
  BY DEF Adopted
<1> HIDE DEF untracked
<1> HIDE DEF b
<1>3. CASE allowed /\ a.draining = {}
  <2>1. /\ InOrder(untracked) \in Seq(untracked)
        /\ IsInjective(InOrder(untracked))
        /\ Range(InOrder(untracked)) = untracked
    BY <1>1, InOrderLists
  <2>2. InOrder(untracked) \in Seq(Domains)
    BY <1>1, <2>1, SeqMonotonic
  <2>3. /\ AllocatorOK(b)
        /\ Active(b) = Active(a) \cup untracked
        /\ b.draining = a.draining
        /\ b.acknowledged = a.acknowledged
    BY <1>1, <1>2, <1>3, <2>1, <2>2, GrantKeeps
  <2>4. Counted(b) = Counted(a) \cup untracked /\ Openable(a) \subseteq Openable(b)
    BY <2>3 DEF Counted, Openable
  <2> QED
    BY <2>3, <2>4 DEF b, untracked
<1>4. CASE ~(allowed /\ a.draining = {})
  <2>1. a \in Allocators /\ IsInjective(a.active)
    BY DEF AllocatorOK
  <2>2. a.draining \cup untracked \in SUBSET Domains
    BY <1>1, AllocatorFacts
  <2>3. /\ b \in Allocators
        /\ b.active = a.active
        /\ b.draining = a.draining \cup untracked
        /\ b.acknowledged = a.acknowledged
        /\ b.overdue = a.overdue
    BY <1>2, <1>4, <2>1, <2>2 DEF Allocators
  <2>4. Active(b) = Active(a)
    BY <2>3 DEF Active
  <2>5. AllocatorOK(b)
    BY <1>1, <2>1, <2>3, <2>4, AllocatorFacts DEF AllocatorOK, Counted
  <2>6. Counted(b) = Counted(a) \cup untracked /\ Openable(a) \subseteq Openable(b)
    BY <2>3, <2>4 DEF Counted, Openable
  <2> QED
    BY <2>5, <2>6 DEF b, untracked
<1> QED
  BY <1>3, <1>4

\* b is a with some grants added.
Widened(a, b) ==
    /\ AllocatorOK(b)
    /\ Active(a) \subseteq Active(b)
    /\ b.draining = a.draining
    /\ b.acknowledged = a.acknowledged

\* One pass of fill_available_slots.
FilledWith(a, facts, capacity, explicit) ==
    Grant(a, FirstOf(FromCursor(a.cursor,
                        {d \in Domains : /\ facts[d].queued
                                         /\ HasExplicitWork(facts, d) = explicit
                                         /\ Outside(a, d)}),
                     AtLeastZero(capacity - Len(a.active))))

LEMMA FilledWithWidens ==
    ASSUME NEW a, AllocatorOK(a), NEW facts, NEW capacity \in Nat, NEW explicit,
           Len(a.active) <= capacity
    PROVE  /\ Widened(a, FilledWith(a, facts, capacity, explicit))
           /\ Len(FilledWith(a, facts, capacity, explicit).active) <= capacity
<1> DEFINE S == {d \in Domains : /\ facts[d].queued
                                 /\ HasExplicitWork(facts, d) = explicit
                                 /\ Outside(a, d)}
           all == FromCursor(a.cursor, S)
           n == AtLeastZero(capacity - Len(a.active))
           s == FirstOf(all, n)
           b == Grant(a, s)
<1>1. S \in SUBSET Domains /\ S \cap Counted(a) = {}
  BY DEF Outside, Counted
<1>2. Len(a.active) \in Nat /\ a.cursor \in Domains
  BY AllocatorFacts
<1>3. n \in Nat /\ Len(a.active) + n = capacity
  <2>1. ~(capacity - Len(a.active) < 0)
    BY <1>2
  <2>2. n = capacity - Len(a.active)
    BY <2>1, Zenon DEF AtLeastZero
  <2> HIDE DEF n
  <2> QED
    BY <1>2, <2>2
<1>4. FilledWith(a, facts, capacity, explicit) = b
  BY DEF FilledWith
<1> HIDE DEF S
<1> HIDE DEF n
<1>5. all \in Seq(S) /\ IsInjective(all) /\ Range(all) = S
  BY <1>1, <1>2, CursorLists
<1>6. all \in Seq(Domains)
  BY <1>1, <1>5, SeqMonotonic
<1> HIDE DEF all
<1>7. Len(all) \in Nat
  BY <1>6
<1>8. /\ s \in Seq(Domains)
      /\ Len(s) = IF n < Len(all) THEN n ELSE Len(all)
      /\ IsInjective(s)
      /\ Range(s) \subseteq S
  BY <1>3, <1>5, <1>6, FirstOfPrefix
<1>9. Range(s) \cap Counted(a) = {} /\ Len(s) <= n /\ Len(s) \in Nat
  BY <1>1, <1>3, <1>7, <1>8
<1> HIDE DEF s
<1>10. /\ AllocatorOK(b)
       /\ Active(b) = Active(a) \cup Range(s)
       /\ b.draining = a.draining
       /\ b.acknowledged = a.acknowledged
       /\ Len(b.active) = Len(a.active) + Len(s)
  BY <1>8, <1>9, GrantKeeps
<1> HIDE DEF b
<1>11. Len(b.active) <= capacity
  BY <1>2, <1>3, <1>9, <1>10
<1>12. Widened(a, b)
  BY <1>10 DEF Widened
<1> QED
  BY <1>4, <1>11, <1>12

LEMMA FilledWidens ==
    ASSUME NEW a, AllocatorOK(a), NEW facts, NEW capacity \in Nat,
           Len(a.active) <= capacity
    PROVE  /\ Widened(a, Filled(a, facts, capacity))
           /\ Len(Filled(a, facts, capacity).active) <= capacity
<1> DEFINE b == FilledWith(a, facts, capacity, TRUE)
           c == FilledWith(b, facts, capacity, FALSE)
<1>1. Filled(a, facts, capacity) = c
  BY DEF Filled, FilledWith
<1>2. Widened(a, b) /\ Len(b.active) <= capacity
  BY FilledWithWidens
<1> HIDE DEF b
<1>3. AllocatorOK(b)
  BY <1>2 DEF Widened
<1>4. Widened(b, c) /\ Len(c.active) <= capacity
  BY <1>2, <1>3, FilledWithWidens
<1> HIDE DEF c
<1>5. Widened(a, c)
  BY <1>2, <1>4 DEF Widened
<1> QED
  BY <1>1, <1>4, <1>5

\* Slots are filled up to the capacity, and only when nothing drains.
LEMMA FilledAfterDrainWidens ==
    ASSUME NEW a, AllocatorOK(a), NEW facts, NEW capacity \in Nat,
           Len(a.active) <= capacity
    PROVE  LET b == FilledAfterDrain(a, facts, capacity)
           IN  /\ Widened(a, b)
               /\ Len(b.active) <= capacity
               /\ \/ b = a
                  \/ b.draining = {}
<1>1. Widened(a, a)
  BY DEF Widened
<1>2. Widened(a, Filled(a, facts, capacity)) /\ Len(Filled(a, facts, capacity).active) <= capacity
  BY FilledWidens
<1>3. CASE capacity = 0 \/ a.draining # {}
  BY <1>1, <1>3 DEF FilledAfterDrain
<1>4. CASE ~(capacity = 0 \/ a.draining # {})
  BY <1>2, <1>4 DEF FilledAfterDrain, Widened
<1> QED
  BY <1>3, <1>4

\* begin_close_transition only takes acknowledgements back.
LEMMA CloseBegunKeeps ==
    ASSUME NEW a, AllocatorOK(a), NEW before
    PROVE  LET b == CloseBegun(a, before)
           IN  /\ AllocatorOK(b)
               /\ b.active = a.active
               /\ b.draining = a.draining
               /\ Openable(a) \subseteq Openable(b)
<1> DEFINE b == CloseBegun(a, before)
<1>1. a \in Allocators /\ IsInjective(a.active)
  BY DEF AllocatorOK
<1>2. /\ b \in Allocators
      /\ b.active = a.active
      /\ b.draining = a.draining
      /\ b.acknowledged \subseteq a.acknowledged
      /\ b.overdue = a.overdue
  BY <1>1 DEF CloseBegun, Allocators
<1> HIDE DEF b
<1>3. Active(b) = Active(a)
  BY <1>2 DEF Active
<1>4. AllocatorOK(b)
  BY <1>1, <1>2, <1>3, AllocatorFacts DEF AllocatorOK
<1>5. Openable(a) \subseteq Openable(b)
  BY <1>2, <1>3 DEF Openable
<1> QED
  BY <1>2, <1>4, <1>5 DEF b

-----------------------------------------------------------------------------
(* A whole update.                                                         *)

\* What the domains may rely on when the allocator has taken an observation
\* in: grants fit the capacity; what may be open may still be open; a counted
\* domain leaves only by a fresh sample that says it does not run; one that
\* runs is counted; and either all that is counted fits the capacity, or
\* nothing was added but domains found running.
Updates(a, b, facts, fresh, capacity) ==
    /\ AllocatorOK(b)
    /\ Len(b.active) <= capacity
    /\ Openable(a) \subseteq Openable(b)
    /\ \A d \in Counted(a) : facts[d].running \/ d \notin fresh => d \in Counted(b)
    /\ \A d \in Domains : facts[d].running => d \in Counted(b)
    /\ \/ Cardinality(Counted(b)) <= capacity
       \/ \A d \in Counted(b) : d \in Counted(a) \/ facts[d].running

LEMMA OpenableNarrowed ==
    ASSUME NEW a, NEW b, AllocatorOK(a), Narrowed(a, b)
    PROVE  Openable(a) \subseteq Openable(b)
BY AllocatorFacts DEF Narrowed, Openable, Counted

LEMMA OpenableWidened ==
    ASSUME NEW a, NEW b, Widened(a, b)
    PROVE  Openable(a) \subseteq Openable(b)
BY DEF Widened, Openable

LEMMA UpdatedUpdates ==
    ASSUME NEW a, AllocatorOK(a), NEW facts, NEW fresh, NEW ended, NEW capacity \in Nat
    PROVE  Updates(a, Updated(a, facts, fresh, ended, capacity), facts, fresh, capacity)
<1> DEFINE observed == Finished(a, facts, fresh)
           adopted == Adopted(observed, facts, capacity > 0)
           fitted == FittedTo(adopted, facts, capacity)
           withheld == Withheld(fitted, Active(a))
           settled == IF capacity = 0 THEN withheld
                      ELSE TakenBack(withheld, facts, capacity, ended)
           filled == FilledAfterDrain(settled, facts, capacity)
           b == CloseBegun(filled, observed.draining)
<1>0. Updated(a, facts, fresh, ended, capacity) = b
  BY DEF Updated, TakenBack
<1>1. /\ AllocatorOK(observed)
      /\ observed.active = a.active
      /\ observed.draining \subseteq a.draining
      /\ \A d \in a.draining : facts[d].running \/ d \notin fresh => d \in observed.draining
      /\ Openable(a) = Openable(observed)
  BY FinishedRetires
<1> HIDE DEF observed
<1>2. /\ Active(observed) = Active(a)
      /\ Counted(observed) \subseteq Counted(a)
      /\ \A d \in Counted(a) : facts[d].running \/ d \notin fresh => d \in Counted(observed)
  BY <1>1 DEF Active, Counted
<1>3. /\ AllocatorOK(adopted)
      /\ Counted(adopted)
             = Counted(observed) \cup {d \in Domains : facts[d].running /\ Outside(observed, d)}
      /\ Openable(observed) \subseteq Openable(adopted)
  <2>1. (capacity > 0) \in BOOLEAN
    OBVIOUS
  <2> QED
    BY <1>1, <2>1, AdoptedCounts
<1> HIDE DEF adopted
<1>4. Narrowed(adopted, fitted) /\ Len(fitted.active) <= capacity
  BY <1>3, FittedToNarrows
<1> HIDE DEF fitted
<1>5. AllocatorOK(fitted)
  BY <1>4 DEF Narrowed
<1>6. Narrowed(fitted, withheld)
  BY <1>5, WithheldNarrows
<1> HIDE DEF withheld
<1>7. AllocatorOK(withheld)
  BY <1>6 DEF Narrowed
<1>8. Narrowed(withheld, settled)
  BY <1>7, TakenBackNarrows, NotNarrowed
<1> HIDE DEF settled
<1>9. AllocatorOK(settled) /\ Narrowed(adopted, settled) /\ Narrowed(fitted, settled)
  BY <1>3, <1>4, <1>5, <1>6, <1>7, <1>8, NarrowedTwice DEF Narrowed
<1>10. Len(settled.active) <= capacity
  <2>1. Len(settled.active) <= Len(fitted.active)
    BY <1>9 DEF Narrowed
  <2>2. Len(settled.active) \in Nat /\ Len(fitted.active) \in Nat
    BY <1>5, <1>9, AllocatorFacts
  <2> QED
    BY <1>4, <2>1, <2>2
<1>11. /\ Widened(settled, filled)
       /\ Len(filled.active) <= capacity
       /\ filled = settled \/ filled.draining = {}
  BY <1>9, <1>10, FilledAfterDrainWidens
<1> HIDE DEF filled
<1>12. AllocatorOK(filled)
  BY <1>11 DEF Widened
<1>13. /\ AllocatorOK(b)
       /\ b.active = filled.active
       /\ b.draining = filled.draining
       /\ Openable(filled) \subseteq Openable(b)
  BY <1>12, CloseBegunKeeps
<1> HIDE DEF b
<1>14. Counted(b) = Counted(filled) /\ Active(b) = Active(filled)
  BY <1>13 DEF Counted, Active
<1>15. Openable(a) \subseteq Openable(b)
  BY <1>1, <1>3, <1>9, <1>11, <1>13, OpenableNarrowed, OpenableWidened
<1>16. Counted(adopted) \subseteq Counted(b)
  <2>1. Counted(settled) = Counted(adopted)
    BY <1>9 DEF Narrowed
  <2>2. Counted(settled) \subseteq Counted(filled)
    BY <1>11 DEF Widened, Counted
  <2> QED
    BY <1>14, <2>1, <2>2
<1>17. \A d \in Counted(a) : facts[d].running \/ d \notin fresh => d \in Counted(b)
  BY <1>2, <1>3, <1>16
<1>18. \A d \in Domains : facts[d].running => d \in Counted(b)
  BY <1>3, <1>16 DEF Outside, Counted
<1>19. \/ Cardinality(Counted(b)) <= capacity
       \/ \A d \in Counted(b) : d \in Counted(a) \/ facts[d].running
  <2>1. CASE filled = settled
    <3>1. Counted(b) = Counted(adopted)
      BY <1>9, <1>14, <2>1 DEF Narrowed
    <3> QED
      BY <1>2, <1>3, <3>1
  <2>2. CASE filled.draining = {}
    <3>1. Counted(b) = Active(b)
      BY <1>13, <2>2 DEF Counted
    <3>2. Cardinality(Active(b)) = Len(b.active)
      BY <1>13, AllocatorFacts
    <3> QED
      BY <1>11, <1>13, <3>1, <3>2
  <2> QED
    BY <1>11, <2>1, <2>2
<1>20. Len(b.active) <= capacity
  BY <1>11, <1>13
<1> QED
  BY <1>0, <1>13, <1>15, <1>17, <1>18, <1>19, <1>20 DEF Updates

-----------------------------------------------------------------------------
(* The coordinator's decisions.                                            *)

AllPressures == {"Nominal", "Elevated", "Critical"}

LEMMA CapacityFits ==
    ASSUME NEW stress \in AllPressures, NEW playing \in BOOLEAN, NEW facts
    PROVE  Capacity(stress, playing, facts) \in 0 .. MachineSlots
<1>1. MachineSlots \in Nat /\ 1 <= MachineSlots
  BY SlotsAssumption
<1>2. 0 \in 0 .. MachineSlots /\ 1 \in 0 .. MachineSlots /\ MachineSlots \in 0 .. MachineSlots
  BY <1>1
<1>3. CASE stress = "Critical"
  BY <1>2, <1>3 DEF Capacity
<1>4. CASE stress # "Critical" /\ playing
  BY <1>2, <1>4 DEF Capacity
<1>5. CASE stress = "Elevated" /\ ~playing
  BY <1>2, <1>5 DEF Capacity
<1>6. CASE stress = "Nominal" /\ ~playing
  BY <1>2, <1>6 DEF Capacity
<1> QED
  BY <1>3, <1>4, <1>5, <1>6 DEF AllPressures

\* Whatever the coordinator recomputes the slots from, the machine's slots
\* bound what it grants.
LEMMA RefreshUpdates ==
    ASSUME NEW a, AllocatorOK(a), NEW facts, NEW stress \in AllPressures,
           NEW playing \in BOOLEAN, NEW fresh, NEW ended
    PROVE  Updates(a, RefreshedSlots(a, facts, stress, playing, fresh, ended), facts, fresh,
                   MachineSlots)
<1> DEFINE c == Capacity(stress, playing, facts)
           b == Updated(a, facts, fresh, ended, c)
<1>1. c \in 0 .. MachineSlots
  BY CapacityFits
<1>2. MachineSlots \in Nat
  BY SlotsAssumption
<1>3. RefreshedSlots(a, facts, stress, playing, fresh, ended) = b
  BY DEF RefreshedSlots
<1> HIDE DEF c
<1>4. Updates(a, b, facts, fresh, c)
  BY <1>1, <1>2, UpdatedUpdates
<1> HIDE DEF b
<1>5. AllocatorOK(b) /\ Len(b.active) <= c
  BY <1>4 DEF Updates
<1>6. Len(b.active) <= MachineSlots
  BY <1>1, <1>2, <1>5, AllocatorFacts
<1>7. Cardinality(Counted(b)) <= c => Cardinality(Counted(b)) <= MachineSlots
  <2>1. Counted(b) \in SUBSET Domains
    BY <1>5, AllocatorFacts DEF Counted
  <2>2. Cardinality(Counted(b)) \in Nat
    BY <2>1, DomainsFinite, FS_Subset, FS_CardinalityType
  <2> QED
    BY <1>1, <1>2, <2>2
<1>8. Updates(a, b, facts, fresh, MachineSlots)
  BY <1>4, <1>6, <1>7 DEF Updates
<1> QED
  BY <1>3, <1>8

LEMMA RecomputedUpdates ==
    ASSUME SlotsInv, NEW stress \in AllPressures
    PROVE  Updates(allocator, Recomputed(stress), demand, {}, MachineSlots)
<1>1. AllocatorOK(allocator) /\ realtime \in BOOLEAN
  BY DEF SlotsInv
<1> QED
  BY <1>1, RefreshUpdates DEF Recomputed

\* What one refresh of the demand does: the sample is of the domains as they
\* are, and the allocator takes it in.
LEMMA DemandUpdates ==
    ASSUME SlotsInv, NEW a, AllocatorOK(a), NEW window \in BOOLEAN,
           NEW stress \in AllPressures, NEW playing \in BOOLEAN,
           UpdateDemand(a, window, stress, playing)
    PROVE  /\ Updates(a, allocator', demand', Scope(window), MachineSlots)
           /\ demand' \in [Domains -> Facts]
           /\ \A d \in Domains :
                  demand'[d].running = IF d \in Scope(window) THEN domain[d].at = "Running"
                                       ELSE demand[d].running
           /\ domain' \in [Domains -> [at : Activities, queued : Nat, ended : BOOLEAN]]
           /\ \A d \in Domains : /\ domain'[d].at = domain[d].at
                                  /\ domain'[d].queued = domain[d].queued
<1> DEFINE sampled == [d \in Domains |->
                           IF d \in Scope(window) THEN Diagnostics(d) ELSE demand[d]]
           ended == {d \in Scope(window) : domain[d].ended}
<1>1. /\ demand' = sampled
      /\ allocator' = RefreshedSlots(a, sampled, stress, playing, Scope(window), ended)
      /\ domain' = [d \in Domains |-> [domain[d] EXCEPT !.ended = @ /\ d \notin ended]]
  BY DEF UpdateDemand
<1>2. /\ demand \in [Domains -> Facts]
      /\ domain \in [Domains -> [at : Activities, queued : Nat, ended : BOOLEAN]]
  BY DEF SlotsInv, DomainsOK
<1>3. Updates(a, allocator', sampled, Scope(window), MachineSlots)
  <2> HIDE DEF sampled
  <2> HIDE DEF ended
  <2> QED
    BY <1>1, RefreshUpdates
<1>4. \A d \in Domains : Diagnostics(d) \in Facts /\ Diagnostics(d).running = (domain[d].at = "Running")
  BY <1>2 DEF Diagnostics, Facts
<1>5. sampled \in [Domains -> Facts]
  BY <1>2, <1>4
<1>6. \A d \in Domains : sampled[d].running = IF d \in Scope(window) THEN domain[d].at = "Running"
                                              ELSE demand[d].running
  BY <1>4
<1>7. \A d \in Domains : /\ domain'[d] \in [at : Activities, queued : Nat, ended : BOOLEAN]
                         /\ domain'[d].at = domain[d].at
                         /\ domain'[d].queued = domain[d].queued
  <2> HIDE DEF ended
  <2> QED
    BY <1>1, <1>2
<1>8. domain' \in [Domains -> [at : Activities, queued : Nat, ended : BOOLEAN]]
  <2> HIDE DEF ended
  <2> QED
    BY <1>1, <1>7
<1> HIDE DEF sampled
<1> QED
  BY <1>1, <1>3, <1>5, <1>6, <1>7, <1>8

-----------------------------------------------------------------------------
(* Every step keeps the shape of the state.                                *)

LEMMA SlotsInit == Init => SlotsInv
<1> SUFFICES ASSUME Init
             PROVE  SlotsInv
  OBVIOUS
<1> USE DEF Init
<1>1. MachineSlots \in Nat
  BY SlotsAssumption
<1>2. <<>> \in Seq(Domains) /\ Len(<<>>) = 0 /\ DOMAIN <<>> = {} /\ IsInjective(<<>>)
  BY DEF IsInjective
<1>3. AllocatorOK(allocator)
  <2>1. Active(allocator) = {}
    BY <1>2 DEF Active, Range
  <2> QED
    BY <1>2, <2>1, DomainsFinite DEF AllocatorOK, Allocators
<1>4. Len(allocator.active) <= MachineSlots
  BY <1>1, <1>2
<1>5. DomainsOK
  BY DEF DomainsOK, Activities
<1>6. app \in [at : Steps, window : BOOLEAN]
  BY DEF Idle, Steps
<1>7. demand \in [Domains -> Facts] /\ seam \in [Domains -> BOOLEAN]
  BY DEF Facts
<1> QED
  BY <1>3, <1>4, <1>5, <1>6, <1>7 DEF SlotsInv

LEMMA UpdateDemandKeeps ==
    ASSUME SlotsInv, NEW a, AllocatorOK(a), NEW window \in BOOLEAN,
           NEW stress \in AllPressures, NEW playing \in BOOLEAN,
           UpdateDemand(a, window, stress, playing)
    PROVE  SlotsInv'
<1>1. /\ Updates(a, allocator', demand', Scope(window), MachineSlots)
      /\ demand' \in [Domains -> Facts]
      /\ domain' \in [Domains -> [at : Activities, queued : Nat, ended : BOOLEAN]]
      /\ \A d \in Domains : /\ domain'[d].at = domain[d].at
                             /\ domain'[d].queued = domain[d].queued
  BY DemandUpdates
<1>2. AllocatorOK(allocator') /\ Len(allocator'.active) <= MachineSlots
  BY <1>1 DEF Updates
<1>3. pressure' = stress /\ realtime' = playing /\ app' = Doing("Closing", window) /\ seam' = seam
  BY DEF UpdateDemand
<1>4. app' \in [at : Steps, window : BOOLEAN]
  BY <1>3 DEF Doing, Steps
<1>5. DomainsOK'
  BY <1>1 DEF SlotsInv, DomainsOK
<1> QED
  BY <1>1, <1>2, <1>3, <1>4, <1>5 DEF SlotsInv, AllPressures

\* The steps that sample the demand: they start from the allocator as it is,
\* or from one recomputed with nothing fresh.
DemandStep ==
    \/ WindowTick
    \/ InternalRefresh
    \/ ToggleTransport
    \/ \E stress \in Pressures, window \in BOOLEAN : ObservePressure(stress, window)

Basis(a) == a = allocator \/ Updates(allocator, a, demand, {}, MachineSlots)

LEMMA DemandStepSamples ==
    ASSUME SlotsInv, DemandStep
    PROVE  \E a : \E window \in BOOLEAN, stress \in AllPressures, playing \in BOOLEAN :
               AllocatorOK(a) /\ Basis(a) /\ UpdateDemand(a, window, stress, playing)
<1>1. /\ AllocatorOK(allocator)
      /\ pressure \in AllPressures
      /\ realtime \in BOOLEAN
  BY DEF SlotsInv, AllPressures
<1>2. CASE WindowTick
  BY <1>1, <1>2 DEF WindowTick, Basis
<1>3. CASE InternalRefresh
  BY <1>1, <1>3 DEF InternalRefresh, Basis
<1>4. CASE ToggleTransport
  <2>1. (~realtime) \in BOOLEAN
    OBVIOUS
  <2> QED
    BY <1>1, <1>4, <2>1 DEF ToggleTransport, Basis
<1>5. CASE \E stress \in Pressures, window \in BOOLEAN : ObservePressure(stress, window)
  <2>1. PICK stress \in Pressures, window \in BOOLEAN : ObservePressure(stress, window)
    BY <1>5
  <2>2. stress \in AllPressures
    BY SlotsAssumption DEF AllPressures
  <2>3. Updates(allocator, Recomputed(stress), demand, {}, MachineSlots)
    BY <2>2, RecomputedUpdates
  <2>4. AllocatorOK(Recomputed(stress)) /\ Basis(Recomputed(stress))
    BY <2>3 DEF Updates, Basis
  <2>5. UpdateDemand(Recomputed(stress), window, stress, realtime)
    BY <2>1 DEF ObservePressure
  <2> HIDE DEF Basis
  <2> QED
    BY <1>1, <2>2, <2>4, <2>5
<1> QED
  BY <1>2, <1>3, <1>4, <1>5 DEF DemandStep

LEMMA NextSplits ==
    Next <=> \/ DemandStep
             \/ ObserveViewer
             \/ CloseSeams
             \/ ApplyDecision
             \/ Commit
             \/ \E d \in Domains : \/ GraceExpires(d) \/ Submit(d) \/ Withdraw(d)
                                   \/ Start(d) \/ PassGate(d) \/ MarkRunning(d)
                                   \/ Yield(d) \/ Finish(d)
BY DEF Next, DemandStep, AppStep, Observation, WorkerStep

\* A step of a domain changes that domain only.
LEMMA WorksChanges ==
    ASSUME SlotsInv, NEW d \in Domains, NEW at \in Activities, NEW queued \in Nat,
           NEW ended \in BOOLEAN, Works(d, at, queued, ended),
           at = "Passed" => d \in LateMarked /\ queued > 0
    PROVE  /\ SlotsInv'
           /\ UNCHANGED <<allocator, demand, seam>>
           /\ domain'[d].at = at
           /\ \A e \in Domains : e # d => domain'[e] = domain[e]
<1>1. /\ domain' = [domain EXCEPT ![d] = [at |-> at, queued |-> queued, ended |-> ended]]
      /\ UNCHANGED <<allocator, demand, pressure, realtime, app, seam>>
  BY DEF Works
<1>2. domain \in [Domains -> [at : Activities, queued : Nat, ended : BOOLEAN]]
  BY DEF SlotsInv, DomainsOK
<1>3. /\ domain'[d] = [at |-> at, queued |-> queued, ended |-> ended]
      /\ \A e \in Domains : e # d => domain'[e] = domain[e]
      /\ domain' \in [Domains -> [at : Activities, queued : Nat, ended : BOOLEAN]]
  BY <1>1, <1>2
<1>4. DomainsOK'
  <2>1. \A e \in Domains :
            domain'[e].at = "Passed" => e \in LateMarked /\ domain'[e].queued > 0
    <3> SUFFICES ASSUME NEW e \in Domains, domain'[e].at = "Passed"
                 PROVE  e \in LateMarked /\ domain'[e].queued > 0
      OBVIOUS
    <3>1. CASE e = d
      BY <1>3, <3>1
    <3>2. CASE e # d
      BY <1>3, <3>2 DEF SlotsInv, DomainsOK
    <3> QED
      BY <3>1, <3>2
  <2> QED
    BY <1>3, <2>1 DEF DomainsOK
<1>5. SlotsInv'
  BY <1>1, <1>4 DEF SlotsInv, AllocatorOK
<1> QED
  BY <1>1, <1>3, <1>5

\* The steps of a domain by what they do to what it executes: an atomic start
\* needs its seam, a late marked worker runs without one, and the others begin
\* nothing.
LEMMA DomainSteps ==
    ASSUME SlotsInv, NEW d \in Domains,
           \/ Submit(d) \/ Withdraw(d) \/ Start(d) \/ PassGate(d) \/ MarkRunning(d)
           \/ Yield(d) \/ Finish(d) \/ (d = Export /\ Commit)
    PROVE  /\ SlotsInv'
           /\ UNCHANGED <<allocator, demand, seam>>
           /\ \A e \in Domains : e # d => domain'[e] = domain[e]
           /\ \/ domain'[d].at = domain[d].at
              \/ seam[d]
              \/ d \in LateMarked
              \/ domain'[d].at \notin {"Passed", "Running"}
<1>1. domain[d] \in [at : Activities, queued : Nat, ended : BOOLEAN]
  BY DEF SlotsInv, DomainsOK
<1>2. domain[d].at = "Passed" => d \in LateMarked /\ domain[d].queued > 0
  BY DEF SlotsInv, DomainsOK
<1>3. /\ domain[d].at \in Activities
      /\ domain[d].queued \in Nat
      /\ domain[d].ended \in BOOLEAN
  BY <1>1
<1>4. TRUE \in BOOLEAN /\ "Idle" \in Activities /\ "Passed" \in Activities
      /\ "Running" \in Activities /\ "Committing" \in Activities
  BY DEF Activities
<1>5. domain[d].queued + 1 \in Nat /\ (domain[d].queued > 0 => domain[d].queued - 1 \in Nat)
  BY <1>3
<1>6. CASE Submit(d)
  <2>1. Works(d, domain[d].at, domain[d].queued + 1, domain[d].ended)
    BY <1>6 DEF Submit
  <2>2. domain[d].at = "Passed" => d \in LateMarked /\ domain[d].queued + 1 > 0
    BY <1>2, <1>3
  <2> QED
    BY <1>3, <1>5, <2>1, <2>2, WorksChanges
<1>7. CASE Withdraw(d)
  <2>1. /\ domain[d].queued > IF domain[d].at = "Passed" THEN 1 ELSE 0
        /\ Works(d, domain[d].at, domain[d].queued - 1, TRUE)
    BY <1>7 DEF Withdraw
  <2>2. /\ domain[d].queued - 1 \in Nat
        /\ domain[d].at = "Passed" => d \in LateMarked /\ domain[d].queued - 1 > 0
    BY <1>2, <1>3, <2>1
  <2> QED
    BY <1>3, <1>4, <2>1, <2>2, WorksChanges
<1>8. CASE Start(d)
  <2>1. seam[d] /\ domain[d].queued > 0 /\ Works(d, "Running", domain[d].queued - 1, domain[d].ended)
    BY <1>8 DEF Start
  <2> QED
    BY <1>3, <1>4, <1>5, <2>1, WorksChanges
<1>9. CASE PassGate(d)
  <2>1. /\ d \in LateMarked /\ domain[d].queued > 0
        /\ Works(d, "Passed", domain[d].queued, domain[d].ended)
    BY <1>9 DEF PassGate
  <2> QED
    BY <1>3, <1>4, <2>1, WorksChanges
<1>10. CASE MarkRunning(d)
  <2>1. /\ d \in LateMarked /\ domain[d].queued > 0
        /\ Works(d, "Running", domain[d].queued - 1, domain[d].ended)
    BY <1>2, <1>10 DEF MarkRunning
  <2> QED
    BY <1>3, <1>4, <1>5, <2>1, WorksChanges
<1>11. CASE Yield(d)
  <2>1. Works(d, "Idle", domain[d].queued + 1, domain[d].ended)
    BY <1>11 DEF Yield
  <2> QED
    BY <1>3, <1>4, <1>5, <2>1, WorksChanges
<1>12. CASE Finish(d)
  <2>1. Works(d, "Idle", domain[d].queued, TRUE)
    BY <1>12 DEF Finish
  <2> QED
    BY <1>3, <1>4, <2>1, WorksChanges
<1>13. CASE d = Export /\ Commit
  <2>1. Works(d, "Committing", domain[d].queued, domain[d].ended)
    BY <1>13 DEF Commit
  <2> QED
    BY <1>3, <1>4, <2>1, WorksChanges
<1> QED
  BY <1>6, <1>7, <1>8, <1>9, <1>10, <1>11, <1>12, <1>13

\* acknowledge_close touches nothing but the acknowledgements.
LEMMA AcknowledgedKeeps ==
    ASSUME NEW a, AllocatorOK(a), NEW closed \in SUBSET Domains
    PROVE  LET b == Acknowledged(a, closed)
           IN  /\ AllocatorOK(b)
               /\ b.active = a.active
               /\ b.draining = a.draining
               /\ b.acknowledged = a.acknowledged \cup (closed \cap a.draining)
<1> DEFINE b == Acknowledged(a, closed)
<1>1. a \in Allocators /\ IsInjective(a.active)
  BY DEF AllocatorOK
<1>2. a.acknowledged \cup (closed \cap a.draining) \in SUBSET Domains
  BY AllocatorFacts
<1>3. /\ b \in Allocators
      /\ b.active = a.active
      /\ b.draining = a.draining
      /\ b.acknowledged = a.acknowledged \cup (closed \cap a.draining)
      /\ b.overdue = a.overdue
  BY <1>1, <1>2 DEF Acknowledged, Allocators
<1> HIDE DEF b
<1>4. Active(b) = Active(a)
  BY <1>3 DEF Active
<1>5. AllocatorOK(b)
  BY <1>1, <1>3, <1>4, AllocatorFacts DEF AllocatorOK
<1> QED
  BY <1>3, <1>5 DEF b

LEMMA SlotsNext ==
    ASSUME SlotsInv, [Next]_vars
    PROVE  SlotsInv'
<1>1. CASE DemandStep
  <2>1. PICK a : \E window \in BOOLEAN, stress \in AllPressures, playing \in BOOLEAN :
                     AllocatorOK(a) /\ Basis(a) /\ UpdateDemand(a, window, stress, playing)
    BY <1>1, DemandStepSamples
  <2> QED
    BY <2>1, UpdateDemandKeeps
<1>2. CASE ObserveViewer
  <2>1. /\ allocator' = Recomputed(pressure)
        /\ UNCHANGED <<demand, pressure, realtime, app, seam, domain>>
    BY <1>2 DEF ObserveViewer
  <2>2. pressure \in AllPressures
    BY DEF SlotsInv, AllPressures
  <2>3. Updates(allocator, allocator', demand, {}, MachineSlots)
    BY <2>1, <2>2, RecomputedUpdates
  <2>4. AllocatorOK(allocator') /\ Len(allocator'.active) <= MachineSlots
    BY <2>3 DEF Updates
  <2> QED
    BY <2>1, <2>4 DEF SlotsInv, DomainsOK
<1>3. CASE CloseSeams
  <2> DEFINE closing == allocator.draining \cap Scope(app.window)
  <2>1. /\ seam' = [d \in Domains |-> seam[d] /\ d \notin closing]
        /\ allocator' = Acknowledged(allocator, closing)
        /\ app' = Doing("Opening", app.window)
        /\ UNCHANGED <<demand, pressure, realtime, domain>>
    BY <1>3 DEF CloseSeams
  <2>2. closing \in SUBSET Domains
    BY AllocatorFacts DEF SlotsInv
  <2> HIDE DEF closing
  <2>3. AllocatorOK(allocator') /\ allocator'.active = allocator.active
    BY <2>1, <2>2, AcknowledgedKeeps DEF SlotsInv
  <2>4. seam' \in [Domains -> BOOLEAN] /\ app' \in [at : Steps, window : BOOLEAN]
    BY <2>1 DEF SlotsInv, Doing, Steps
  <2> QED
    BY <2>1, <2>3, <2>4 DEF SlotsInv, DomainsOK
<1>4. CASE ApplyDecision
  <2>1. /\ seam' = [d \in Domains |-> IF d \in Scope(app.window) THEN d \in Active(allocator)
                                      ELSE seam[d]]
        /\ app' = Idle
        /\ UNCHANGED <<allocator, demand, pressure, realtime, domain>>
    BY <1>4 DEF ApplyDecision
  <2>2. app' \in [at : Steps, window : BOOLEAN]
    BY <2>1 DEF Idle, Steps
  <2>3. seam' \in [Domains -> BOOLEAN]
    <3>1. seam \in [Domains -> BOOLEAN]
      BY DEF SlotsInv
    <3>2. \A d \in Domains : (d \in Active(allocator)) \in BOOLEAN /\ seam[d] \in BOOLEAN
      BY <3>1
    <3>3. \A d \in Domains : (IF d \in Scope(app.window) THEN d \in Active(allocator)
                             ELSE seam[d]) \in BOOLEAN
      BY <3>2
    <3> QED
      BY <2>1, <3>3
  <2> QED
    BY <2>1, <2>2, <2>3 DEF SlotsInv, DomainsOK
<1>5. CASE Commit
  BY <1>5, SlotsAssumption, DomainSteps DEF Internal
<1>6. CASE \E d \in Domains : GraceExpires(d)
  <2>1. PICK d \in Domains : GraceExpires(d)
    BY <1>6
  <2>2. /\ d \in Active(allocator)
        /\ allocator' = [allocator EXCEPT !.overdue = @ \cup {d}]
        /\ UNCHANGED <<demand, pressure, realtime, app, seam, domain>>
    BY <2>1 DEF GraceExpires
  <2>3. allocator \in Allocators /\ IsInjective(allocator.active)
    BY DEF SlotsInv, AllocatorOK
  <2>4. allocator.overdue \cup {d} \in SUBSET Domains
    BY <2>3 DEF Allocators
  <2>5. /\ allocator' \in Allocators
        /\ allocator'.active = allocator.active
        /\ allocator'.draining = allocator.draining
        /\ allocator'.acknowledged = allocator.acknowledged
        /\ allocator'.overdue = allocator.overdue \cup {d}
    BY <2>2, <2>3, <2>4 DEF Allocators
  <2>6. Active(allocator') = Active(allocator)
    BY <2>5 DEF Active
  <2>7. AllocatorOK(allocator')
    BY <2>2, <2>3, <2>5, <2>6 DEF SlotsInv, AllocatorOK
  <2> QED
    BY <2>2, <2>5, <2>7 DEF SlotsInv, DomainsOK
<1>7. CASE \E d \in Domains : \/ Submit(d) \/ Withdraw(d) \/ Start(d) \/ PassGate(d)
                              \/ MarkRunning(d) \/ Yield(d) \/ Finish(d)
  BY <1>7, DomainSteps
<1>8. CASE UNCHANGED vars
  BY <1>8 DEF vars, SlotsInv, DomainsOK, AllocatorOK
<1> QED
  BY <1>1, <1>2, <1>3, <1>4, <1>5, <1>6, <1>7, <1>8, NextSplits

LEMMA SlotsInvariance == Spec => []SlotsInv
<1>1. Init => SlotsInv
  BY SlotsInit
<1>2. SlotsInv /\ [Next]_vars => SlotsInv'
  BY SlotsNext
<1> QED
  BY <1>1, <1>2, PTL DEF Spec

\* ExecutionResourceSlotAllocator, whatever demand it is shown, fresh or not,
\* in whatever order refreshes, acknowledgements and graces come, never grants
\* more domains than the machine has slots, never grants one that drains, and
\* holds acknowledgements of draining domains only.
THEOREM SlotsTypeCorrect == Spec => []SlotsTypeOK
<1>1. SlotsInv => SlotsTypeOK
  <2> SUFFICES ASSUME SlotsInv
               PROVE  SlotsTypeOK
    OBVIOUS
  <2>1. allocator.draining \subseteq Domains \ Active(allocator)
    BY AllocatorFacts DEF SlotsInv
  <2>2. allocator.cursor \in Domains /\ allocator.active \in Seq(Domains)
    BY AllocatorFacts DEF SlotsInv
  <2> QED
    BY <2>1, <2>2 DEF SlotsInv, SlotsTypeOK, AllocatorOK, Steps
<1> QED
  BY <1>1, SlotsInvariance, PTL

-----------------------------------------------------------------------------
(* Open seams follow grants.                                               *)

LEMMA OpenableGrows ==
    ASSUME SlotsInv, DemandStep \/ ObserveViewer
    PROVE  Openable(allocator) \subseteq Openable(allocator') /\ seam' = seam
<1>1. CASE DemandStep
  <2>1. PICK a : \E window \in BOOLEAN, stress \in AllPressures, playing \in BOOLEAN :
                     AllocatorOK(a) /\ Basis(a) /\ UpdateDemand(a, window, stress, playing)
    BY <1>1, DemandStepSamples
  <2>2. PICK window \in BOOLEAN, stress \in AllPressures, playing \in BOOLEAN :
            AllocatorOK(a) /\ Basis(a) /\ UpdateDemand(a, window, stress, playing)
    BY <2>1
  <2>3. Updates(a, allocator', demand', Scope(window), MachineSlots)
    BY <2>2, DemandUpdates
  <2>4. Openable(allocator) \subseteq Openable(a)
    BY <2>2 DEF Basis, Updates
  <2> QED
    BY <2>2, <2>3, <2>4 DEF Updates, UpdateDemand
<1>2. CASE ObserveViewer
  <2>1. pressure \in AllPressures
    BY DEF SlotsInv, AllPressures
  <2>2. Updates(allocator, Recomputed(pressure), demand, {}, MachineSlots)
    BY <2>1, RecomputedUpdates
  <2> QED
    BY <1>2, <2>2 DEF ObserveViewer, Updates
<1> QED
  BY <1>1, <1>2

LEMMA SeamsNext ==
    ASSUME SlotsInv, SeamsFollowGrants, [Next]_vars
    PROVE  SeamsFollowGrants'
<1>1. \A d \in Domains : seam[d] => d \in Openable(allocator)
  BY DEF SeamsFollowGrants, Openable
<1>2. SUFFICES \A d \in Domains : seam'[d] => d \in Openable(allocator')
  BY DEF SeamsFollowGrants, Openable
<1>3. CASE DemandStep \/ ObserveViewer
  BY <1>1, <1>3, OpenableGrows
<1>4. CASE CloseSeams
  <2> DEFINE closing == allocator.draining \cap Scope(app.window)
  <2>1. /\ seam' = [d \in Domains |-> seam[d] /\ d \notin closing]
        /\ allocator' = Acknowledged(allocator, closing)
    BY <1>4 DEF CloseSeams
  <2>2. closing \in SUBSET Domains
    BY AllocatorFacts DEF SlotsInv
  <2> HIDE DEF closing
  <2>3. /\ allocator'.active = allocator.active
        /\ allocator'.draining = allocator.draining
        /\ allocator'.acknowledged = allocator.acknowledged \cup (closing \cap allocator.draining)
    BY <2>1, <2>2, AcknowledgedKeeps DEF SlotsInv
  <2> QED
    BY <1>1, <2>1, <2>3 DEF Openable, Active
<1>5. CASE ApplyDecision
  <2>1. /\ seam' = [d \in Domains |-> IF d \in Scope(app.window) THEN d \in Active(allocator)
                                      ELSE seam[d]]
        /\ allocator' = allocator
    BY <1>5 DEF ApplyDecision
  <2> QED
    BY <1>1, <2>1 DEF Openable
<1>6. CASE \/ Commit
           \/ \E d \in Domains : \/ Submit(d) \/ Withdraw(d) \/ Start(d) \/ PassGate(d)
                                 \/ MarkRunning(d) \/ Yield(d) \/ Finish(d)
  <2>1. allocator' = allocator /\ seam' = seam
    BY <1>6, SlotsAssumption, DomainSteps DEF Internal
  <2> QED
    BY <1>1, <2>1
<1>7. CASE \E d \in Domains : GraceExpires(d)
  <2>1. PICK d \in Domains : GraceExpires(d)
    BY <1>7
  <2>2. allocator' = [allocator EXCEPT !.overdue = @ \cup {d}] /\ seam' = seam
    BY <2>1 DEF GraceExpires
  <2>3. allocator \in Allocators
    BY DEF SlotsInv, AllocatorOK
  <2>4. /\ allocator'.active = allocator.active
        /\ allocator'.draining = allocator.draining
        /\ allocator'.acknowledged = allocator.acknowledged
    BY <2>2, <2>3 DEF Allocators
  <2>5. Openable(allocator') = Openable(allocator)
    BY <2>4 DEF Openable, Active
  <2> QED
    BY <1>1, <2>2, <2>5
<1>8. CASE UNCHANGED vars
  BY <1>1, <1>8 DEF vars
<1> QED
  BY <1>3, <1>4, <1>5, <1>6, <1>7, <1>8, NextSplits

\* A seam that App or Window holds open belongs to a domain that is granted or
\* that drains without an acknowledged close: so acknowledge_close, which is
\* called once a seam is shut, excludes new starts until the domain is retired,
\* in whatever order refreshes of either scope and recomputations follow.
THEOREM OpenSeamsAreCounted == Spec => []SeamsFollowGrants
<1>1. Init => SeamsFollowGrants
  BY DEF Init, SeamsFollowGrants
<1>2. SlotsInv /\ SeamsFollowGrants /\ [Next]_vars => SeamsFollowGrants'
  BY SeamsNext
<1> QED
  BY <1>1, <1>2, SlotsInvariance, PTL DEF Spec

-----------------------------------------------------------------------------
(* Atomic starts fit the machine.                                          *)

LEMMA PartFits ==
    ASSUME NEW T \in SUBSET Domains, Cardinality(T) <= MachineSlots, NEW S \in SUBSET T
    PROVE  Cardinality(S) <= MachineSlots
<1>1. IsFiniteSet(T)
  BY DomainsFinite, FS_Subset
<1>2. IsFiniteSet(S) /\ Cardinality(S) <= Cardinality(T)
  BY <1>1, FS_Subset
<1>3. Cardinality(S) \in Nat /\ Cardinality(T) \in Nat /\ MachineSlots \in Nat
  BY <1>1, <1>2, FS_CardinalityType, SlotsAssumption
<1> QED
  BY <1>2, <1>3

LEMMA CountedDomains ==
    ASSUME NEW a, AllocatorOK(a)
    PROVE  Counted(a) \in SUBSET Domains
BY AllocatorFacts DEF Counted

\* An update adds no atomic domain that was not counted, unless all it counts
\* fits the machine.
LEMMA UpdateFits ==
    ASSUME NEW a, AllocatorOK(a), NEW b, NEW facts, NEW fresh,
           Updates(a, b, facts, fresh, MachineSlots),
           Cardinality(Counted(a) \cap Atomic) <= MachineSlots,
           \A d \in Atomic : facts[d].running => d \in Counted(a)
    PROVE  Cardinality(Counted(b) \cap Atomic) <= MachineSlots
<1>1. AllocatorOK(b)
  BY DEF Updates
<1>2. Counted(a) \in SUBSET Domains /\ Counted(b) \in SUBSET Domains
  BY <1>1, CountedDomains
<1>3. CASE Cardinality(Counted(b)) <= MachineSlots
  <2>1. Counted(b) \cap Atomic \in SUBSET Counted(b)
    OBVIOUS
  <2> QED
    BY <1>2, <1>3, <2>1, PartFits
<1>4. CASE \A d \in Counted(b) : d \in Counted(a) \/ facts[d].running
  <2>1. Counted(b) \cap Atomic \in SUBSET (Counted(a) \cap Atomic)
    BY <1>4
  <2>2. Counted(a) \cap Atomic \in SUBSET Domains
    BY <1>2
  <2> QED
    BY <2>1, <2>2, PartFits
<1> QED
  BY <1>3, <1>4 DEF Updates

\* A recomputation with nothing fresh retires nothing and adds nothing atomic.
LEMMA RecomputationFits ==
    ASSUME SlotsInv, StartsInv, NEW a, Basis(a)
    PROVE  /\ Counted(allocator) \subseteq Counted(a)
           /\ Cardinality(Counted(a) \cap Atomic) <= MachineSlots
<1>1. CASE a = allocator
  BY <1>1 DEF StartsInv, CountedFit
<1>2. CASE Updates(allocator, a, demand, {}, MachineSlots)
  <2>1. \A d \in Atomic : demand[d].running => d \in Counted(allocator)
    BY DEF StartsInv, AttemptsAreCounted
  <2>2. Cardinality(Counted(allocator) \cap Atomic) <= MachineSlots
    BY DEF StartsInv, CountedFit
  <2>3. Cardinality(Counted(a) \cap Atomic) <= MachineSlots
    BY <1>2, <2>1, <2>2, UpdateFits DEF SlotsInv
  <2>4. Counted(allocator) \subseteq Counted(a)
    BY <1>2 DEF Updates
  <2> QED
    BY <2>3, <2>4
<1> QED
  BY <1>1, <1>2 DEF Basis

LEMMA StartsNext ==
    ASSUME SlotsInv, SeamsFollowGrants, StartsInv, [Next]_vars
    PROVE  StartsInv'
<1>1. SlotsInv'
  BY SlotsNext
<1>2. \A d \in Atomic : d \in Domains /\ domain[d].at # "Passed"
  BY DEF Atomic, SlotsInv, DomainsOK
<1>3. CASE DemandStep
  <2>1. PICK a : \E window \in BOOLEAN, stress \in AllPressures, playing \in BOOLEAN :
                     AllocatorOK(a) /\ Basis(a) /\ UpdateDemand(a, window, stress, playing)
    BY <1>3, DemandStepSamples
  <2>2. PICK window \in BOOLEAN, stress \in AllPressures, playing \in BOOLEAN :
            AllocatorOK(a) /\ Basis(a) /\ UpdateDemand(a, window, stress, playing)
    BY <2>1
  <2>3. /\ Updates(a, allocator', demand', Scope(window), MachineSlots)
        /\ \A d \in Domains :
               demand'[d].running = IF d \in Scope(window) THEN domain[d].at = "Running"
                                    ELSE demand[d].running
        /\ \A d \in Domains : domain'[d].at = domain[d].at
    BY <2>2, DemandUpdates
  <2>4. /\ Counted(allocator) \subseteq Counted(a)
        /\ Cardinality(Counted(a) \cap Atomic) <= MachineSlots
    BY <2>2, RecomputationFits
  <2>5. \A d \in Atomic : (demand'[d].running \/ domain[d].at = "Running") => d \in Counted(a)
    BY <1>2, <2>3, <2>4 DEF StartsInv, AttemptsAreCounted, AtWork
  <2>6. CountedFit'
    <3>1. Cardinality(Counted(allocator') \cap Atomic) <= MachineSlots
      BY <2>2, <2>3, <2>4, <2>5, UpdateFits
    <3> QED
      BY <3>1 DEF CountedFit
  <2>7. \A d \in Atomic : (domain'[d].at \in {"Passed", "Running"} \/ demand'[d].running)
                              => d \in Counted(allocator')
    <3> SUFFICES ASSUME NEW d \in Atomic,
                        domain'[d].at \in {"Passed", "Running"} \/ demand'[d].running
                 PROVE  d \in Counted(allocator')
      OBVIOUS
    <3>1. d \in Domains
      BY <1>2
    <3>2. CASE demand'[d].running
      BY <2>3, <3>1, <3>2 DEF Updates
    <3>3. CASE domain'[d].at \in {"Passed", "Running"}
      <4>1. domain[d].at = "Running"
        BY <1>2, <2>3, <3>1, <3>3
      <4>2. d \in Counted(a)
        BY <2>5, <4>1
      <4>3. demand'[d].running \/ d \notin Scope(window)
        BY <2>3, <3>1, <4>1
      <4> QED
        BY <2>3, <4>2, <4>3 DEF Updates
    <3> QED
      BY <3>2, <3>3
  <2>8. AttemptsAreCounted'
    BY <2>7 DEF AttemptsAreCounted, AtWork
  <2> QED
    BY <2>6, <2>8 DEF StartsInv
<1>4. CASE ObserveViewer
  <2>1. pressure \in AllPressures
    BY DEF SlotsInv, AllPressures
  <2>2. Basis(allocator') /\ demand' = demand /\ domain' = domain
    BY <1>4, <2>1, RecomputedUpdates DEF ObserveViewer, Basis
  <2>3. /\ Counted(allocator) \subseteq Counted(allocator')
        /\ Cardinality(Counted(allocator') \cap Atomic) <= MachineSlots
    BY <2>2, RecomputationFits
  <2> QED
    BY <2>2, <2>3 DEF StartsInv, AttemptsAreCounted, CountedFit, AtWork
<1>5. CASE CloseSeams
  <2> DEFINE closing == allocator.draining \cap Scope(app.window)
  <2>1. /\ allocator' = Acknowledged(allocator, closing)
        /\ demand' = demand /\ domain' = domain
    BY <1>5 DEF CloseSeams
  <2>2. closing \in SUBSET Domains
    BY AllocatorFacts DEF SlotsInv
  <2> HIDE DEF closing
  <2>3. allocator'.active = allocator.active /\ allocator'.draining = allocator.draining
    BY <2>1, <2>2, AcknowledgedKeeps DEF SlotsInv
  <2>4. Counted(allocator') = Counted(allocator)
    BY <2>3 DEF Counted, Active
  <2> QED
    BY <2>1, <2>4 DEF StartsInv, AttemptsAreCounted, CountedFit, AtWork
<1>6. CASE ApplyDecision
  BY <1>6 DEF ApplyDecision, StartsInv, AttemptsAreCounted, CountedFit, AtWork
<1>7. CASE \/ Commit
           \/ \E d \in Domains : \/ Submit(d) \/ Withdraw(d) \/ Start(d) \/ PassGate(d)
                                 \/ MarkRunning(d) \/ Yield(d) \/ Finish(d)
  <2>1. PICK d \in Domains : \/ Submit(d) \/ Withdraw(d) \/ Start(d) \/ PassGate(d)
                             \/ MarkRunning(d) \/ Yield(d) \/ Finish(d)
                             \/ d = Export /\ Commit
    BY <1>7, SlotsAssumption DEF Internal
  <2>2. /\ allocator' = allocator /\ demand' = demand
        /\ \A e \in Domains : e # d => domain'[e] = domain[e]
        /\ \/ domain'[d].at = domain[d].at
           \/ seam[d]
           \/ d \in LateMarked
           \/ domain'[d].at \notin {"Passed", "Running"}
    BY <2>1, DomainSteps
  <2>3. seam[d] => d \in Counted(allocator)
    BY DEF SeamsFollowGrants, Counted
  <2>4. \A e \in Atomic : domain'[e].at \in {"Passed", "Running"} => e \in Counted(allocator)
    <3> SUFFICES ASSUME NEW e \in Atomic, domain'[e].at \in {"Passed", "Running"}
                 PROVE  e \in Counted(allocator)
      OBVIOUS
    <3>1. e \in Domains /\ e \notin LateMarked
      BY DEF Atomic
    <3>2. domain[e].at \in {"Passed", "Running"} => e \in Counted(allocator)
      BY DEF StartsInv, AttemptsAreCounted, AtWork
    <3>3. CASE e = d
      BY <2>2, <2>3, <3>1, <3>2, <3>3
    <3>4. CASE e # d
      BY <2>2, <3>1, <3>2, <3>4
    <3> QED
      BY <3>3, <3>4
  <2>5. AttemptsAreCounted'
    BY <2>2, <2>4 DEF StartsInv, AttemptsAreCounted, AtWork
  <2> QED
    BY <2>2, <2>5 DEF StartsInv, CountedFit
<1>8. CASE \E d \in Domains : GraceExpires(d)
  <2>1. PICK d \in Domains : GraceExpires(d)
    BY <1>8
  <2>2. /\ allocator' = [allocator EXCEPT !.overdue = @ \cup {d}]
        /\ demand' = demand /\ domain' = domain
    BY <2>1 DEF GraceExpires
  <2>3. allocator \in Allocators
    BY DEF SlotsInv, AllocatorOK
  <2>4. allocator'.active = allocator.active /\ allocator'.draining = allocator.draining
    BY <2>2, <2>3 DEF Allocators
  <2>5. Counted(allocator') = Counted(allocator)
    BY <2>4 DEF Counted, Active
  <2> QED
    BY <2>2, <2>5 DEF StartsInv, AttemptsAreCounted, CountedFit, AtWork
<1>9. CASE UNCHANGED vars
  BY <1>9 DEF vars, StartsInv, AttemptsAreCounted, CountedFit, AtWork
<1> QED
  BY <1>3, <1>4, <1>5, <1>6, <1>7, <1>8, <1>9, NextSplits

LEMMA StartsInit == Init => StartsInv
<1> SUFFICES ASSUME Init
             PROVE  StartsInv
  OBVIOUS
<1> USE DEF Init
<1>1. Counted(allocator) = {}
  BY DEF Counted, Active, Range
<1>2. Cardinality(Counted(allocator) \cap Atomic) <= MachineSlots
  <2>1. Counted(allocator) \cap Atomic = {}
    BY <1>1
  <2>2. Cardinality({}) = 0 /\ 0 <= MachineSlots
    BY FS_EmptySet, SlotsAssumption
  <2> QED
    BY <2>1, <2>2
<1>3. \A d \in Atomic : ~(AtWork(d) \/ demand[d].running)
  BY DEF Atomic, AtWork
<1> QED
  BY <1>2, <1>3 DEF StartsInv, AttemptsAreCounted, CountedFit

LEMMA CountedStartsFit ==
    ASSUME SlotsInv, StartsInv
    PROVE  AtomicStartsFit
<1>1. {d \in Domains \ LateMarked : AtWork(d)} \in SUBSET (Counted(allocator) \cap Atomic)
  BY DEF StartsInv, AttemptsAreCounted, Atomic
<1>2. Counted(allocator) \cap Atomic \in SUBSET Domains
  BY DEF Atomic
<1> QED
  BY <1>1, <1>2, PartFits DEF AtomicStartsFit, StartsInv, CountedFit

\* Demand is sampled before the seams close, and attempts start in between; the
\* two-phase drain of the allocator still keeps the domains that start under
\* the lock of their seam within the slots of the machine, for any number of
\* domains and slots.
THEOREM StartsFitTheMachine == Spec => []AtomicStartsFit
<1>1. Init => StartsInv
  BY StartsInit
<1>2. SlotsInv /\ SeamsFollowGrants /\ StartsInv /\ [Next]_vars => StartsInv'
  BY StartsNext
<1>3. SlotsInv /\ StartsInv => AtomicStartsFit
  BY CountedStartsFit
<1> QED
  BY <1>1, <1>2, <1>3, SlotsInvariance, OpenSeamsAreCounted, PTL DEF Spec

=============================================================================
