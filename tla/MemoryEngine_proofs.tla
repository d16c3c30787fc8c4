------------------------- MODULE MemoryEngine_proofs -------------------------
(***************************************************************************)
(* Proofs about the in-memory engine, for every set of ids, priorities,    *)
(* delays, leases, batch limits, keys, bodies, streams and links and any   *)
(* number of calls: its queue hands out jobs of one priority in the order  *)
(* they were pushed and implements the plain queue, batches included, and  *)
(* its objects, events and links implement the record store.               *)
(***************************************************************************)
EXTENDS MemoryEngine, FiniteSetTheorems, WellFoundedInduction, TLAPS

-----------------------------------------------------------------------------
(* The stable sort *)

Prio(d, i) == d[i].job.prio
Precedes(d, j, i) == Prio(d, j) < Prio(d, i) \/ (Prio(d, j) = Prio(d, i) /\ j < i)
Preceding(d, i) == {j \in DOMAIN d : Precedes(d, j, i)}

(* Two positions are never of the same rank: one of them precedes, and is   *)
(* preceded by fewer.                                                       *)
LEMMA RankGrows ==
    ASSUME NEW d \in Seq(Entry), NEW i \in DOMAIN d, NEW j \in DOMAIN d, Precedes(d, i, j)
    PROVE  Cardinality(Preceding(d, i)) < Cardinality(Preceding(d, j))
<1>1. /\ DOMAIN d = 1..Len(d) /\ Len(d) \in Nat
      /\ \A k \in DOMAIN d : k \in Nat /\ d[k] \in Entry
  OBVIOUS
<1>2. \A k \in DOMAIN d : Prio(d, k) \in Nat
  BY <1>1 DEF Prio, Entry, Job
<1>3. \A k \in DOMAIN d : Precedes(d, k, i) => Precedes(d, k, j)
  BY <1>1, <1>2 DEF Precedes
<1>4. ~Precedes(d, i, i)
  BY <1>1, <1>2 DEF Precedes
<1>5. /\ Preceding(d, i) \subseteq Preceding(d, j) /\ i \in Preceding(d, j)
      /\ i \notin Preceding(d, i) /\ Preceding(d, j) \subseteq 1..Len(d)
  BY <1>1, <1>3, <1>4 DEF Preceding
<1>6. PICK A, B : A = Preceding(d, i) /\ B = Preceding(d, j)
  OBVIOUS
<1>7. IsFiniteSet(1..Len(d))
  BY <1>1, FS_Interval
<1>8. IsFiniteSet(B) /\ Cardinality(B) \in Nat
  BY <1>5, <1>6, <1>7, FS_Subset, FS_CardinalityType
<1>9. IsFiniteSet(A) /\ Cardinality(A) <= Cardinality(B) /\ Cardinality(A) \in Nat
      /\ (Cardinality(B) = Cardinality(A) => B = A)
  BY <1>5, <1>6, <1>8, FS_Subset, FS_CardinalityType
<1>10. A # B
  BY <1>5, <1>6
<1> QED
  BY <1>6, <1>8, <1>9, <1>10

(* Of two positions one precedes the other. *)
LEMMA PrecedesTotal ==
    ASSUME NEW d \in Seq(Entry), NEW i \in DOMAIN d, NEW j \in DOMAIN d
    PROVE  i = j \/ Precedes(d, i, j) \/ Precedes(d, j, i)
<1>1. /\ DOMAIN d = 1..Len(d) /\ i \in Nat /\ j \in Nat /\ d[i] \in Entry /\ d[j] \in Entry
  OBVIOUS
<1>2. Prio(d, i) \in Nat /\ Prio(d, j) \in Nat
  BY <1>1 DEF Prio, Entry, Job
<1> QED
  BY <1>1, <1>2 DEF Precedes

(* The ranks are 0 to n - 1, each taken once. *)
LEMMA RanksTaken ==
    ASSUME NEW d \in Seq(Entry), NEW r \in DOMAIN d
    PROVE  \E i \in DOMAIN d : Cardinality(Preceding(d, i)) = r - 1
<1>1. DOMAIN d = 1..Len(d) /\ Len(d) \in Nat
  OBVIOUS
<1>2. PICK n \in Nat : n = Len(d)
  BY <1>1
<1>3. PICK f : f = [i \in 1..n |-> Cardinality(Preceding(d, i)) + 1]
  OBVIOUS
<1>4. ASSUME NEW i \in 1..n PROVE f[i] \in 1..n
  <2>1. PICK A : A = Preceding(d, i)
    OBVIOUS
  <2>2. A \subseteq (1..n) \ {i}
    <3>1. d[i] \in Entry /\ i \in Nat
      BY <1>1, <1>2
    <3>2. Prio(d, i) \in Nat
      BY <3>1 DEF Prio, Entry, Job
    <3>3. ~Precedes(d, i, i)
      BY <3>1, <3>2 DEF Precedes
    <3> QED
      BY <1>1, <1>2, <2>1, <3>3 DEF Preceding
  <2>3. IsFiniteSet(1..n) /\ Cardinality(1..n) = n
    BY FS_Interval
  <2>4. PICK W : W = (1..n) \ {i}
    OBVIOUS
  <2>w. IsFiniteSet(W) /\ Cardinality(W) = n - 1
    BY <2>3, <2>4, FS_RemoveElement
  <2>5. Cardinality(A) \in Nat /\ Cardinality(A) <= n - 1
    <3>1. A \in SUBSET W
      BY <2>2, <2>4
    <3>2. IsFiniteSet(A) /\ Cardinality(A) <= Cardinality(W)
      BY <3>1, <2>w, FS_Subset
    <3>3. Cardinality(A) \in Nat
      BY <3>2, FS_CardinalityType
    <3> QED
      BY <3>2, <3>3, <2>w
  <2>6. f[i] = Cardinality(A) + 1
    BY <1>3, <2>1
  <2> QED
    BY <2>5, <2>6
<1>5. ASSUME NEW i \in 1..n, NEW j \in 1..n, i # j PROVE f[i] # f[j]
  <2>1. Precedes(d, i, j) \/ Precedes(d, j, i)
    BY <1>1, <1>2, <1>5, PrecedesTotal
  <2>2. PICK a, b : a = Cardinality(Preceding(d, i)) /\ b = Cardinality(Preceding(d, j))
    OBVIOUS
  <2>3. a < b \/ b < a
    BY <1>1, <1>2, <2>1, <2>2, RankGrows
  <2>4. f[i] = a + 1 /\ f[j] = b + 1 /\ f[i] \in Nat /\ f[j] \in Nat
    BY <1>3, <1>4, <2>2
  <2>5. a \in Nat /\ b \in Nat
    <3>1. IsFiniteSet(1..n)
      BY FS_Interval
    <3>2. Preceding(d, i) \subseteq 1..n /\ Preceding(d, j) \subseteq 1..n
      BY <1>1, <1>2 DEF Preceding
    <3> QED
      BY <2>2, <3>1, <3>2, FS_Subset, FS_CardinalityType
  <2> QED
    BY <2>3, <2>4, <2>5
<1>6. f \in Injection(1..n, 1..n)
  <2>1. f \in [1..n -> 1..n]
    BY <1>3, <1>4
  <2> QED
    BY <2>1, <1>5 DEF Injection, IsInjective
<1>7. f \in Surjection(1..n, 1..n)
  <2>1. IsFiniteSet(1..n)
    BY FS_Interval
  <2> QED
    BY <1>6, <2>1, FS_Injection
<1>8. PICK i \in 1..n : f[i] = r
  BY <1>1, <1>2, <1>7 DEF Surjection
<1>9. Cardinality(Preceding(d, i)) + 1 = r
  BY <1>3, <1>8
<1>10. Cardinality(Preceding(d, i)) \in Nat
  <2>1. IsFiniteSet(1..n)
    BY FS_Interval
  <2>2. Preceding(d, i) \subseteq 1..n
    BY <1>1, <1>2 DEF Preceding
  <2> QED
    BY <2>1, <2>2, FS_Subset, FS_CardinalityType
<1> QED
  BY <1>1, <1>2, <1>9, <1>10

(* How a sort rearranges: p[r] is the position of what comes to r. *)
Rearranges(p, d, e) ==
    /\ p \in [DOMAIN d -> DOMAIN d]
    /\ \A i \in DOMAIN d : \E r \in DOMAIN d : p[r] = i
    /\ \A r, s \in DOMAIN d : r < s => Precedes(d, p[r], p[s])
    /\ e = [r \in DOMAIN d |-> d[p[r]]]

(* sort_by_key is a stable sort: a permutation that keeps equals in order. *)
LEMMA SortedRearranges ==
    ASSUME NEW d \in Seq(Entry)
    PROVE  \E p : Rearranges(p, d, Sorted(d))
<1>1. PICK p : p = [r \in DOMAIN d |-> CHOOSE i \in DOMAIN d : Cardinality(Preceding(d, i)) = r - 1]
  OBVIOUS
<1>2. \A r \in DOMAIN d : p[r] \in DOMAIN d /\ Cardinality(Preceding(d, p[r])) = r - 1
  BY <1>1, RanksTaken
<1>3. p \in [DOMAIN d -> DOMAIN d]
  BY <1>1, <1>2
<1>4. DOMAIN d = 1..Len(d) /\ Len(d) \in Nat
  OBVIOUS
<1>5. ASSUME NEW r \in DOMAIN d, NEW s \in DOMAIN d, r < s PROVE Precedes(d, p[r], p[s])
  <2>1. PICK a, b : a = p[r] /\ b = p[s] /\ a \in DOMAIN d /\ b \in DOMAIN d
    BY <1>2
  <2>2. Cardinality(Preceding(d, a)) = r - 1 /\ Cardinality(Preceding(d, b)) = s - 1
    BY <1>2, <2>1
  <2>3. a # b /\ ~Precedes(d, b, a)
    BY <1>4, <1>5, <2>1, <2>2, RankGrows
  <2> QED
    BY <2>1, <2>3, PrecedesTotal
<1>6. ASSUME NEW i \in DOMAIN d PROVE \E r \in DOMAIN d : p[r] = i
  <2>1. p \in Injection(DOMAIN d, DOMAIN d)
    <3>1. ASSUME NEW r \in DOMAIN d, NEW s \in DOMAIN d, p[r] = p[s] PROVE r = s
      <4>1. r - 1 = s - 1
        BY <1>2, <3>1
      <4> QED
        BY <1>4, <4>1
    <3> QED
      BY <1>3, <3>1 DEF Injection, IsInjective
  <2>2. IsFiniteSet(DOMAIN d)
    BY <1>4, FS_Interval
  <2>3. p \in Surjection(DOMAIN d, DOMAIN d)
    BY <2>1, <2>2, FS_Injection
  <2> QED
    BY <2>3 DEF Surjection
<1>7. Sorted(d) = [r \in DOMAIN d |-> d[p[r]]]
  BY <1>1 DEF Sorted, Preceding, Precedes, Prio
<1>8. Rearranges(p, d, Sorted(d))
  BY <1>3, <1>5, <1>6, <1>7 DEF Rearranges
<1> QED
  BY <1>8

-----------------------------------------------------------------------------
(* The deque *)

(* Released, claimed, answered: still jobs, of the same priority and age. *)
LEMMA JobSteps ==
    ASSUME NEW j \in Job, NEW time \in Nat, NEW d \in Nat, NEW ack \in BOOLEAN
    PROVE  /\ Released(j) \in Job /\ Released(j).status # "none"
           /\ Released(j).prio = j.prio /\ Released(j).created = j.created
           /\ Claimed(j, time, d, ack) \in Job /\ Claimed(j, time, d, ack).status # "none"
           /\ Claimed(j, time, d, ack).prio = j.prio
           /\ Claimed(j, time, d, ack).created = j.created
           /\ Acked(j) \in Job /\ Acked(j).status # "none"
           /\ Acked(j).prio = j.prio /\ Acked(j).created = j.created
           /\ Nacked(j, time, d) \in Job /\ Nacked(j, time, d).status # "none"
           /\ Nacked(j, time, d).prio = j.prio /\ Nacked(j, time, d).created = j.created
<1>1. /\ Released(j) \in Job /\ Released(j).status # "none"
      /\ Released(j).prio = j.prio /\ Released(j).created = j.created
  BY DEF Released, Job, Status, None
<1>2. /\ Claimed(j, time, d, ack) \in Job /\ Claimed(j, time, d, ack).status # "none"
      /\ Claimed(j, time, d, ack).prio = j.prio /\ Claimed(j, time, d, ack).created = j.created
  <2>1. PICK s \in Status : s = IF ack THEN "completed" ELSE "leased"
    BY DEF Status
  <2>2. PICK a, t \in Nat : a = j.attempts + 1 /\ t = time + d
    BY DEF Job
  <2>3. Claimed(j, time, d, ack) = [j EXCEPT !.status = s, !.attempts = a, !.expires = t]
    BY <2>1, <2>2 DEF Claimed, Job
  <2>4. PICK c : c = [j EXCEPT !.status = s, !.attempts = a, !.expires = t]
    OBVIOUS
  <2>5. c \in Job /\ c.status = s /\ c.prio = j.prio /\ c.created = j.created
    BY <2>1, <2>2, <2>4 DEF Job
  <2>6. s # "none"
    BY <2>1
  <2> QED
    BY <2>3, <2>4, <2>5, <2>6
<1>3. /\ Acked(j) \in Job /\ Acked(j).status # "none"
      /\ Acked(j).prio = j.prio /\ Acked(j).created = j.created
  BY DEF Acked, Job, Status
<1>4. /\ Nacked(j, time, d) \in Job /\ Nacked(j, time, d).status # "none"
      /\ Nacked(j, time, d).prio = j.prio /\ Nacked(j, time, d).created = j.created
  <2>1. CASE j.attempts >= j.max
    BY <2>1 DEF Nacked, Job, Status, None
  <2>2. CASE ~(j.attempts >= j.max)
    <3>1. PICK t \in Nat : t = time + d
      OBVIOUS
    <3> QED
      BY <2>2, <3>1 DEF Nacked, Job, Status, None
  <2> QED
    BY <2>1, <2>2
<1> QED
  BY <1>1, <1>2, <1>3, <1>4

(* An id is there once. *)
OneEach(d) == \A i, j \in DOMAIN d : d[i].id = d[j].id => i = j
Pushed(d) == \A i \in DOMAIN d : d[i].job.status # "none" /\ d[i].job.created <= now
InOrder(d) ==
    \A i, j \in DOMAIN d :
        i < j /\ d[i].job.prio = d[j].job.prio => d[i].job.created <= d[j].job.created
Sound(d) == d \in Seq(Entry) /\ OneEach(d) /\ Pushed(d) /\ InOrder(d)

QueueInv == now \in Nat /\ Sound(deque)

(* What an operation may make of a deque without moving a job. *)
Updates(d, e) ==
    /\ e \in Seq(Entry) /\ DOMAIN e = DOMAIN d
    /\ \A i \in DOMAIN d :
          /\ e[i].id = d[i].id /\ e[i].job.status # "none"
          /\ e[i].job.prio = d[i].job.prio /\ e[i].job.created = d[i].job.created

(* Such an update keeps the deque sound. *)
LEMMA UpdateSound ==
    ASSUME NEW d, NEW e, Sound(d), Updates(d, e)
    PROVE  Sound(e)
<1>1. OneEach(e)
  BY DEF Sound, OneEach, Updates
<1>2. Pushed(e)
  BY DEF Sound, Pushed, Updates
<1>3. InOrder(e)
  BY DEF Sound, InOrder, Updates
<1> QED
  BY <1>1, <1>2, <1>3 DEF Sound, Updates

(* A sequence made position by position is one. *)
LEMMA MappedSeq ==
    ASSUME NEW d \in Seq(Entry), NEW e, DOMAIN e = DOMAIN d, e = [i \in DOMAIN d |-> e[i]],
           \A i \in DOMAIN d : e[i] \in Entry
    PROVE  e \in Seq(Entry)
<1>1. DOMAIN d = 1..Len(d) /\ Len(d) \in Nat
  OBVIOUS
<1>2. e \in [1..Len(d) -> Entry]
  BY <1>1
<1> QED
  BY <1>1, <1>2

(* The jobs that leases ran out for are ready again, where they were. *)
LEMMA ReleaseUpdates ==
    ASSUME NEW d \in Seq(Entry), \A i \in DOMAIN d : d[i].job.status # "none"
    PROVE  /\ Updates(d, ReleaseExpired(d))
           /\ \A i \in DOMAIN d : ReleaseExpired(d)[i].job =
                 IF LeaseExpired(d[i].job, now) THEN Released(d[i].job) ELSE d[i].job
<1>1. PICK e : e = ReleaseExpired(d)
  OBVIOUS
<1>2. /\ DOMAIN e = DOMAIN d /\ e = [i \in DOMAIN d |-> e[i]]
      /\ \A i \in DOMAIN d : e[i] = IF LeaseExpired(d[i].job, now)
                                    THEN [d[i] EXCEPT !.job = Released(@)] ELSE d[i]
  BY <1>1 DEF ReleaseExpired
<1>3. ASSUME NEW i \in DOMAIN d
      PROVE  /\ e[i] \in Entry /\ e[i].id = d[i].id /\ e[i].job.status # "none"
             /\ e[i].job.prio = d[i].job.prio /\ e[i].job.created = d[i].job.created
             /\ e[i].job = IF LeaseExpired(d[i].job, now) THEN Released(d[i].job) ELSE d[i].job
  <2>1. d[i] \in Entry
    OBVIOUS
  <2>2. CASE LeaseExpired(d[i].job, now)
    <3>1. Released(d[i].job) \in Job /\ Released(d[i].job).status = "ready"
          /\ Released(d[i].job).prio = d[i].job.prio
          /\ Released(d[i].job).created = d[i].job.created
      BY <2>1 DEF Entry, Job, Released, Status, None
    <3> QED
      BY <1>2, <2>1, <2>2, <3>1 DEF Entry
  <2>3. CASE ~LeaseExpired(d[i].job, now)
    BY <1>2, <2>1, <2>3
  <2> QED
    BY <2>2, <2>3
<1>4. e \in Seq(Entry)
  BY <1>2, <1>3, MappedSeq
<1> QED
  BY <1>1, <1>2, <1>3, <1>4 DEF Updates

(* The same entries in another order. *)
Permutes(d, e) ==
    /\ DOMAIN e = DOMAIN d
    /\ \A i \in DOMAIN d : \E r \in DOMAIN e : e[r] = d[i]
    /\ \A r \in DOMAIN e : \E i \in DOMAIN d : e[r] = d[i]
MostUrgentFirst(e) == \A i, j \in DOMAIN e : i < j => e[i].job.prio <= e[j].job.prio

(* The sorted deque is sound, has the same entries, the most urgent first. *)
LEMMA SortSound ==
    ASSUME NEW d, Sound(d)
    PROVE  Sound(Sorted(d)) /\ Permutes(d, Sorted(d)) /\ MostUrgentFirst(Sorted(d))
<1>0. d \in Seq(Entry) /\ DOMAIN d = 1..Len(d) /\ Len(d) \in Nat
  BY DEF Sound
<1>1. PICK e : e = Sorted(d)
  OBVIOUS
<1>2. PICK p : Rearranges(p, d, e)
  BY <1>0, <1>1, SortedRearranges
<1>3. /\ DOMAIN e = DOMAIN d /\ e = [r \in DOMAIN d |-> e[r]]
      /\ \A r \in DOMAIN d : p[r] \in DOMAIN d /\ e[r] = d[p[r]]
  BY <1>2 DEF Rearranges
<1>4. \A r, s \in DOMAIN d : r < s => Precedes(d, p[r], p[s])
  BY <1>2 DEF Rearranges
<1>5. \A i \in DOMAIN d : d[i] \in Entry /\ d[i].job.prio \in Nat /\ i \in Nat
  <2>1. \A i \in DOMAIN d : d[i] \in Entry /\ i \in Nat
    BY <1>0
  <2> QED
    BY <2>1 DEF Entry, Job
<1>6. e \in Seq(Entry)
  <2>1. \A r \in DOMAIN d : e[r] \in Entry
    BY <1>3, <1>5
  <2> QED
    BY <1>0, <1>3, <2>1, MappedSeq
<1>7. Permutes(d, e)
  <2>1. \A i \in DOMAIN d : \E r \in DOMAIN d : p[r] = i
    BY <1>2 DEF Rearranges
  <2> QED
    BY <1>3, <2>1 DEF Permutes
<1>8. \A r, s \in DOMAIN d : p[r] = p[s] => r = s
  <2> SUFFICES ASSUME NEW r \in DOMAIN d, NEW s \in DOMAIN d, p[r] = p[s], r < s PROVE FALSE
    BY <1>5
  <2>1. Precedes(d, p[r], p[r])
    BY <1>4
  <2> QED
    BY <2>1, <1>3, <1>5 DEF Precedes, Prio
<1>9. OneEach(e)
  <2> SUFFICES ASSUME NEW r \in DOMAIN d, NEW s \in DOMAIN d, e[r].id = e[s].id PROVE r = s
    BY <1>3 DEF OneEach
  <2>1. p[r] = p[s]
    BY <1>3 DEF Sound, OneEach
  <2> QED
    BY <1>8, <2>1
<1>10. Pushed(e)
  <2> SUFFICES ASSUME NEW r \in DOMAIN d
               PROVE  e[r].job.status # "none" /\ e[r].job.created <= now
    BY <1>3 DEF Pushed
  <2>1. PICK i \in DOMAIN d : i = p[r] /\ e[r] = d[i]
    BY <1>3
  <2> QED
    BY <2>1 DEF Sound, Pushed
<1>11. InOrder(e)
  <2> SUFFICES ASSUME NEW r \in DOMAIN d, NEW s \in DOMAIN d, r < s,
                      e[r].job.prio = e[s].job.prio
               PROVE  e[r].job.created <= e[s].job.created
    BY <1>3 DEF InOrder
  <2>1. Precedes(d, p[r], p[s])
    BY <1>4
  <2>2. p[r] < p[s] /\ d[p[r]].job.prio = d[p[s]].job.prio
    BY <2>1, <1>3, <1>5 DEF Precedes, Prio
  <2> QED
    BY <2>2, <1>3 DEF Sound, InOrder
<1>12. MostUrgentFirst(e)
  <2> SUFFICES ASSUME NEW r \in DOMAIN d, NEW s \in DOMAIN d, r < s
               PROVE  e[r].job.prio <= e[s].job.prio
    BY <1>3 DEF MostUrgentFirst
  <2>1. Precedes(d, p[r], p[s])
    BY <1>4
  <2> QED
    BY <2>1, <1>3, <1>5 DEF Precedes, Prio
<1> QED
  BY <1>1, <1>6, <1>7, <1>9, <1>10, <1>11, <1>12 DEF Sound

(* The jobs that a claim of at most `limit` takes from a sorted deque. *)
Takes(e, limit) ==
    LET A == {i \in DOMAIN e : Available(e[i].job, now)}
    IN  {i \in A : Cardinality({j \in A : j < i}) < limit}
Taken(e, T, lease, ack) ==
    [i \in DOMAIN e |-> IF i \in T THEN [e[i] EXCEPT !.job = Claimed(@, now, lease, ack)] ELSE e[i]]

(* What a claim makes of the deque. *)
LEMMA ClaimIs ==
    ASSUME NEW n, NEW l, NEW ack, Claim(n, l, ack)
    PROVE  LET e == Sorted(ReleaseExpired(deque))
           IN  /\ deque' = Taken(e, Takes(e, n), l, ack)
               /\ reply' = {e[i].id : i \in Takes(e, n)} /\ now' = now
BY DEF Claim, Takes, Taken

(* Claimed jobs stay where they are. *)
LEMMA TakenUpdates ==
    ASSUME now \in Nat, NEW e, Sound(e), NEW T, NEW l \in LeaseTimes, NEW ack \in BOOLEAN
    PROVE  Updates(e, Taken(e, T, l, ack))
<1>0. e \in Seq(Entry) /\ l \in Nat
  BY QueueConstants DEF Sound
<1>1. PICK g : g = Taken(e, T, l, ack)
  OBVIOUS
<1>2. /\ DOMAIN g = DOMAIN e /\ g = [i \in DOMAIN e |-> g[i]]
      /\ \A i \in DOMAIN e : g[i] = IF i \in T THEN [e[i] EXCEPT !.job = Claimed(@, now, l, ack)]
                                    ELSE e[i]
  BY <1>1 DEF Taken
<1>3. ASSUME NEW i \in DOMAIN e
      PROVE  /\ g[i] \in Entry /\ g[i].id = e[i].id /\ g[i].job.status # "none"
             /\ g[i].job.prio = e[i].job.prio /\ g[i].job.created = e[i].job.created
  <2>1. e[i] \in Entry /\ e[i].job.status # "none"
    BY <1>0 DEF Sound, Pushed
  <2>2. CASE i \in T
    <3>1. /\ Claimed(e[i].job, now, l, ack) \in Job
          /\ Claimed(e[i].job, now, l, ack).status # "none"
          /\ Claimed(e[i].job, now, l, ack).prio = e[i].job.prio
          /\ Claimed(e[i].job, now, l, ack).created = e[i].job.created
      <4>1. e[i].job \in Job
        BY <2>1 DEF Entry
      <4> QED
        BY <1>0, <4>1, JobSteps
    <3> QED
      BY <1>2, <2>1, <2>2, <3>1 DEF Entry
  <2>3. CASE i \notin T
    BY <1>2, <2>1, <2>3
  <2> QED
    BY <2>2, <2>3
<1>4. g \in Seq(Entry)
  BY <1>0, <1>2, <1>3, MappedSeq
<1> QED
  BY <1>1, <1>2, <1>3, <1>4 DEF Updates

(* The first members of a set of positions *)

Below(A, i) == {j \in A : j < i}

(* Every nonempty set of naturals has a least member. *)
LEMMA LeastNumber ==
    ASSUME NEW S \in SUBSET Nat, S # {}
    PROVE  \E m \in S : \A n \in S : m <= n
<1>1. PICK m \in S : \A n \in S : ~ (<<n, m>> \in OpToRel(<, Nat))
  <2>1. IsWellFoundedOn(OpToRel(<, Nat), Nat)
    BY NatLessThanWellFounded
  <2> QED
    BY <2>1, WFMin
<1>2. \A n \in S : ~(n < m)
  BY <1>1 DEF OpToRel
<1> QED
  BY <1>2

(* Of two members the later one has more below it. *)
LEMMA BelowGrows ==
    ASSUME NEW n \in Nat, NEW A \in SUBSET (1..n), NEW i \in A, NEW o \in A, i < o
    PROVE  /\ Cardinality(Below(A, i)) \in Nat /\ Cardinality(Below(A, o)) \in Nat
           /\ Cardinality(Below(A, i)) < Cardinality(Below(A, o))
<1>1. PICK B, C : B = Below(A, i) /\ C = Below(A, o)
  OBVIOUS
<1>a. A \subseteq Nat
  OBVIOUS
<1>2. B \subseteq C /\ C \subseteq 1..n /\ i \in C /\ i \notin B
  <2>1. \A j \in A : j < i => j < o
    BY <1>a
  <2>2. i < o /\ ~(i < i)
    BY <1>a
  <2>3. C \subseteq A /\ A \subseteq 1..n
    BY <1>1 DEF Below
  <2>4. B \subseteq C /\ i \in C /\ i \notin B
    BY <1>1, <2>1, <2>2 DEF Below
  <2> QED
    BY <2>3, <2>4
<1>3. IsFiniteSet(1..n)
  BY FS_Interval
<1>4. IsFiniteSet(C)
  BY <1>2, <1>3, FS_Subset
<1>5. IsFiniteSet(B) /\ Cardinality(B) <= Cardinality(C) /\ (Cardinality(C) = Cardinality(B) => C = B)
  BY <1>2, <1>4, FS_Subset
<1>6. Cardinality(B) \in Nat /\ Cardinality(C) \in Nat
  BY <1>4, <1>5, FS_CardinalityType
<1> QED
  BY <1>1, <1>2, <1>5, <1>6

Firsts(A, limit) == {i \in A : Cardinality(Below(A, i)) < limit}
FirstOf(T, A, limit) ==
    /\ \A i \in T, o \in A \ T : i < o
    /\ IsFiniteSet(T)
    /\ Cardinality(T) = limit \/ (T = A /\ Cardinality(T) < limit)

(* A batch takes the first jobs, as many as the limit or all there are.     *)
LEMMA FirstTaken ==
    ASSUME NEW n \in Nat, NEW A \in SUBSET (1..n), NEW limit \in Nat, limit # 0
    PROVE  FirstOf(Firsts(A, limit), A, limit)
<1> SUFFICES ASSUME NEW T, T = {i \in A : Cardinality(Below(A, i)) < limit}
             PROVE  FirstOf(T, A, limit)
  BY DEF Firsts
<1>0. IsFiniteSet(1..n) /\ IsFiniteSet(A) /\ T \subseteq A
  <2>1. IsFiniteSet(1..n)
    BY FS_Interval
  <2>2. IsFiniteSet(A)
    BY <2>1, FS_Subset
  <2> QED
    BY <2>1, <2>2
<1>a. A \subseteq Nat
  OBVIOUS
<1>1. IsFiniteSet(T) /\ Cardinality(T) \in Nat
  BY <1>0, FS_Subset, FS_CardinalityType
<1>2. ASSUME NEW i \in A PROVE Cardinality(Below(A, i)) \in Nat
  <2>1. Below(A, i) \subseteq A
    BY DEF Below
  <2> QED
    BY <1>0, <2>1, FS_Subset, FS_CardinalityType
<1>3. ASSUME NEW i \in T, NEW o \in A \ T PROVE i < o
  <2>1. i \in Nat /\ o \in Nat /\ i # o /\ i \in A /\ Cardinality(Below(A, i)) < limit
    OBVIOUS
  <2>2. ~(Cardinality(Below(A, o)) < limit)
    OBVIOUS
  <2>3. ~(o < i)
    <3> SUFFICES ASSUME o < i PROVE FALSE
      OBVIOUS
    <3>1. Cardinality(Below(A, o)) < Cardinality(Below(A, i))
      BY <2>1, BelowGrows
    <3>2. Cardinality(Below(A, o)) \in Nat /\ Cardinality(Below(A, i)) \in Nat
      BY <2>1, <1>2
    <3> QED
      BY <2>1, <2>2, <3>1, <3>2
  <2> QED
    BY <2>1, <2>3
<1>4. Cardinality(T) <= limit
  <2>1. PICK f : f = [i \in T |-> Cardinality(Below(A, i))]
    OBVIOUS
  <2>2. f \in [T -> 0..(limit - 1)]
    <3>1. \A i \in T : Cardinality(Below(A, i)) \in 0..(limit - 1)
      BY <1>2
    <3> QED
      BY <2>1, <3>1
  <2>3. ASSUME NEW i \in T, NEW o \in T, f[i] = f[o] PROVE i = o
    <3>1. i \in Nat /\ o \in Nat /\ i \in A /\ o \in A
      BY <1>0
    <3>2. PICK a, b : a = Cardinality(Below(A, i)) /\ b = Cardinality(Below(A, o))
      OBVIOUS
    <3>3. a = b /\ a \in Nat /\ b \in Nat
      BY <2>1, <2>3, <3>1, <3>2, <1>2
    <3>4. ~(i < o) /\ ~(o < i)
      <4>1. ASSUME i < o PROVE FALSE
        <5>1. a < b
          BY <4>1, <3>1, <3>2, BelowGrows
        <5> QED
          BY <5>1, <3>3
      <4>2. ASSUME o < i PROVE FALSE
        <5>1. b < a
          BY <4>2, <3>1, <3>2, BelowGrows
        <5> QED
          BY <5>1, <3>3
      <4> QED
        BY <4>1, <4>2
    <3> QED
      BY <3>1, <3>4
  <2>4. f \in Injection(T, 0..(limit - 1))
    BY <2>2, <2>3 DEF Injection, IsInjective
  <2>5. IsFiniteSet(0..(limit - 1)) /\ Cardinality(0..(limit - 1)) = limit
    BY FS_Interval
  <2>6. Cardinality(T) <= Cardinality(0..(limit - 1))
    BY <2>4, <2>5, FS_Injection
  <2> QED
    BY <2>5, <2>6
<1>5. T # A => Cardinality(T) >= limit
  <2> SUFFICES ASSUME T # A PROVE Cardinality(T) >= limit
    OBVIOUS
  <2>1. PICK W : W = A \ T
    OBVIOUS
  <2>2. W \in SUBSET Nat /\ W # {}
    BY <2>1, <1>0, <1>a
  <2>3. PICK a \in W : \A o \in W : a <= o
    BY <2>2, LeastNumber
  <2>4. PICK B : B = Below(A, a)
    OBVIOUS
  <2>5. B \in SUBSET T
    <3> SUFFICES ASSUME NEW j \in A, j < a PROVE j \in T
      BY <2>4 DEF Below
    <3>1. ~(a <= j)
      BY <2>2, <2>3
    <3> QED
      BY <2>1, <2>3, <3>1
  <2>6. Cardinality(B) <= Cardinality(T) /\ IsFiniteSet(B)
    BY <1>1, <2>5, FS_Subset
  <2>7. a \in A /\ ~(Cardinality(B) < limit) /\ Cardinality(B) \in Nat
    BY <2>1, <2>3, <2>4, <1>2
  <2> QED
    BY <1>1, <2>6, <2>7
<1> QED
  BY <1>1, <1>3, <1>4, <1>5 DEF FirstOf

-----------------------------------------------------------------------------
(* The invariant of the queue *)

(* The deque stays sound: push, claim, ack, nack and the clock. *)
LEMMA NextQueue == ASSUME QueueInv, [Next]_vars PROVE QueueInv'
<1>0. now \in Nat /\ Sound(deque) /\ deque \in Seq(Entry)
  BY DEF QueueInv, Sound
<1>s. ASSUME now' = now, NEW e, deque' = e, Sound(e) PROVE QueueInv'
  BY <1>0, <1>s DEF QueueInv, Sound, Pushed, OneEach, InOrder
<1>1. CASE UNCHANGED vars
  BY <1>0, <1>1, <1>s DEF vars
<1>2. ASSUME NEW id \in Ids, NEW job \in NewJobs(now), Push(id, job) PROVE QueueInv'
  <2>1. CASE \E i \in DOMAIN deque : deque[i].id = id
    BY <1>0, <1>2, <1>s, <2>1 DEF Push
  <2>2. CASE ~ \E i \in DOMAIN deque : deque[i].id = id
    <3>1. PICK x, e : x = [id |-> id, job |-> job] /\ e = Append(deque, x)
      OBVIOUS
    <3>2. deque' = e /\ now' = now
      BY <1>2, <2>2, <3>1 DEF Push
    <3>3. PICK p \in Priorities, m \in AttemptLimits, d \in Delays : job = NewJob(p, m, d, now)
      BY DEF NewJobs
    <3>4. job \in Job /\ job.status = "ready" /\ job.created = now
      <4>1. p \in Nat /\ m \in Nat /\ d \in Nat
        BY QueueConstants
      <4>2. PICK a \in Nat : a = IF d = 0 THEN 0 ELSE now + d
        BY <1>0, <4>1
      <4> QED
        BY <1>0, <3>3, <4>1, <4>2 DEF NewJob, Job, Status, None
    <3>5. x \in Entry /\ x.id = id /\ x.job = job
      BY <3>1, <3>4 DEF Entry
    <3>6. /\ e \in Seq(Entry) /\ DOMAIN e = 1..(Len(deque) + 1) /\ DOMAIN deque = 1..Len(deque)
          /\ \A i \in 1..Len(deque) : e[i] = deque[i]
          /\ e[Len(deque) + 1] = x /\ Len(deque) \in Nat
      BY <1>0, <3>1, <3>5
    <3>7. OneEach(e)
      <4>1. OneEach(deque) /\ \A i \in DOMAIN deque : deque[i].id # id
        BY <1>0, <2>2 DEF Sound
      <4> QED
        BY <3>5, <3>6, <4>1 DEF OneEach
    <3>8. Pushed(e)
      <4>1. Pushed(deque)
        BY <1>0 DEF Sound
      <4> QED
        BY <1>0, <3>4, <3>5, <3>6, <4>1 DEF Pushed
    <3>9. InOrder(e)
      <4>1. InOrder(deque) /\ Pushed(deque)
        BY <1>0 DEF Sound
      <4> SUFFICES ASSUME NEW i \in DOMAIN e, NEW j \in DOMAIN e, i < j,
                          e[i].job.prio = e[j].job.prio
                   PROVE  e[i].job.created <= e[j].job.created
        BY DEF InOrder
      <4>2. CASE j = Len(deque) + 1
        <5>1. i \in DOMAIN deque /\ e[i] = deque[i] /\ e[j].job.created = now
          BY <3>4, <3>5, <3>6, <4>2
        <5> QED
          BY <4>1, <5>1 DEF Pushed
      <4>3. CASE j # Len(deque) + 1
        <5>1. i \in DOMAIN deque /\ j \in DOMAIN deque /\ e[i] = deque[i] /\ e[j] = deque[j]
          BY <3>6, <4>3
        <5> QED
          BY <4>1, <5>1 DEF InOrder
      <4> QED
        BY <4>2, <4>3
    <3> QED
      BY <1>s, <3>2, <3>6, <3>7, <3>8, <3>9 DEF Sound
  <2> QED
    BY <2>1, <2>2
<1>3. ASSUME NEW n, NEW l \in LeaseTimes, NEW ack \in BOOLEAN, Claim(n, l, ack) PROVE QueueInv'
  <2>1. PICK f : f = ReleaseExpired(deque)
    OBVIOUS
  <2>2. Sound(f)
    BY <1>0, <2>1, ReleaseUpdates, UpdateSound DEF Sound, Pushed
  <2>3. PICK e : e = Sorted(f)
    OBVIOUS
  <2>4. Sound(e)
    BY <2>2, <2>3, SortSound
  <2>5. deque' = Taken(e, Takes(e, n), l, ack) /\ now' = now
    BY <1>3, <2>1, <2>3, ClaimIs
  <2>6. PICK g : g = Taken(e, Takes(e, n), l, ack)
    OBVIOUS
  <2>7. Sound(g)
    BY <1>0, <2>4, <2>6, TakenUpdates, UpdateSound
  <2> QED
    BY <1>s, <2>5, <2>6, <2>7
<1>4. ASSUME NEW S, Ack(S) PROVE QueueInv'
  <2>1. PICK e : e = deque'
    OBVIOUS
  <2>2. /\ DOMAIN e = DOMAIN deque /\ e = [i \in DOMAIN deque |-> e[i]] /\ now' = now
        /\ \A i \in DOMAIN deque : e[i] = IF deque[i].id \in S
                                          THEN [deque[i] EXCEPT !.job = Acked(@)] ELSE deque[i]
    BY <1>4, <2>1 DEF Ack
  <2>3. ASSUME NEW i \in DOMAIN deque
        PROVE  /\ e[i] \in Entry /\ e[i].id = deque[i].id /\ e[i].job.status # "none"
               /\ e[i].job.prio = deque[i].job.prio /\ e[i].job.created = deque[i].job.created
    <3>1. deque[i] \in Entry /\ deque[i].job.status # "none"
      BY <1>0 DEF Sound, Pushed
    <3>2. deque[i].job \in Job
      BY <3>1 DEF Entry
    <3>3. /\ Acked(deque[i].job) \in Job /\ Acked(deque[i].job).status # "none"
          /\ Acked(deque[i].job).prio = deque[i].job.prio
          /\ Acked(deque[i].job).created = deque[i].job.created
      BY <3>2, JobSteps
    <3> QED
      BY <2>2, <3>1, <3>3 DEF Entry
  <2>4. e \in Seq(Entry)
    BY <1>0, <2>2, <2>3, MappedSeq
  <2>5. Updates(deque, e)
    BY <2>2, <2>3, <2>4 DEF Updates
  <2>6. Sound(e)
    BY <1>0, <2>5, UpdateSound
  <2> QED
    BY <1>s, <2>1, <2>2, <2>6
<1>5. ASSUME NEW k \in DOMAIN deque, NEW d \in Delays, Nack(k, d) PROVE QueueInv'
  <2>1. PICK e : e = deque'
    OBVIOUS
  <2>2. /\ DOMAIN e = DOMAIN deque /\ e = [i \in DOMAIN deque |-> e[i]] /\ now' = now
        /\ \A i \in DOMAIN deque : e[i] = IF i = k THEN [deque[i] EXCEPT !.job = Nacked(@, now, d)]
                                          ELSE deque[i]
    BY <1>0, <1>5, <2>1 DEF Nack
  <2>3. ASSUME NEW i \in DOMAIN deque
        PROVE  /\ e[i] \in Entry /\ e[i].id = deque[i].id /\ e[i].job.status # "none"
               /\ e[i].job.prio = deque[i].job.prio /\ e[i].job.created = deque[i].job.created
    <3>1. deque[i] \in Entry /\ deque[i].job.status # "none" /\ d \in Nat
      BY <1>0, QueueConstants DEF Sound, Pushed
    <3>2. deque[i].job \in Job
      BY <3>1 DEF Entry
    <3>3. /\ Nacked(deque[i].job, now, d) \in Job /\ Nacked(deque[i].job, now, d).status # "none"
          /\ Nacked(deque[i].job, now, d).prio = deque[i].job.prio
          /\ Nacked(deque[i].job, now, d).created = deque[i].job.created
      BY <1>0, <3>1, <3>2, JobSteps
    <3> QED
      BY <2>2, <3>1, <3>3 DEF Entry
  <2>4. e \in Seq(Entry)
    BY <1>0, <2>2, <2>3, MappedSeq
  <2>5. Updates(deque, e)
    BY <2>2, <2>3, <2>4 DEF Updates
  <2>6. Sound(e)
    BY <1>0, <2>5, UpdateSound
  <2> QED
    BY <1>s, <2>1, <2>2, <2>6
<1>6. CASE Tick
  <2>1. now' = now + 1 /\ deque' = deque
    BY <1>6 DEF Tick
  <2>2. OneEach(deque') /\ InOrder(deque') /\ deque' \in Seq(Entry)
    BY <1>0, <2>1 DEF Sound, OneEach, InOrder
  <2>3. Pushed(deque)'
    <3> SUFFICES ASSUME NEW i \in DOMAIN deque
                 PROVE  deque[i].job.status # "none" /\ deque[i].job.created <= now + 1
      BY <2>1 DEF Pushed
    <3>1. deque[i] \in Entry /\ deque[i].job.status # "none" /\ deque[i].job.created <= now
      BY <1>0 DEF Sound, Pushed
    <3>2. deque[i].job.created \in Nat
      BY <3>1 DEF Entry, Job
    <3> QED
      BY <1>0, <3>1, <3>2
  <2>4. Sound(deque)'
    BY <2>2, <2>3 DEF Sound, OneEach, InOrder
  <2> QED
    BY <1>0, <2>1, <2>4 DEF QueueInv
<1> QED
  BY <1>1, <1>2, <1>3, <1>4, <1>5, <1>6 DEF Next

-----------------------------------------------------------------------------
(* The deque implements the plain queue *)

Find(d, id) ==
    LET I == {i \in DOMAIN d : d[i].id = id}
    IN  IF I = {} THEN NoJob ELSE d[CHOOSE i \in I : TRUE].job
JobsIn(d) == [id \in Ids |-> Find(d, id)]

(* The jobs of the plain queue, before and after a step. *)
LEMMA JobsAre ==
    /\ [id \in Ids |-> JobOf(id)] = JobsIn(deque)
    /\ [id \in Ids |-> JobOf(id)]' = JobsIn(deque')
BY DEF JobOf, JobsIn, Find

(* The entry of an id is found. *)
LEMMA FindIs ==
    ASSUME NEW d \in Seq(Entry), OneEach(d)
    PROVE  /\ \A i \in DOMAIN d : d[i].id \in Ids /\ Find(d, d[i].id) = d[i].job
           /\ \A id : (\A i \in DOMAIN d : d[i].id # id) => Find(d, id) = NoJob
<1>1. ASSUME NEW i \in DOMAIN d PROVE d[i].id \in Ids /\ Find(d, d[i].id) = d[i].job
  <2>1. d[i] \in Entry
    OBVIOUS
  <2>2. {j \in DOMAIN d : d[j].id = d[i].id} = {i}
    BY DEF OneEach
  <2>3. (CHOOSE j \in {i} : TRUE) = i
    OBVIOUS
  <2> QED
    BY <2>1, <2>2, <2>3 DEF Find, Entry
<1>2. ASSUME NEW id, \A i \in DOMAIN d : d[i].id # id PROVE Find(d, id) = NoJob
  <2>1. {j \in DOMAIN d : d[j].id = id} = {}
    BY <1>2
  <2> QED
    BY <2>1 DEF Find
<1> QED
  BY <1>1, <1>2

(* An update changes the jobs one by one. *)
LEMMA FindUpdated ==
    ASSUME NEW d, NEW e, Sound(d), Updates(d, e)
    PROVE  /\ \A i \in DOMAIN d : /\ d[i].id \in Ids /\ Find(d, d[i].id) = d[i].job
                                  /\ Find(e, d[i].id) = e[i].job
           /\ \A id : (\A i \in DOMAIN d : d[i].id # id) =>
                         Find(d, id) = NoJob /\ Find(e, id) = NoJob
<1>1. d \in Seq(Entry) /\ OneEach(d) /\ e \in Seq(Entry) /\ OneEach(e)
  BY UpdateSound DEF Sound, Updates
<1>2. DOMAIN e = DOMAIN d /\ \A i \in DOMAIN d : e[i].id = d[i].id
  BY DEF Updates
<1> QED
  BY <1>1, <1>2, FindIs

(* The same entries, the same jobs. *)
LEMMA FindPermuted ==
    ASSUME NEW d, NEW e, Sound(d), Sound(e), Permutes(d, e)
    PROVE  JobsIn(e) = JobsIn(d)
<1>1. d \in Seq(Entry) /\ OneEach(d) /\ e \in Seq(Entry) /\ OneEach(e)
  BY DEF Sound
<1>2. ASSUME NEW id \in Ids PROVE Find(e, id) = Find(d, id)
  <2>1. CASE \E i \in DOMAIN d : d[i].id = id
    <3>1. PICK i \in DOMAIN d : d[i].id = id
      BY <2>1
    <3>2. PICK r \in DOMAIN e : e[r] = d[i]
      BY DEF Permutes
    <3> QED
      BY <1>1, <3>1, <3>2, FindIs
  <2>2. CASE \A i \in DOMAIN d : d[i].id # id
    <3>1. \A r \in DOMAIN e : e[r].id # id
      BY <2>2 DEF Permutes
    <3> QED
      BY <1>1, <2>2, <3>1, FindIs
  <2> QED
    BY <2>1, <2>2
<1> QED
  BY <1>2 DEF JobsIn

(* Releasing leases is what the plain queue does. *)
LEMMA ReleaseIsExpire ==
    ASSUME QueueInv PROVE JobsIn(ReleaseExpired(deque)) = JQ!Expire(JobsIn(deque))
<1>0. Sound(deque) /\ deque \in Seq(Entry) /\ \A i \in DOMAIN deque : deque[i].job.status # "none"
  BY DEF QueueInv, Sound, Pushed
<1>1. PICK f : f = ReleaseExpired(deque)
  OBVIOUS
<1>2. /\ Updates(deque, f)
      /\ \A i \in DOMAIN deque : f[i].job =
            IF LeaseExpired(deque[i].job, now) THEN Released(deque[i].job) ELSE deque[i].job
  BY <1>0, <1>1, ReleaseUpdates
<1>3. ASSUME NEW id \in Ids
      PROVE  Find(f, id) = IF LeaseExpired(Find(deque, id), now) THEN Released(Find(deque, id))
                           ELSE Find(deque, id)
  <2>1. CASE \E i \in DOMAIN deque : deque[i].id = id
    BY <1>0, <1>2, <2>1, FindUpdated
  <2>2. CASE \A i \in DOMAIN deque : deque[i].id # id
    <3>1. Find(f, id) = NoJob /\ Find(deque, id) = NoJob
      BY <1>0, <1>2, <2>2, FindUpdated
    <3>2. ~LeaseExpired(NoJob, now)
      BY DEF LeaseExpired, NoJob
    <3> QED
      BY <3>1, <3>2
  <2> QED
    BY <2>1, <2>2
<1>4. JobsIn(f) = [id \in Ids |-> IF LeaseExpired(JobsIn(deque)[id], now)
                                  THEN Released(JobsIn(deque)[id]) ELSE JobsIn(deque)[id]]
  BY <1>3 DEF JobsIn
<1> QED
  BY <1>1, <1>4 DEF JQ!Expire, JQ!LeaseExpired, LeaseExpired, JQ!Released, Released, JQ!None, None

(* A claim, single or in a batch, takes the jobs the plain queue would give. *)
LEMMA ClaimRefines ==
    ASSUME QueueInv, NEW n \in BatchLimits \cup {1}, NEW l \in LeaseTimes, NEW ack \in BOOLEAN,
           Claim(n, l, ack)
    PROVE  JQ!QClaim(n, l, ack)
<1>0. /\ now \in Nat /\ Sound(deque) /\ deque \in Seq(Entry)
      /\ \A i \in DOMAIN deque : deque[i].job.status # "none"
  BY DEF QueueInv, Sound, Pushed
<1>1. PICK f : f = ReleaseExpired(deque)
  OBVIOUS
<1>2. Sound(f)
  BY <1>0, <1>1, ReleaseUpdates, UpdateSound
<1>3. PICK e : e = Sorted(f)
  OBVIOUS
<1>4. Sound(e) /\ Permutes(f, e) /\ MostUrgentFirst(e)
  BY <1>2, <1>3, SortSound
<1>5. PICK js : js = JobsIn(e)
  OBVIOUS
<1>6. js = JQ!Expire(JobsIn(deque))
  BY <1>1, <1>2, <1>4, <1>5, FindPermuted, ReleaseIsExpire
<1>7. PICK T : T = Takes(e, n)
  OBVIOUS
<1>8. PICK g : g = Taken(e, T, l, ack)
  OBVIOUS
<1>9. deque' = g /\ reply' = {e[i].id : i \in T} /\ now' = now
  BY <1>1, <1>3, <1>7, <1>8, ClaimIs
<1>10. Updates(e, g) /\ \A i \in DOMAIN e :
           g[i].job = IF i \in T THEN Claimed(e[i].job, now, l, ack) ELSE e[i].job
  <2>1. Updates(e, g)
    BY <1>0, <1>4, <1>8, TakenUpdates
  <2>2. ASSUME NEW i \in DOMAIN e
        PROVE  g[i].job = IF i \in T THEN Claimed(e[i].job, now, l, ack) ELSE e[i].job
    <3>1. e[i] \in Entry
      BY <1>4 DEF Sound
    <3>2. g[i] = IF i \in T THEN [e[i] EXCEPT !.job = Claimed(@, now, l, ack)] ELSE e[i]
      BY <1>8 DEF Taken
    <3> QED
      BY <3>1, <3>2 DEF Entry
  <2> QED
    BY <2>1, <2>2
<1>11. PICK A : A = {i \in DOMAIN e : Available(e[i].job, now)}
  OBVIOUS
<1>12. e \in Seq(Entry) /\ DOMAIN e = 1..Len(e) /\ Len(e) \in Nat /\ OneEach(e)
  BY <1>4 DEF Sound
<1>13. A \in SUBSET (1..Len(e)) /\ T = {i \in A : Cardinality(Below(A, i)) < n}
  BY <1>7, <1>11, <1>12 DEF Takes, Below
<1>14. n \in Nat /\ n # 0
  BY QueueConstants
<1>15. /\ \A i \in T, o \in A \ T : i < o
       /\ IsFiniteSet(T)
       /\ (Cardinality(T) = n \/ (T = A /\ Cardinality(T) < n))
       /\ T \subseteq A
  <2>1. PICK m \in Nat : m = Len(e)
    BY <1>12
  <2>2. A \in SUBSET (1..m)
    BY <1>13, <2>1
  <2>3. T = Firsts(A, n)
    BY <1>13 DEF Firsts
  <2>4. FirstOf(Firsts(A, n), A, n)
    BY <1>14, <2>2, FirstTaken
  <2>5. T \subseteq A
    BY <1>13
  <2> QED
    BY <2>3, <2>4, <2>5 DEF FirstOf
<1>16. \A i \in DOMAIN e : e[i].id \in Ids /\ js[e[i].id] = e[i].job
  BY <1>5, <1>12, FindIs DEF JobsIn
<1>17. PICK S : S = {e[i].id : i \in T}
  OBVIOUS
<1>18. PICK ready : ready = {id \in Ids : Available(js[id], now)}
  OBVIOUS
<1>19. ready = {e[i].id : i \in A}
  <2>1. ASSUME NEW i \in A PROVE e[i].id \in ready
    BY <1>11, <1>16, <1>18
  <2>2. ASSUME NEW id \in ready PROVE \E i \in A : e[i].id = id
    <3>1. id \in Ids /\ Available(js[id], now)
      BY <1>18
    <3>2. js[id] = Find(e, id)
      BY <1>5, <3>1 DEF JobsIn
    <3>3. \E i \in DOMAIN e : e[i].id = id
      <4> SUFFICES ASSUME \A i \in DOMAIN e : e[i].id # id PROVE FALSE
        OBVIOUS
      <4>1. js[id] = NoJob
        BY <1>12, <3>2, FindIs
      <4> QED
        BY <3>1, <4>1 DEF Available, NoJob
    <3> QED
      BY <1>11, <1>16, <3>1, <3>3
  <2> QED
    BY <2>1, <2>2
<1>20. S \in SUBSET Ids /\ S \subseteq ready
  BY <1>11, <1>15, <1>16, <1>17, <1>19
<1>21. Cardinality(S) = Cardinality(T)
  <2>1. PICK b : b = [i \in T |-> e[i].id]
    OBVIOUS
  <2>2. b \in Bijection(T, S)
    <3>1. b \in [T -> S]
      BY <2>1, <1>17
    <3>2. ASSUME NEW i \in T, NEW j \in T, b[i] = b[j] PROVE i = j
      BY <1>11, <1>12, <1>15, <2>1, <3>2 DEF OneEach
    <3>3. \A s \in S : \E i \in T : b[i] = s
      BY <2>1, <1>17
    <3> QED
      BY <3>1, <3>2, <3>3 DEF Bijection, Injection, Surjection, IsInjective
  <2>3. ExistsBijection(T, S)
    BY <2>2 DEF ExistsBijection
  <2> QED
    BY <1>15, <2>3, FS_Bijection
<1>22. Cardinality(S) = n \/ (S = ready /\ Cardinality(S) < n)
  BY <1>15, <1>17, <1>19, <1>21
<1>23. \A i \in S, o \in ready \ S : js[i].prio <= js[o].prio
  <2> SUFFICES ASSUME NEW i \in T, NEW o \in A, e[o].id \notin S
               PROVE  js[e[i].id].prio <= js[e[o].id].prio
    BY <1>17, <1>19
  <2>1. o \in A \ T /\ i \in DOMAIN e /\ o \in DOMAIN e
    BY <1>11, <1>15, <1>17
  <2>2. i < o
    BY <1>15, <2>1
  <2>3. e[i].job.prio <= e[o].job.prio
    BY <1>4, <2>1, <2>2 DEF MostUrgentFirst
  <2> QED
    BY <1>16, <2>1, <2>3
<1>24. JobsIn(g) = [id \in Ids |-> IF id \in S THEN Claimed(js[id], now, l, ack) ELSE js[id]]
  <2> SUFFICES ASSUME NEW id \in Ids
               PROVE  Find(g, id) = IF id \in S THEN Claimed(js[id], now, l, ack) ELSE js[id]
    BY DEF JobsIn
  <2>1. CASE \E i \in DOMAIN e : e[i].id = id
    <3>1. PICK i \in DOMAIN e : e[i].id = id
      BY <2>1
    <3>2. Find(g, id) = g[i].job /\ js[id] = e[i].job
      BY <1>4, <1>10, <1>16, <3>1, FindUpdated
    <3>3. id \in S <=> i \in T
      BY <1>11, <1>12, <1>15, <1>17, <3>1 DEF OneEach
    <3> QED
      BY <1>10, <3>2, <3>3
  <2>2. CASE \A i \in DOMAIN e : e[i].id # id
    <3>1. Find(g, id) = NoJob /\ Find(e, id) = NoJob
      BY <1>4, <1>10, <2>2, FindUpdated
    <3>2. js[id] = NoJob
      BY <1>5, <3>1 DEF JobsIn
    <3>3. id \notin S
      BY <1>11, <1>15, <1>17, <2>2
    <3> QED
      BY <3>1, <3>2, <3>3
  <2> QED
    BY <2>1, <2>2
<1>25. JQ!QTake(S, js, n, l, ack)
  <2>1. ready = {id \in Ids : JQ!Available(js[id], now)}
    BY <1>18 DEF JQ!Available, Available
  <2>2. JobsIn(deque') = [id \in Ids |-> IF id \in S THEN JQ!Claimed(js[id], now, l, ack) ELSE js[id]]
    BY <1>9, <1>24 DEF JQ!Claimed, Claimed
  <2>3. JQ!Cardinality(S) = Cardinality(S)
    BY DEF JQ!Cardinality, Cardinality
  <2>4. JQ!Cardinality(S) = n \/ (S = ready /\ JQ!Cardinality(S) < n)
    BY <1>22, <2>3
  <2>5. reply' = S /\ now' = now
    BY <1>9, <1>17
  <2> QED
    BY <1>20, <1>23, <2>1, <2>2, <2>4, <2>5, JobsAre DEF JQ!QTake
<1> QED
  BY <1>6, <1>20, <1>25, JobsAre DEF JQ!QClaim

(* An id is found after a step that only changed jobs in their places. *)
LEMMA FindInPlace ==
    ASSUME QueueInv, NEW e, e \in Seq(Entry), OneEach(e), DOMAIN e = DOMAIN deque,
           \A i \in DOMAIN deque : e[i].id = deque[i].id
    PROVE  /\ \A i \in DOMAIN deque : /\ deque[i].id \in Ids
                                      /\ JobsIn(deque)[deque[i].id] = deque[i].job
                                      /\ JobsIn(e)[deque[i].id] = e[i].job
           /\ \A id \in Ids : (\A i \in DOMAIN deque : deque[i].id # id) =>
                  JobsIn(deque)[id] = NoJob /\ JobsIn(e)[id] = NoJob
<1>1. deque \in Seq(Entry) /\ OneEach(deque)
  BY DEF QueueInv, Sound
<1>2. ASSUME NEW i \in DOMAIN deque
      PROVE  /\ deque[i].id \in Ids /\ Find(deque, deque[i].id) = deque[i].job
             /\ Find(e, deque[i].id) = e[i].job
  <2>1. deque[i].id \in Ids /\ Find(deque, deque[i].id) = deque[i].job
    BY <1>1, FindIs
  <2>2. Find(e, e[i].id) = e[i].job
    BY FindIs
  <2> QED
    BY <2>1, <2>2
<1>3. ASSUME NEW id \in Ids, \A i \in DOMAIN deque : deque[i].id # id
      PROVE  Find(deque, id) = NoJob /\ Find(e, id) = NoJob
  <2>1. \A i \in DOMAIN e : e[i].id # id
    BY <1>3
  <2> QED
    BY <1>1, <1>3, <2>1, FindIs
<1> QED
  BY <1>2, <1>3 DEF JobsIn

(* A push adds a job the plain queue does not have. *)
LEMMA PushRefines ==
    ASSUME QueueInv, QueueInv', NEW id \in Ids, NEW job \in NewJobs(now), Push(id, job)
    PROVE  JQ!QPush \/ JQ!QOther
<1>0. deque \in Seq(Entry) /\ OneEach(deque) /\ deque' \in Seq(Entry) /\ OneEach(deque')
  BY DEF QueueInv, Sound, OneEach
<1>1. reply' = {} /\ now' = now
  BY DEF Push
<1>2. CASE \E i \in DOMAIN deque : deque[i].id = id
  <2>1. deque' = deque
    BY <1>2 DEF Push
  <2> QED
    BY <1>1, <2>1, JobsAre DEF JQ!QOther
<1>3. CASE \A i \in DOMAIN deque : deque[i].id # id
  <2>1. PICK x, e : x = [id |-> id, job |-> job] /\ e = Append(deque, x)
    OBVIOUS
  <2>2. deque' = e
    BY <1>3, <2>1 DEF Push
  <2>3. x.id = id /\ x.job = job
    BY <2>1
  <2>4. /\ DOMAIN e = 1..(Len(deque) + 1) /\ DOMAIN deque = 1..Len(deque) /\ Len(deque) \in Nat
        /\ \A i \in 1..Len(deque) : e[i] = deque[i]
        /\ e[Len(deque) + 1] = x
    BY <1>0, <2>1
  <2>5. e \in Seq(Entry) /\ OneEach(e)
    BY <1>0, <2>2
  <2>6. Find(deque, id) = NoJob
    BY <1>0, <1>3, FindIs
  <2>7. Find(e, id) = job
    <3>1. Len(deque) + 1 \in DOMAIN e
      BY <2>4
    <3>2. Find(e, e[Len(deque) + 1].id) = e[Len(deque) + 1].job
      BY <2>5, <3>1, FindIs
    <3> QED
      BY <2>3, <2>4, <3>2
  <2>8. ASSUME NEW o \in Ids, o # id PROVE Find(e, o) = Find(deque, o)
    <3>1. CASE \E i \in DOMAIN deque : deque[i].id = o
      <4>1. PICK i \in DOMAIN deque : deque[i].id = o
        BY <3>1
      <4>2. i \in DOMAIN e /\ e[i] = deque[i]
        BY <2>4
      <4>3. Find(deque, deque[i].id) = deque[i].job
        BY <1>0, FindIs
      <4>4. Find(e, e[i].id) = e[i].job
        BY <2>5, <4>2, FindIs
      <4> QED
        BY <4>1, <4>2, <4>3, <4>4
    <3>2. CASE \A i \in DOMAIN deque : deque[i].id # o
      <4>1. \A i \in DOMAIN e : e[i].id # o
        BY <2>3, <2>4, <2>8, <3>2
      <4> QED
        BY <1>0, <2>5, <3>2, <4>1, FindIs
    <3> QED
      BY <3>1, <3>2
  <2>9. PICK S, new : S = {id} /\ new = [o \in S |-> job]
    OBVIOUS
  <2>10. JobsIn(e) = [o \in Ids |-> IF o \in S THEN new[o] ELSE JobsIn(deque)[o]]
    BY <2>7, <2>8, <2>9 DEF JobsIn
  <2>11. JobsIn(deque)[id].status = "none"
    BY <2>6 DEF JobsIn, NoJob
  <2>12. S \in SUBSET {o \in Ids : JobsIn(deque)[o].status = "none"}
    BY <2>9, <2>11
  <2>13. JQ!NewJobs(now) = NewJobs(now)
    BY DEF JQ!NewJobs, NewJobs, JQ!NewJob, NewJob, JQ!None, None
  <2>14. new \in [S -> JQ!NewJobs(now)]
    BY <2>9, <2>13
  <2>15. [o \in Ids |-> JobOf(o)]' = JobsIn(e)
    BY <2>2, JobsAre
  <2> QED
    BY <1>1, <2>10, <2>12, <2>14, <2>15, JobsAre DEF JQ!QPush
<1> QED
  BY <1>2, <1>3

(* Acknowledged and refused jobs are the plain queue's. *)
LEMMA AckRefines ==
    ASSUME QueueInv, QueueInv', NEW S \in SUBSET Ids, Ack(S)
    PROVE  JQ!QAck(S)
<1>1. PICK e : e = deque'
  OBVIOUS
<1>2. e \in Seq(Entry) /\ OneEach(e) /\ deque \in Seq(Entry)
  BY <1>1 DEF QueueInv, Sound, OneEach
<1>3. /\ DOMAIN e = DOMAIN deque /\ now' = now /\ reply' = {}
      /\ \A i \in DOMAIN deque : e[i] = IF deque[i].id \in S
                                        THEN [deque[i] EXCEPT !.job = Acked(@)] ELSE deque[i]
  BY <1>1 DEF Ack
<1>4. ASSUME NEW i \in DOMAIN deque
      PROVE  /\ e[i].id = deque[i].id
             /\ e[i].job = IF deque[i].id \in S THEN Acked(deque[i].job) ELSE deque[i].job
  <2>1. deque[i] \in Entry
    BY <1>2
  <2> QED
    BY <1>3, <2>1 DEF Entry
<1>5. /\ \A i \in DOMAIN deque : /\ deque[i].id \in Ids
                                 /\ JobsIn(deque)[deque[i].id] = deque[i].job
                                 /\ JobsIn(e)[deque[i].id] = e[i].job
      /\ \A id \in Ids : (\A i \in DOMAIN deque : deque[i].id # id) =>
             JobsIn(deque)[id] = NoJob /\ JobsIn(e)[id] = NoJob
  BY <1>2, <1>3, <1>4, FindInPlace
<1>6. ASSUME NEW id \in S
      PROVE  (\E i \in DOMAIN deque : deque[i].id = id) /\ JobsIn(deque)[id].status = "leased"
  <2>1. PICK i \in DOMAIN deque : deque[i].id = id /\ deque[i].job.status = "leased"
    BY DEF Ack
  <2> QED
    BY <1>5, <2>1
<1>7. ASSUME NEW id \in Ids
      PROVE  JobsIn(e)[id] = IF id \in S THEN Acked(JobsIn(deque)[id]) ELSE JobsIn(deque)[id]
  <2>1. CASE \E i \in DOMAIN deque : deque[i].id = id
    <3>1. PICK i \in DOMAIN deque : deque[i].id = id
      BY <2>1
    <3> QED
      BY <1>4, <1>5, <3>1
  <2>2. CASE \A i \in DOMAIN deque : deque[i].id # id
    <3>1. id \notin S
      BY <1>6, <2>2
    <3> QED
      BY <1>5, <2>2, <3>1
  <2> QED
    BY <2>1, <2>2
<1>8. JobsIn(e) = [id \in Ids |-> IF id \in S THEN Acked(JobsIn(deque)[id]) ELSE JobsIn(deque)[id]]
  <2>1. JobsIn(e) = [id \in Ids |-> JobsIn(e)[id]]
    BY DEF JobsIn
  <2> QED
    BY <1>7, <2>1
<1>9. [id \in Ids |-> JobOf(id)]' = JobsIn(e)
  BY <1>1, JobsAre
<1> QED
  BY <1>3, <1>6, <1>8, <1>9, JobsAre DEF JQ!QAck, JQ!Acked, Acked

(* A refused job is the plain queue's. *)
LEMMA NackRefines ==
    ASSUME QueueInv, QueueInv', NEW k \in DOMAIN deque, NEW d \in Delays, Nack(k, d)
    PROVE  deque[k].id \in Ids /\ JQ!QNack(deque[k].id, d)
<1>1. PICK e : e = deque'
  OBVIOUS
<1>2. e \in Seq(Entry) /\ OneEach(e) /\ deque \in Seq(Entry) /\ OneEach(deque)
  BY <1>1 DEF QueueInv, Sound, OneEach
<1>3. /\ DOMAIN e = DOMAIN deque /\ now' = now /\ reply' = {}
      /\ \A i \in DOMAIN deque : e[i] = IF i = k THEN [deque[i] EXCEPT !.job = Nacked(@, now, d)]
                                        ELSE deque[i]
  BY <1>1, <1>2 DEF Nack
<1>4. ASSUME NEW i \in DOMAIN deque
      PROVE  /\ e[i].id = deque[i].id
             /\ e[i].job = IF i = k THEN Nacked(deque[i].job, now, d) ELSE deque[i].job
  <2>1. deque[i] \in Entry
    BY <1>2
  <2> QED
    BY <1>3, <2>1 DEF Entry
<1>5. /\ \A i \in DOMAIN deque : /\ deque[i].id \in Ids
                                 /\ JobsIn(deque)[deque[i].id] = deque[i].job
                                 /\ JobsIn(e)[deque[i].id] = e[i].job
      /\ \A id \in Ids : (\A i \in DOMAIN deque : deque[i].id # id) =>
             JobsIn(deque)[id] = NoJob /\ JobsIn(e)[id] = NoJob
  BY <1>2, <1>3, <1>4, FindInPlace
<1>6. PICK me \in Ids : me = deque[k].id
  BY <1>5
<1>7. ASSUME NEW id \in Ids
      PROVE  JobsIn(e)[id] = IF id = me THEN Nacked(JobsIn(deque)[id], now, d)
                             ELSE JobsIn(deque)[id]
  <2>1. CASE \E i \in DOMAIN deque : deque[i].id = id
    <3>1. PICK i \in DOMAIN deque : deque[i].id = id
      BY <2>1
    <3>2. id = me <=> i = k
      BY <1>2, <1>6, <3>1 DEF OneEach
    <3> QED
      BY <1>4, <1>5, <3>1, <3>2
  <2>2. CASE \A i \in DOMAIN deque : deque[i].id # id
    <3>1. id # me
      BY <1>6, <2>2
    <3> QED
      BY <1>5, <2>2, <3>1
  <2> QED
    BY <2>1, <2>2
<1>8. JobsIn(e) = [JobsIn(deque) EXCEPT ![me] = Nacked(@, now, d)]
  <2>1. JobsIn(e) = [id \in Ids |-> JobsIn(e)[id]] /\ JobsIn(deque) = [id \in Ids |-> JobsIn(deque)[id]]
    BY DEF JobsIn
  <2> QED
    BY <1>7, <2>1
<1>9. [id \in Ids |-> JobOf(id)]' = JobsIn(e)
  BY <1>1, JobsAre
<1>10. JobsIn(deque)[me].status = "leased"
  BY <1>5, <1>6 DEF Nack
<1>11. JQ!QNack(me, d)
  BY <1>3, <1>8, <1>9, <1>10, JobsAre DEF JQ!QNack, JQ!Nacked, Nacked, JQ!None, None
<1> QED
  BY <1>6, <1>11

(* Every step of the deque is one of the plain queue. *)
LEMMA QueueStep ==
    ASSUME QueueInv, [Next]_vars
    PROVE  [JQ!QNext]_<<[id \in Ids |-> JobOf(id)], now, reply>>
<1>0. QueueInv'
  BY NextQueue
<1>1. CASE UNCHANGED vars
  <2>1. deque' = deque /\ now' = now /\ reply' = reply
    BY <1>1 DEF vars
  <2> QED
    BY <2>1, JobsAre
<1>2. ASSUME NEW id \in Ids, NEW job \in NewJobs(now), Push(id, job) PROVE JQ!QNext
  BY <1>0, <1>2, PushRefines DEF JQ!QNext
<1>3. ASSUME NEW n \in BatchLimits \cup {1}, NEW l \in LeaseTimes, NEW ack \in BOOLEAN,
             Claim(n, l, ack)
      PROVE  JQ!QNext
  BY <1>3, ClaimRefines DEF JQ!QNext
<1>4. ASSUME NEW S \in SUBSET Ids, Ack(S) PROVE JQ!QNext
  BY <1>0, <1>4, AckRefines DEF JQ!QNext
<1>5. ASSUME NEW k \in DOMAIN deque, NEW d \in Delays, Nack(k, d) PROVE JQ!QNext
  BY <1>0, <1>5, NackRefines DEF JQ!QNext
<1>6. CASE Tick
  <2>1. deque' = deque
    BY <1>6 DEF Tick
  <2>2. JQ!QTick
    BY <1>6, <2>1, JobsAre DEF Tick, JQ!QTick
  <2> QED
    BY <2>2 DEF JQ!QNext
<1> QED
  BY <1>1, <1>2, <1>3, <1>4, <1>5, <1>6 DEF Next

(* The deque starts empty, sound and as the plain queue does. *)
LEMMA QueueStarts == ASSUME Init PROVE QueueInv /\ JQ!QInit
<1>1. deque = <<>> /\ now = 0 /\ reply = {}
  BY DEF Init
<1>2. deque \in Seq(Entry) /\ DOMAIN deque = {}
  BY <1>1
<1>3. QueueInv
  BY <1>1, <1>2 DEF QueueInv, Sound, OneEach, Pushed, InOrder
<1>4. \A id \in Ids : Find(deque, id) = NoJob
  BY <1>2 DEF Find
<1>5. JobsIn(deque) = [id \in Ids |-> NoJob]
  BY <1>4 DEF JobsIn
<1> QED
  BY <1>1, <1>3, <1>5, JobsAre DEF JQ!QInit, JQ!NoJob, NoJob, JQ!None, None

(* A call of another store leaves the queue alone. *)
LEMMA EngineQueue == ASSUME [EngineNext]_engineVars PROVE [Next]_vars
BY DEF EngineNext, engineVars, Call, PutObject, PutWithSourceMetadata, PutObjectsBatch,
       DeleteObjects, SetIndex, SetVector, AppendEvent, OnEvents, DeleteLastEvent, DeleteStream,
       OnLinks, CreateLink, ImportLink, DeleteLink

(* Jobs of one priority leave a queue of the in-memory engine in the order  *)
(* they were pushed: the sort of every claim is stable, claims, acks and    *)
(* nacks change jobs in their places, and a push goes to the end.           *)
THEOREM QueueKeepsOrder == EngineSpec => []FifoAmongEquals
<1>1. EngineInit => QueueInv
  BY QueueStarts DEF EngineInit
<1>2. QueueInv /\ [EngineNext]_engineVars => QueueInv'
  BY EngineQueue, NextQueue
<1>3. QueueInv => FifoAmongEquals
  BY DEF QueueInv, Sound, InOrder, FifoAmongEquals
<1> QED
  BY <1>1, <1>2, <1>3, PTL DEF EngineSpec

(* The in-memory queue implements the plain queue: single claims, batches,  *)
(* claims that acknowledge, acks of several jobs, nacks and expired leases. *)
THEOREM ImplementsJobQueue == EngineSpec => RefinesJobQueue
<1>1. EngineInit => QueueInv /\ JQ!QInit
  BY QueueStarts DEF EngineInit
<1>2. QueueInv /\ [EngineNext]_engineVars => QueueInv'
  BY EngineQueue, NextQueue
<1>3. QueueInv /\ [EngineNext]_engineVars => [JQ!QNext]_<<[id \in Ids |-> JobOf(id)], now, reply>>
  BY EngineQueue, QueueStep
<1> QED
  BY <1>1, <1>2, <1>3, PTL DEF EngineSpec, RefinesJobQueue, JQ!QSpec

-----------------------------------------------------------------------------
(* The invariant of the other stores *)

Values == {b.f : b \in Bodies}
Record == [f : Values, vec : BOOLEAN, version : Nat, created : Nat, kept : Nat]
Objects == [Keys -> Record \cup {Absent}]
Distinct(objs) == \A k, l \in Valued(objs) : k # l => objs[k].f # objs[l].f

ObjectInv ==
    /\ objects \in Objects /\ vectors \in SUBSET Keys
    /\ index = "unique" => Distinct(objects)

(* One sequence for all streams: no two live events share one, and a key    *)
(* that still names a live event names the one appended with that key.      *)
OneSequence == \A e, o \in events : e.seq = o.seq => e = o
KeysNameTheirs ==
    /\ \A e \in events : e.idem # 0 => eventKeys[<<e.stream, e.idem>>] = e.seq
    /\ \A e \in events, s \in Streams, i \in Idems \ {0} :
          e.seq = eventKeys[<<s, i>>] => e.stream = s /\ e.idem = i

EventInv ==
    /\ nextEvent \in Nat
    /\ eventKeys \in [Streams \X Idems -> Nat]
    /\ \A x \in Streams \X Idems : eventKeys[x] <= nextEvent
    /\ events \subseteq [stream : Streams, seq : Nat \ {0}, idem : Idems]
    /\ \A e \in events : e.seq <= nextEvent
    /\ OneSequence /\ KeysNameTheirs

LinkInv == nextLink \in Nat /\ \A l \in links : l.id \in Nat /\ l.id <= nextLink

RecInv == ObjectInv /\ EventInv /\ LinkInv /\ ops \in Nat

-----------------------------------------------------------------------------
(* Objects *)

(* The next version is larger than the one before. *)
LEMMA NextVersionType ==
    ASSUME NEW o \in Record \cup {Absent}
    PROVE  NextVersion(o) \in Nat /\ (o # Absent => NextVersion(o) > o.version)
BY DEF NextVersion, Record

(* An object that is stored is one. *)
LEMMA StoredType ==
    ASSUME ops \in Nat, NEW b \in Bodies, NEW old \in Record \cup {Absent}
    PROVE  /\ Stored(b, old) \in Record /\ Stored(b, old) # Absent
           /\ Stored(b, old).f = b.f /\ Stored(b, old).version = NextVersion(old)
<1>1. b.f \in Values /\ b.vec \in BOOLEAN
  BY MemoryConstants DEF Values
<1>2. Now \in Nat /\ NextVersion(old) \in Nat /\ (old # Absent => old.kept \in Nat)
  BY NextVersionType DEF Now, Record
<1>3. Stored(b, old) \in Record
  BY <1>1, <1>2 DEF Stored, Record
<1>4. Absent \notin Record
  BY MemoryConstants DEF Record, Values
<1> QED
  BY <1>3, <1>4 DEF Stored

(* A put of a value no other object has keeps the values apart. *)
LEMMA PutDistinct ==
    ASSUME NEW objs \in Objects, NEW k \in Keys, NEW o \in Record, Distinct(objs),
           k[1] = Indexed /\ o.f \in Fields => \A l \in Valued(objs) \ {k} : objs[l].f # o.f
    PROVE  Distinct([objs EXCEPT ![k] = o])
<1>1. PICK new : new = [objs EXCEPT ![k] = o]
  OBVIOUS
<1>2. new[k] = o /\ \A l \in Keys : l # k => new[l] = objs[l]
  BY <1>1 DEF Objects
<1>3. Valued(new) \subseteq Keys /\ \A l \in Valued(new) : l # k => l \in Valued(objs)
  BY <1>2 DEF Valued
<1>4. k \in Valued(new) => k[1] = Indexed /\ o.f \in Fields
  BY <1>2 DEF Valued
<1> SUFFICES ASSUME NEW x \in Valued(new), NEW y \in Valued(new), x # y
             PROVE  new[x].f # new[y].f
  BY <1>1 DEF Distinct
<1>5. CASE x = k
  BY <1>2, <1>3, <1>4, <1>5
<1>6. CASE y = k
  BY <1>2, <1>3, <1>4, <1>6
<1>7. CASE x # k /\ y # k
  <2>1. x \in Valued(objs) /\ y \in Valued(objs) /\ new[x] = objs[x] /\ new[y] = objs[y]
    BY <1>2, <1>3, <1>7
  <2> QED
    BY <2>1 DEF Distinct
<1> QED
  BY <1>5, <1>6, <1>7

(* What a put may make of the objects: none is lost, versions only grow.    *)
Grown(old, new) ==
    \A k \in Keys : old[k] # Absent =>
        new[k] # Absent /\ (new[k] = old[k] \/ new[k].version > old[k].version)
Holds(s) ==
    /\ s \in [objects : Objects, vectors : SUBSET Keys, ok : BOOLEAN]
    /\ index = "unique" => Distinct(s.objects)

(* Versions that grew twice grew. *)
LEMMA GrownTwice ==
    ASSUME NEW a \in Objects, NEW b \in Objects, NEW c \in Objects, Grown(a, b), Grown(b, c)
    PROVE  Grown(a, c)
<1> SUFFICES ASSUME NEW k \in Keys, a[k] # Absent
             PROVE  c[k] # Absent /\ (c[k] = a[k] \/ c[k].version > a[k].version)
  BY DEF Grown
<1>1. b[k] # Absent /\ (b[k] = a[k] \/ b[k].version > a[k].version)
  BY DEF Grown
<1>2. c[k] # Absent /\ (c[k] = b[k] \/ c[k].version > b[k].version)
  BY <1>1 DEF Grown
<1>3. a[k].version \in Nat /\ b[k].version \in Nat /\ c[k].version \in Nat
  BY <1>1, <1>2 DEF Objects, Record
<1> QED
  BY <1>1, <1>2, <1>3

(* put_object: refused, or one object with the next version. *)
LEMMA PutHolds ==
    ASSUME ops \in Nat, NEW s, Holds(s), NEW k \in Keys, NEW b \in Bodies
    PROVE  /\ Holds(Put(s, k, b)) /\ Grown(s.objects, Put(s, k, b).objects)
           /\ Put(s, k, b).ok => /\ Put(s, k, b).objects[k] # Absent
                                 /\ \A l \in Keys \ {k} : Put(s, k, b).objects[l] = s.objects[l]
                                 /\ Valid(s.objects, k, b)
                                 /\ Put(s, k, b).objects[k].f = b.f
<1>0. /\ s \in [objects : Objects, vectors : SUBSET Keys, ok : BOOLEAN]
      /\ s.objects \in Objects /\ s.vectors \in SUBSET Keys /\ s.ok \in BOOLEAN
  BY DEF Holds
<1>1. PICK t : t = Put(s, k, b)
  OBVIOUS
<1>2. CASE ~s.ok \/ ~Valid(s.objects, k, b)
  <2>1. t = [s EXCEPT !.ok = FALSE]
    BY <1>1, <1>2 DEF Put
  <2>2. t.objects = s.objects /\ t.ok = FALSE /\ t \in [objects : Objects, vectors : SUBSET Keys, ok : BOOLEAN]
    BY <1>0, <2>1
  <2> QED
    BY <1>1, <2>2 DEF Holds, Grown
<1>3. CASE ~(~s.ok \/ ~Valid(s.objects, k, b))
  <2>1. PICK objs : objs = s.objects
    OBVIOUS
  <2>2. PICK o : o = Stored(b, objs[k])
    OBVIOUS
  <2>3. PICK new, vecs : /\ new = [objs EXCEPT ![k] = o]
                         /\ vecs = IF b.vec THEN s.vectors \cup {k} ELSE s.vectors \ {k}
    OBVIOUS
  <2>4. objs \in Objects /\ objs[k] \in Record \cup {Absent}
    BY <1>0, <2>1 DEF Objects
  <2>5. NextVersion(objs[k]) \in Nat /\ (objs[k] # Absent => NextVersion(objs[k]) > objs[k].version)
    BY <2>4, NextVersionType
  <2>6. o \in Record /\ o # Absent /\ o.f = b.f /\ o.version = NextVersion(objs[k])
    BY <2>2, <2>4, StoredType
  <2>7. t = [s EXCEPT !.objects = new, !.vectors = vecs]
    BY <1>0, <1>1, <1>3, <2>1, <2>2, <2>3 DEF Put
  <2>8. new \in Objects /\ vecs \in SUBSET Keys
    BY <1>0, <2>3, <2>4, <2>6 DEF Objects
  <2>9. t \in [objects : Objects, vectors : SUBSET Keys, ok : BOOLEAN] /\ t.objects = new
    BY <1>0, <2>7, <2>8
  <2>10. new[k] = o /\ \A l \in Keys : l # k => new[l] = objs[l]
    BY <2>3, <2>4 DEF Objects
  <2>11. Grown(objs, new)
    BY <2>5, <2>6, <2>10 DEF Grown
  <2>12. ASSUME index = "unique" PROVE Distinct(new)
    <3>1. Distinct(objs)
      BY <2>1, <2>12 DEF Holds
    <3>2. k[1] = Indexed /\ o.f \in Fields => \A l \in Valued(objs) \ {k} : objs[l].f # o.f
      BY <1>3, <2>1, <2>6, <2>12 DEF Valid
    <3> QED
      BY <2>3, <2>4, <2>6, <3>1, <3>2, PutDistinct
  <2> QED
    BY <1>1, <1>3, <2>1, <2>6, <2>9, <2>10, <2>11, <2>12 DEF Holds
<1> QED
  BY <1>2, <1>3

(* Shown keeps Absent apart and keeps field and version. *)
LEMMA ShownKeeps ==
    ASSUME NEW o \in Record \cup {Absent}
    PROVE  /\ Shown(o) = Absent <=> o = Absent
           /\ o # Absent => Shown(o).f = o.f /\ Shown(o).version = o.version
<1>1. CASE o = Absent
  BY <1>1 DEF Shown
<1>2. CASE o # Absent
  <2>1. o \in Record /\ Shown(o) = [f |-> o.f, version |-> o.version]
    BY <1>2 DEF Shown
  <2>2. Shown(o) \in [f : Values, version : Nat]
    BY <2>1 DEF Record
  <2>3. Shown(o) # Absent
    BY <2>2, MemoryConstants DEF Values
  <2> QED
    BY <1>2, <2>1, <2>3
<1> QED
  BY <1>1, <1>2

(* Objects with different values are shown so. *)
LEMMA ShownDistinct ==
    ASSUME NEW objs \in Objects, Distinct(objs)
    PROVE  Abstract!Distinct([k \in Keys |-> Shown(objs[k])])
<1>0. PICK sh : sh = [k \in Keys |-> Shown(objs[k])]
  OBVIOUS
<1>1. ASSUME NEW k \in Keys, NEW l \in Keys, k[1] = Indexed, l[1] = Indexed, sh[k] # Absent,
             sh[l] # Absent, k # l, sh[k].f \in Fields
      PROVE  sh[k].f # sh[l].f
  <2>1. objs[k] # Absent /\ objs[l] # Absent /\ sh[k].f = objs[k].f /\ sh[l].f = objs[l].f
    BY <1>0, <1>1, ShownKeeps DEF Objects
  <2>2. k \in Valued(objs)
    BY <1>1, <2>1 DEF Valued
  <2>3. CASE objs[l].f \in Fields
    <3>1. l \in Valued(objs)
      BY <1>1, <2>1, <2>3 DEF Valued
    <3> QED
      BY <1>1, <2>1, <2>2, <3>1 DEF Distinct
  <2>4. CASE objs[l].f \notin Fields
    BY <1>1, <2>1, <2>4
  <2> QED
    BY <2>3, <2>4
<1> QED
  BY <1>0, <1>1 DEF Abstract!Distinct, Abstract!Indexed, Indexed

(* What a call of the object store promises: the invariant is kept, a step  *)
(* of the record store is made, the other stores are left alone.            *)
ObjectStep == ObjectInv' /\ Abstract!RNext /\ UNCHANGED <<evars, lvars>>

(* Puts that lose nothing and raise versions are puts of the record store.  *)
LEMMA PutsStep ==
    ASSUME ObjectInv, OnObjects, NEW s, Holds(s), Grown(objects, s.objects), Becomes(s)
    PROVE  ObjectStep
<1>1. /\ objects \in Objects /\ s.objects \in Objects /\ objects' = s.objects
      /\ vectors' = s.vectors /\ s.vectors \in SUBSET Keys /\ index' = index
  BY DEF ObjectInv, Holds, Becomes, OnObjects
<1>2. ObjectInv'
  <2>1. objects' \in Objects /\ vectors' \in SUBSET Keys /\ (index' = "unique" => Distinct(objects'))
    BY <1>1 DEF Holds
  <2> QED
    BY <2>1 DEF ObjectInv, Distinct, Objects, Valued
<1>3. PICK sh, new : /\ sh = [k \in Keys |-> Shown(objects[k])]
                     /\ new = [k \in Keys |-> Shown(objects'[k])]
  OBVIOUS
<1>4. ASSUME NEW k \in Keys, sh[k] # Absent
      PROVE  new[k] # Absent /\ (new[k] # sh[k] => new[k].version > sh[k].version)
  <2>1. objects[k] # Absent /\ sh[k] = Shown(objects[k]) /\ new[k] = Shown(objects'[k])
    BY <1>1, <1>3, <1>4, ShownKeeps DEF Objects
  <2>2. objects'[k] # Absent /\ (objects'[k] = objects[k] \/ objects'[k].version > objects[k].version)
    BY <1>1, <2>1 DEF Grown
  <2>3. /\ new[k] # Absent /\ new[k].version = objects'[k].version
        /\ sh[k].version = objects[k].version
    BY <1>1, <2>1, <2>2, ShownKeeps DEF Objects
  <2> QED
    BY <2>1, <2>2, <2>3
<1>5. index = "unique" => Abstract!Distinct(new)
  <2> SUFFICES ASSUME index = "unique" PROVE Abstract!Distinct(new)
    OBVIOUS
  <2>1. Distinct(s.objects) /\ new = [k \in Keys |-> Shown(s.objects[k])]
    BY <1>1, <1>3 DEF Holds
  <2> QED
    BY <1>1, <2>1, ShownDistinct
<1>6. answers' = {} /\ UNCHANGED <<events, links>> /\ (index = "unique") = (index = "unique")'
  BY DEF OnObjects, evars, lvars
<1>7. Abstract!RPut
  BY <1>3, <1>4, <1>5, <1>6 DEF Abstract!RPut
<1> QED
  BY <1>2, <1>7 DEF ObjectStep, Abstract!RNext, OnObjects

(* put_object, put_object_with_options *)
LEMMA PutObjectStep ==
    ASSUME ops \in Nat, ObjectInv, NEW k \in Keys, NEW b \in Bodies, NEW x, PutObject(k, b, x)
    PROVE  ObjectStep
<1>1. Holds(State) /\ State.objects = objects
  BY DEF Holds, State, ObjectInv
<1>2. PICK s : s = Put(State, k, b)
  OBVIOUS
<1>3. Holds(s) /\ Grown(objects, s.objects)
  BY <1>1, <1>2, PutHolds
<1>4. OnObjects /\ Becomes(s)
  BY <1>2 DEF PutObject
<1> QED
  BY <1>3, <1>4, PutsStep

(* put_objects_batch: the puts before a refused one stay. *)
LEMMA PutObjectsBatchStep ==
    ASSUME ops \in Nat, ObjectInv, NEW seq \in (Keys \X Bodies) \X (Keys \X Bodies), PutObjectsBatch(seq)
    PROVE  ObjectStep
<1>0. Len(seq) = 2 /\ seq[1] \in Keys \X Bodies /\ seq[2] \in Keys \X Bodies
  OBVIOUS
<1>1. PICK p : p = CHOOSE puts : puts = [i \in 0..Len(seq) |->
             IF i = 0 THEN State ELSE Put(puts[i - 1], seq[i][1], seq[i][2])]
  OBVIOUS
<1>2. p = [i \in 0..2 |-> IF i = 0 THEN State ELSE Put(p[i - 1], seq[i][1], seq[i][2])]
  <2>1. PICK a : a = Put(State, seq[1][1], seq[1][2])
    OBVIOUS
  <2>2. PICK c : c = Put(a, seq[2][1], seq[2][2])
    OBVIOUS
  <2>3. PICK g : g = [i \in 0..2 |-> IF i = 0 THEN State ELSE IF i = 1 THEN a ELSE c]
    OBVIOUS
  <2>4. ASSUME NEW i \in 0..2
        PROVE  g[i] = IF i = 0 THEN State ELSE Put(g[i - 1], seq[i][1], seq[i][2])
    <3>1. g[0] = State /\ g[1] = a /\ g[2] = c
      BY <2>3
    <3>2. i = 0 \/ i = 1 \/ i = 2
      OBVIOUS
    <3> QED
      BY <2>1, <2>2, <3>1, <3>2
  <2>5. g = [i \in 0..2 |-> g[i]]
    BY <2>3
  <2>6. g = [i \in 0..Len(seq) |->
             IF i = 0 THEN State ELSE Put(g[i - 1], seq[i][1], seq[i][2])]
    BY <1>0, <2>4, <2>5
  <2>7. p = [i \in 0..Len(seq) |->
             IF i = 0 THEN State ELSE Put(p[i - 1], seq[i][1], seq[i][2])]
    BY <1>1, <2>6
  <2> QED
    BY <1>0, <2>7
<1>3. Call("objects") /\ OnObjects /\ Becomes(p[Len(seq)])
  BY <1>1 DEF PutObjectsBatch
<1>4. p[0] = State /\ p[1] = Put(p[0], seq[1][1], seq[1][2]) /\ p[2] = Put(p[1], seq[2][1], seq[2][2])
  BY <1>2
<1>5. Holds(p[0]) /\ p[0].objects = objects
  BY <1>4 DEF Holds, State, ObjectInv
<1>6. Holds(p[1]) /\ Grown(p[0].objects, p[1].objects)
  BY <1>0, <1>4, <1>5, PutHolds
<1>7. Holds(p[2]) /\ Grown(p[1].objects, p[2].objects)
  BY <1>0, <1>4, <1>6, PutHolds
<1>8. p[0].objects \in Objects /\ p[1].objects \in Objects /\ p[2].objects \in Objects
  BY <1>5, <1>6, <1>7 DEF Holds
<1>9. Grown(objects, p[2].objects)
  BY <1>5, <1>6, <1>7, <1>8, GrownTwice
<1> QED
  BY <1>0, <1>3, <1>7, <1>9, PutsStep

(* put_object_with_source_metadata: version and creation time may be those  *)
(* of the source.                                                           *)
LEMMA PutWithSourceMetadataStep ==
    ASSUME ops \in Nat, ObjectInv, NEW k \in Keys, NEW b \in Bodies, NEW v \in Nat, NEW at \in Nat,
           PutWithSourceMetadata(k, b, v, at)
    PROVE  ObjectStep
<1>1. Holds(State) /\ State.objects = objects /\ objects \in Objects
  BY DEF Holds, State, ObjectInv
<1>2. PICK s : s = Put(State, k, b)
  OBVIOUS
<1>3. /\ Holds(s) /\ s.ok /\ OnObjects
      /\ Becomes([s EXCEPT !.objects[k] = Sourced(@, v, at)])
  BY <1>1, <1>2, PutHolds DEF PutWithSourceMetadata
<1>4. s.objects[k] # Absent /\ \A l \in Keys \ {k} : s.objects[l] = objects[l]
  BY <1>1, <1>2, <1>3, PutHolds
<1>5. PICK objs : objs = s.objects
  OBVIOUS
<1>6. objs \in Objects /\ objs[k] \in Record /\ s.vectors \in SUBSET Keys
      /\ s \in [objects : Objects, vectors : SUBSET Keys, ok : BOOLEAN]
  BY <1>3, <1>4, <1>5 DEF Holds, Objects
<1>7. PICK o : o = Sourced(objs[k], v, at)
  OBVIOUS
<1>8. o \in Record /\ o.f = objs[k].f /\ o # Absent
  <2>1. o \in Record /\ o.f = objs[k].f
    BY <1>6, <1>7 DEF Record, Sourced
  <2>2. Absent \notin Record
    BY MemoryConstants DEF Record, Values
  <2> QED
    BY <2>1, <2>2
<1>9. objects' = [objs EXCEPT ![k] = o] /\ vectors' = s.vectors /\ index' = index
  <2>1. PICK u : u = [s EXCEPT !.objects[k] = Sourced(@, v, at)]
    OBVIOUS
  <2>2. u.objects = [objs EXCEPT ![k] = o] /\ u.vectors = s.vectors
    BY <1>5, <1>6, <1>7, <2>1 DEF Objects
  <2> QED
    BY <1>3, <2>1, <2>2 DEF Becomes, OnObjects
<1>10. PICK new : new = [objs EXCEPT ![k] = o]
  OBVIOUS
<1>11. new \in Objects /\ new[k] = o /\ \A l \in Keys \ {k} : new[l] = objects[l]
  BY <1>4, <1>5, <1>6, <1>8, <1>10 DEF Objects
<1>12. ASSUME index = "unique" PROVE Distinct(new)
  <2>1. Valued(new) = Valued(objs) /\ \A l \in Keys : new[l].f = objs[l].f
    <3>1. \A l \in Keys : /\ new[l] = Absent <=> objs[l] = Absent
                          /\ new[l].f = objs[l].f
      BY <1>4, <1>5, <1>6, <1>8, <1>10 DEF Objects
    <3> QED
      BY <3>1 DEF Valued
  <2>2. Distinct(objs)
    BY <1>3, <1>5, <1>12 DEF Holds
  <2> QED
    BY <2>1, <2>2 DEF Distinct, Valued
<1>13. ObjectInv'
  <2>1. objects' \in Objects /\ vectors' \in SUBSET Keys /\ (index' = "unique" => Distinct(objects'))
    BY <1>6, <1>9, <1>10, <1>11, <1>12
  <2> QED
    BY <2>1 DEF ObjectInv, Distinct, Objects, Valued
<1>14. PICK sh, to : /\ sh = [l \in Keys |-> Shown(objects[l])]
                     /\ to = [l \in Keys |-> Shown(objects'[l])]
  OBVIOUS
<1>15. to = [l \in Keys |-> Shown(new[l])]
  BY <1>9, <1>10, <1>14
<1>16. to[k] # Absent /\ \A l \in Keys \ {k} : to[l] = sh[l]
  BY <1>8, <1>11, <1>14, <1>15, ShownKeeps
<1>17. index = "unique" => Abstract!Distinct(to)
  BY <1>11, <1>12, <1>15, ShownDistinct
<1>18. answers' = {} /\ UNCHANGED <<events, links>> /\ (index = "unique") = (index = "unique")'
  BY <1>3 DEF OnObjects, evars, lvars
<1>19. Abstract!RPutWithMetadata(k)
  BY <1>14, <1>16, <1>17, <1>18 DEF Abstract!RPutWithMetadata
<1> QED
  BY <1>3, <1>13, <1>19 DEF ObjectStep, Abstract!RNext, OnObjects

(* delete_object, delete_objects_batch *)
LEMMA DeleteObjectsStep ==
    ASSUME ObjectInv, NEW S \in SUBSET Keys, DeleteObjects(S)
    PROVE  ObjectStep
<1>1. /\ OnObjects /\ index' = index /\ vectors' \in SUBSET Keys
      /\ objects' = [k \in Keys |-> IF k \in S THEN Absent ELSE objects[k]]
  BY DEF DeleteObjects, ObjectInv, OnObjects
<1>2. \A k \in Keys : objects'[k] = IF k \in S THEN Absent ELSE objects[k]
  BY <1>1
<1>3. objects' \in Objects /\ (index = "unique" => Distinct(objects'))
  BY <1>1, <1>2 DEF ObjectInv, Objects, Distinct, Valued
<1>4. ObjectInv'
  BY <1>1, <1>3 DEF ObjectInv, Distinct, Objects, Valued
<1>5. answers' = {} /\ UNCHANGED <<events, links>> /\ (index = "unique") = (index = "unique")'
  BY <1>1 DEF OnObjects, evars, lvars
<1>6. \A k \in Keys : Shown(objects'[k]) = IF k \in S THEN Absent ELSE Shown(objects[k])
  BY <1>2 DEF Shown
<1>7. Abstract!RDelete(S)
  BY <1>5, <1>6 DEF Abstract!RDelete
<1> QED
  BY <1>1, <1>4, <1>7 DEF ObjectStep, Abstract!RNext, OnObjects

(* create_index_definition, delete_index *)
LEMMA SetIndexStep ==
    ASSUME ObjectInv, NEW def, SetIndex(def)
    PROVE  ObjectStep
<1>1. /\ answers' = {} /\ UNCHANGED <<objects, vectors, evars, lvars>> /\ index' = def
      /\ def = "unique" => Distinct(objects)
  BY DEF SetIndex, Distinct
<1>2. objects \in Objects /\ vectors \in SUBSET Keys
  BY DEF ObjectInv
<1>3. ObjectInv'
  BY <1>1, <1>2 DEF ObjectInv, Distinct, Objects, Valued
<1>4. (index = "unique")' => Abstract!Distinct([k \in Keys |-> Shown(objects[k])])
  BY <1>1, <1>2, ShownDistinct
<1>5. UNCHANGED <<events, links, objects>> /\ (index = "unique")' \in BOOLEAN
  BY <1>1 DEF evars, lvars
<1>6. Abstract!RIndex
  BY <1>1, <1>4, <1>5 DEF Abstract!RIndex
<1> QED
  BY <1>1, <1>3, <1>6 DEF ObjectStep, Abstract!RNext

(* add_vector, remove_vector *)
LEMMA SetVectorStep ==
    ASSUME ObjectInv, NEW k \in Keys, NEW add, SetVector(k, add)
    PROVE  ObjectStep
<1>1. OnObjects /\ UNCHANGED <<objects, index>> /\ vectors' \in SUBSET Keys
  BY DEF SetVector, ObjectInv, OnObjects
<1>2. ObjectInv'
  BY <1>1 DEF ObjectInv, Distinct, Objects, Valued
<1>3. answers' = {} /\ UNCHANGED <<events, links, objects>> /\ (index = "unique") = (index = "unique")'
  BY <1>1 DEF OnObjects, evars, lvars
<1>4. Abstract!ROther
  BY <1>3 DEF Abstract!ROther
<1> QED
  BY <1>1, <1>2, <1>4 DEF ObjectStep, Abstract!RNext, OnObjects

-----------------------------------------------------------------------------
(* Events *)

(* What a call of the event log promises. *)
EventStep == EventInv' /\ Abstract!RNext /\ UNCHANGED <<ovars, lvars>>

(* Live events have sequences of their own and keys of their own. *)
LEMMA EventsApart ==
    ASSUME EventInv, NEW e \in events, NEW o \in events, e # o, e.stream = o.stream
    PROVE  e.seq # o.seq /\ (e.idem = 0 \/ e.idem # o.idem)
<1>1. e.seq # o.seq
  BY DEF EventInv, OneSequence
<1>2. ASSUME e.idem # 0, e.idem = o.idem PROVE FALSE
  <2>1. eventKeys[<<e.stream, e.idem>>] = e.seq /\ eventKeys[<<o.stream, o.idem>>] = o.seq
    BY <1>2 DEF EventInv, KeysNameTheirs
  <2> QED
    BY <1>1, <1>2, <2>1
<1> QED
  BY <1>1, <1>2

(* Removing events keeps what is known of the others. *)
LEMMA EventsRemoved ==
    ASSUME EventInv, answers' = {}, UNCHANGED <<nextEvent, eventKeys, ovars, lvars>>, events' \subseteq events
    PROVE  EventStep
<1>1. EventInv'
  <2>1. OneSequence' /\ KeysNameTheirs'
    BY DEF EventInv, OneSequence, KeysNameTheirs
  <2> QED
    BY <2>1 DEF EventInv
<1>2. UNCHANGED <<objects, links>> /\ (index = "unique") = (index = "unique")'
  BY DEF ovars, lvars
<1>3. Abstract!RRemoveEvents
  BY <1>2 DEF Abstract!RRemoveEvents
<1> QED
  BY <1>1, <1>3 DEF EventStep, Abstract!RNext

(* append_event of a key that names a live event: that event. *)
LEMMA AppendKnownStep ==
    ASSUME EventInv, NEW s \in Streams, NEW i \in Idems, Known(s, i) # {},
           answers' = {[stream |-> s, idem |-> i, got |-> x] : x \in Known(s, i)},
           UNCHANGED <<evars, ovars, lvars>>
    PROVE  EventStep
<1>1. UNCHANGED <<events, nextEvent, eventKeys, objects, links>> /\ (index = "unique") = (index = "unique")'
  BY DEF evars, ovars, lvars
<1>2. EventInv'
  BY <1>1 DEF EventInv, OneSequence, KeysNameTheirs
<1>3. ASSUME NEW r \in answers'
      PROVE  r.got \in events' /\ <<r.got.stream, r.got.idem>> = <<r.stream, r.idem>>
  <2>1. PICK x \in Known(s, i) : r = [stream |-> s, idem |-> i, got |-> x]
    OBVIOUS
  <2>2. x \in events /\ i # 0 /\ x.seq = eventKeys[<<s, i>>]
    BY DEF Known
  <2>3. x.stream = s /\ x.idem = i
    BY <2>2 DEF EventInv, KeysNameTheirs
  <2> QED
    BY <1>1, <2>1, <2>2, <2>3
<1>4. \A e, o \in events' :
          e # o /\ e.stream = o.stream => e.seq # o.seq /\ (e.idem = 0 \/ e.idem # o.idem)
  BY <1>1, EventsApart
<1>5. events' \ events = {} /\ events \subseteq events'
  BY <1>1
<1>6. Abstract!RAppend
  BY <1>1, <1>3, <1>4, <1>5 DEF Abstract!RAppend
<1> QED
  BY <1>2, <1>6 DEF EventStep, Abstract!RNext

(* append_event of a new key, or of one whose event was removed. *)
LEMMA AppendNewStep ==
    ASSUME EventInv, NEW s \in Streams, NEW i \in Idems, Known(s, i) = {},
           NEW n, n = nextEvent + 1, NEW e, e = Event(s, n, i),
           nextEvent' = n, events' = events \cup {e},
           eventKeys' = IF i = 0 THEN eventKeys ELSE [eventKeys EXCEPT ![<<s, i>>] = n],
           answers' = {[stream |-> s, idem |-> i, got |-> e]}, UNCHANGED <<ovars, lvars>>
    PROVE  EventStep
<1>0. n \in Nat \ {0} /\ nextEvent \in Nat /\ nextEvent < n
  BY DEF EventInv
<1>1. e \in [stream : Streams, seq : Nat \ {0}, idem : Idems] /\ e.stream = s /\ e.seq = n /\ e.idem = i
  BY <1>0 DEF Event
<1>2. \A o \in events : o.seq \in Nat /\ o.seq < n
  BY <1>0 DEF EventInv
<1>3. /\ eventKeys' \in [Streams \X Idems -> Nat]
      /\ \A x \in Streams \X Idems : eventKeys'[x] = IF i # 0 /\ x = <<s, i>> THEN n ELSE eventKeys[x]
  BY <1>0 DEF EventInv
<1>4. \A x \in Streams \X Idems : eventKeys[x] \in Nat /\ eventKeys[x] < n
  <2>1. \A x \in Streams \X Idems : eventKeys[x] \in Nat /\ eventKeys[x] <= nextEvent
    BY DEF EventInv
  <2> QED
    BY <1>0, <2>1
<1>5. OneSequence'
  BY <1>1, <1>2 DEF EventInv, OneSequence
<1>6. ASSUME NEW o \in events', o.idem # 0 PROVE eventKeys'[<<o.stream, o.idem>>] = o.seq
  <2>1. CASE o = e
    BY <1>1, <1>3, <1>6, <2>1
  <2>2. CASE o \in events
    <3>1. eventKeys[<<o.stream, o.idem>>] = o.seq /\ o.stream \in Streams /\ o.idem \in Idems
      BY <1>6, <2>2 DEF EventInv, KeysNameTheirs
    <3>2. <<o.stream, o.idem>> # <<s, i>>
      <4> SUFFICES ASSUME <<o.stream, o.idem>> = <<s, i>> PROVE FALSE
        OBVIOUS
      <4>1. o \in Known(s, i)
        BY <1>6, <2>2, <3>1 DEF Known
      <4> QED
        BY <4>1
    <3> QED
      BY <1>3, <3>1, <3>2
  <2> QED
    BY <2>1, <2>2
<1>7. ASSUME NEW o \in events', NEW t \in Streams, NEW j \in Idems \ {0}, o.seq = eventKeys'[<<t, j>>]
      PROVE  o.stream = t /\ o.idem = j
  <2>1. CASE i # 0 /\ <<t, j>> = <<s, i>>
    <3>1. o.seq = n /\ t = s /\ j = i
      BY <1>3, <1>7, <2>1
    <3>2. o = e
      BY <1>0, <1>2, <3>1
    <3> QED
      BY <1>1, <3>1, <3>2
  <2>2. CASE ~(i # 0 /\ <<t, j>> = <<s, i>>)
    <3>1. o.seq = eventKeys[<<t, j>>]
      BY <1>3, <1>7, <2>2
    <3>2. o.seq < n /\ o.seq \in Nat
      BY <1>4, <3>1
    <3>3. o \in events
      BY <1>0, <1>1, <3>2
    <3> QED
      BY <3>1, <3>3 DEF EventInv, KeysNameTheirs
  <2> QED
    BY <2>1, <2>2
<1>8. KeysNameTheirs'
  BY <1>6, <1>7 DEF KeysNameTheirs
<1>9. EventInv'
  <2>1. \A x \in Streams \X Idems : eventKeys'[x] <= nextEvent'
    BY <1>0, <1>3, <1>4
  <2>2. \A o \in events' : o.seq <= nextEvent'
    BY <1>0, <1>1, <1>2
  <2>3. events' \subseteq [stream : Streams, seq : Nat \ {0}, idem : Idems]
    BY <1>1 DEF EventInv
  <2> QED
    BY <1>0, <1>3, <1>5, <1>8, <2>1, <2>2, <2>3 DEF EventInv
<1>10. UNCHANGED <<objects, links>> /\ (index = "unique") = (index = "unique")'
  BY DEF ovars, lvars
<1>11. \A a, o \in events' :
          a # o /\ a.stream = o.stream => a.seq # o.seq /\ (a.idem = 0 \/ a.idem # o.idem)
  <2> SUFFICES ASSUME NEW a \in events', NEW o \in events', a # o, a.stream = o.stream
               PROVE  a.seq # o.seq /\ (a.idem = 0 \/ a.idem # o.idem)
    OBVIOUS
  <2>1. a.seq # o.seq
    BY <1>5 DEF OneSequence
  <2>2. ASSUME a.idem # 0, a.idem = o.idem PROVE FALSE
    BY <1>6, <2>1, <2>2
  <2> QED
    BY <2>1, <2>2
<1>12. \A a \in events' \ events : a = e
  OBVIOUS
<1>13. Abstract!RAppend
  BY <1>1, <1>2, <1>10, <1>11, <1>12 DEF Abstract!RAppend
<1> QED
  BY <1>9, <1>13 DEF EventStep, Abstract!RNext

(* append_event *)
LEMMA AppendEventStep ==
    ASSUME EventInv, NEW s \in Streams, NEW i \in Idems, AppendEvent(s, i)
    PROVE  EventStep
<1>1. PICK n, e : n = nextEvent + 1 /\ e = Event(s, n, i)
  OBVIOUS
<1>2. UNCHANGED <<ovars, lvars>> /\ e.seq = n
  BY <1>1 DEF AppendEvent, Event
<1>3. CASE Known(s, i) # {}
  <2>1. answers' = {[stream |-> s, idem |-> i, got |-> x] : x \in Known(s, i)} /\ UNCHANGED evars
    BY <1>3 DEF AppendEvent
  <2> QED
    BY <1>2, <1>3, <2>1, AppendKnownStep
<1>4. CASE Known(s, i) = {}
  <2>1. /\ nextEvent' = n /\ events' = events \cup {e}
        /\ eventKeys' = IF i = 0 THEN eventKeys ELSE [eventKeys EXCEPT ![<<s, i>>] = n]
        /\ answers' = {[stream |-> s, idem |-> i, got |-> e]}
    BY <1>1, <1>2, <1>4 DEF AppendEvent, NextSequence
  <2> QED
    BY <1>1, <1>2, <1>4, <2>1, AppendNewStep
<1> QED
  BY <1>3, <1>4

-----------------------------------------------------------------------------
(* Links *)

(* What a call of the link store promises. *)
LinkStep == LinkInv' /\ Abstract!RNext /\ UNCHANGED <<ovars, evars>>

(* A link under an id that no live link has. *)
LEMMA NewLinkStep ==
    ASSUME LinkInv, OnLinks, NEW l, l.id \in Nat, links' = links \cup {l}, \A o \in links : o.id # l.id,
           nextLink' \in Nat, nextLink <= nextLink', l.id <= nextLink'
    PROVE  LinkStep
<1>1. LinkInv'
  BY DEF LinkInv
<1>2. answers' = {} /\ UNCHANGED <<objects, events, ovars, evars>> /\ (index = "unique") = (index = "unique")'
  BY DEF OnLinks, ovars, evars
<1>3. Abstract!RLink
  BY <1>2 DEF Abstract!RLink
<1> QED
  BY <1>1, <1>2, <1>3 DEF LinkStep, Abstract!RNext

(* create_link, import_link, delete_link *)
LEMMA LinksStep ==
    ASSUME LinkInv,
           \/ \E a, b \in Refs : CreateLink(a, b) \/ \E id \in 0..MaxLink : ImportLink(Link(id, a, b))
           \/ \E l \in links : DeleteLink(l)
    PROVE  LinkStep
<1>0. nextLink \in Nat /\ \A o \in links : o.id \in Nat /\ o.id <= nextLink
  BY DEF LinkInv
<1>1. ASSUME NEW a \in Refs, NEW b \in Refs, CreateLink(a, b) PROVE LinkStep
  <2>1. PICK l : l = Link(nextLink + 1, a, b)
    OBVIOUS
  <2>2. OnLinks /\ nextLink' = nextLink + 1 /\ links' = links \cup {l} /\ l.id = nextLink + 1
    BY <1>1, <2>1 DEF CreateLink, Link
  <2>3. \A o \in links : o.id # l.id
    BY <1>0, <2>2
  <2> QED
    BY <1>0, <2>2, <2>3, NewLinkStep
<1>2. ASSUME NEW a \in Refs, NEW b \in Refs, NEW id \in 0..MaxLink, ImportLink(Link(id, a, b))
      PROVE  LinkStep
  <2>1. PICK l : l = Link(id, a, b)
    OBVIOUS
  <2>2. /\ OnLinks /\ links' = links \cup {l} /\ \A o \in links : o.id # l.id
        /\ nextLink' = IF l.id > nextLink THEN l.id ELSE nextLink
    BY <1>2, <2>1 DEF ImportLink
  <2>3. l.id \in Nat
    BY <2>1 DEF Link
  <2>4. nextLink' \in Nat /\ nextLink <= nextLink' /\ l.id <= nextLink'
    BY <1>0, <2>2, <2>3
  <2> QED
    BY <2>2, <2>3, <2>4, NewLinkStep
<1>3. ASSUME NEW l \in links, DeleteLink(l) PROVE LinkStep
  <2>1. /\ answers' = {} /\ UNCHANGED <<objects, events, ovars, evars>>
        /\ (index = "unique") = (index = "unique")' /\ links' = links \ {l} /\ nextLink' = nextLink
    BY <1>3 DEF DeleteLink, OnLinks, ovars, evars
  <2>2. LinkInv'
    BY <2>1 DEF LinkInv
  <2>3. Abstract!RUnlink
    BY <2>1 DEF Abstract!RUnlink
  <2> QED
    BY <2>1, <2>2, <2>3 DEF LinkStep, Abstract!RNext
<1> QED
  BY <1>1, <1>2, <1>3

-----------------------------------------------------------------------------
(* The engine *)

(* A store that is left alone keeps its invariant. *)
LEMMA Alone ==
    /\ ObjectInv /\ UNCHANGED ovars => ObjectInv'
    /\ EventInv /\ UNCHANGED evars => EventInv'
    /\ LinkInv /\ UNCHANGED lvars => LinkInv'
<1>1. ObjectInv /\ UNCHANGED ovars => ObjectInv'
  BY DEF ovars, ObjectInv, Distinct, Objects, Valued
<1>2. EventInv /\ UNCHANGED evars => EventInv'
  BY DEF evars, EventInv, OneSequence, KeysNameTheirs
<1>3. LinkInv /\ UNCHANGED lvars => LinkInv'
  BY DEF lvars, LinkInv
<1> QED
  BY <1>1, <1>2, <1>3

(* Every call keeps the invariant and is one of the record store. *)
LEMMA EngineStep ==
    ASSUME RecInv, [EngineNext]_engineVars
    PROVE  RecInv' /\ [Abstract!RNext]_(Abstract!rvars)
<1>0. ObjectInv /\ EventInv /\ LinkInv /\ ops \in Nat
  BY DEF RecInv
<1>n. ops' \in Nat
  <2>1. ASSUME NEW p, Call(p) PROVE ops' \in Nat
    BY <1>0, <2>1 DEF Call
  <2>2. CASE UNCHANGED ops
    BY <1>0, <2>2
  <2>3. UNCHANGED ops \/ \E p : Call(p)
    BY Zenon DEF EngineNext, engineVars, PutObject, PutWithSourceMetadata, PutObjectsBatch,
       DeleteObjects, SetIndex, SetVector, AppendEvent, OnEvents, DeleteLastEvent, DeleteStream,
       OnLinks, CreateLink, ImportLink, DeleteLink
  <2> QED
    BY <2>1, <2>2, <2>3
<1>o. ASSUME ObjectStep PROVE RecInv' /\ Abstract!RNext
  BY <1>0, <1>n, <1>o, Alone DEF ObjectStep, RecInv
<1>e. ASSUME EventStep PROVE RecInv' /\ Abstract!RNext
  BY <1>0, <1>n, <1>e, Alone DEF EventStep, RecInv
<1>l. ASSUME LinkStep PROVE RecInv' /\ Abstract!RNext
  BY <1>0, <1>n, <1>l, Alone DEF LinkStep, RecInv
<1>1. CASE UNCHANGED <<ovars, evars, lvars, answers>>
  <2>1. RecInv'
    BY <1>0, <1>1, <1>n, Alone DEF RecInv
  <2>2. UNCHANGED <<objects, index, events, links, answers>>
    BY <1>1 DEF ovars, evars, lvars
  <2>3. UNCHANGED Abstract!rvars
    BY <2>2 DEF Abstract!rvars
  <2> QED
    BY <2>1, <2>3
<1>2. ASSUME NEW k \in Keys, NEW b \in Bodies,
             (\E x \in 0..2 \cup {Absent} : PutObject(k, b, x)) \/ 
             (\E x \in SourceMetadata : PutWithSourceMetadata(k, b, x[1], x[2]))
      PROVE  ObjectStep
  <2>1. \A x \in SourceMetadata : x[1] \in Nat /\ x[2] \in Nat
    BY DEF SourceMetadata
  <2> QED
    BY <1>0, <1>2, <2>1, PutObjectStep, PutWithSourceMetadataStep
<1>3. ASSUME NEW seq \in (Keys \X Bodies) \X (Keys \X Bodies), PutObjectsBatch(seq) PROVE ObjectStep
  BY <1>0, <1>3, PutObjectsBatchStep
<1>4. ASSUME NEW S \in SUBSET Keys, DeleteObjects(S) PROVE ObjectStep
  BY <1>0, <1>4, DeleteObjectsStep
<1>5. ASSUME NEW def, SetIndex(def) PROVE ObjectStep
  BY <1>0, <1>5, SetIndexStep
<1>6. ASSUME NEW k \in Keys, NEW add \in BOOLEAN, SetVector(k, add) PROVE ObjectStep
  BY <1>0, <1>6, SetVectorStep
<1>7. ASSUME NEW s \in Streams, NEW i \in Idems, AppendEvent(s, i) PROVE EventStep
  BY <1>0, <1>7, AppendEventStep
<1>8. ASSUME NEW s \in Streams, DeleteLastEvent(s) \/ DeleteStream(s) PROVE EventStep
  <2>1. answers' = {} /\ UNCHANGED <<nextEvent, eventKeys, ovars, lvars>> /\ events' \subseteq events
    BY <1>8 DEF DeleteLastEvent, DeleteStream, OnEvents
  <2> QED
    BY <1>0, <2>1, EventsRemoved
<1>9. CASE \/ \E a, b \in Refs : CreateLink(a, b) \/ \E id \in 0..MaxLink : ImportLink(Link(id, a, b))
           \/ \E l \in links : DeleteLink(l)
  BY <1>0, <1>9, <1>l, LinksStep
<1>10. CASE UNCHANGED engineVars
  BY <1>1, <1>10 DEF engineVars
<1> QED
  BY <1>1, <1>2, <1>3, <1>4, <1>5, <1>6, <1>7, <1>8, <1>9, <1>10, <1>o, <1>e DEF EngineNext

(* An empty engine. *)
LEMMA EngineStarts == ASSUME EngineInit PROVE RecInv /\ Abstract!RInit
<1>1. /\ objects = [k \in Keys |-> Absent] /\ vectors = {} /\ index = "none" /\ events = {}
      /\ nextEvent = 0 /\ eventKeys = [x \in Streams \X Idems |-> 0]
      /\ links = {} /\ nextLink = 0 /\ answers = {} /\ ops = 0
  BY DEF EngineInit
<1>2. ObjectInv
  BY <1>1 DEF ObjectInv, Objects
<1>3. EventInv
  BY <1>1 DEF EventInv, OneSequence, KeysNameTheirs
<1>4. LinkInv
  BY <1>1 DEF LinkInv
<1>5. Abstract!RInit
  BY <1>1 DEF Abstract!RInit, Shown
<1> QED
  BY <1>1, <1>2, <1>3, <1>4, <1>5 DEF RecInv

(* The in-memory engine is a record store: no put, batch that stops half    *)
(* way or index definition lets two objects share a unique value, versions  *)
(* only grow unless a source sets them, a retried append is answered with   *)
(* the event of its key, and no live event or link loses its number.        *)
THEOREM ImplementsRecordStore == EngineSpec => RefinesRecordStore
<1>1. EngineInit => RecInv /\ Abstract!RInit
  BY EngineStarts
<1>2. RecInv /\ [EngineNext]_engineVars => RecInv' /\ [Abstract!RNext]_(Abstract!rvars)
  BY EngineStep
<1> QED
  BY <1>1, <1>2, PTL DEF EngineSpec, RefinesRecordStore, Abstract!RSpec
=============================================================================
