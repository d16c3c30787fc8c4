------------------------ MODULE PersistentQueue_proofs ------------------------
(***************************************************************************)
(* Proofs about module PersistentQueue: the indexes and the caches beside  *)
(* the job records, for any jobs, priorities, delays, leases, batch sizes, *)
(* failures and reopens.                                                   *)
(***************************************************************************)
EXTENDS PersistentQueue, Sequences, FiniteSetTheorems, WellFoundedInduction, TLAPS

-----------------------------------------------------------------------------
(* Least and greatest members *)

(* Every nonempty set of naturals has a least member. *)
LEMMA LeastNumber ==
    ASSUME NEW S \in SUBSET Nat, S # {}
    PROVE  \E m \in S : \A n \in S : m <= n
<1>1. PICK m \in S : \A n \in S : ~ (<<n, m>> \in OpToRel(<, Nat))
  <2>1. IsWellFoundedOn(OpToRel(<, Nat), Nat)
    BY NatLessThanWellFounded
  <2> QED
    BY <2>1, WFMin
<1>2. \A n \in S : ~(n < m)
  BY <1>1 DEF OpToRel
<1> QED
  BY <1>2

(* A finite set of naturals has a greatest member: its least upper bound.   *)
LEMMA GreatestNumber ==
    ASSUME NEW S \in SUBSET Nat, S # {}, IsFiniteSet(S)
    PROVE  \E m \in S : \A n \in S : n <= m
<1> DEFINE Sizes == {n \in Nat : \E T \in SUBSET S :
                        T # {} /\ Cardinality(T) = n /\ ~\E m \in T : \A o \in T : o <= m}
<1>1. SUFFICES ASSUME Sizes # {} PROVE FALSE
  BY FS_CardinalityType
<1>2. PICK n \in Sizes : \A o \in Sizes : n <= o
  BY <1>1, LeastNumber
<1>3. PICK T \in SUBSET S :
          T # {} /\ Cardinality(T) = n /\ ~\E m \in T : \A o \in T : o <= m
  OBVIOUS
<1>4. PICK x \in T : TRUE
  BY <1>3
<1> DEFINE U == T \ {x}
<1>5. IsFiniteSet(T) /\ IsFiniteSet(U) /\ Cardinality(U) = n - 1 /\ n - 1 \in Nat
  <2>1. IsFiniteSet(T)
    BY FS_Subset
  <2>2. IsFiniteSet(U) /\ Cardinality(U) = Cardinality(T) - 1
    BY <2>1, <1>4, FS_RemoveElement
  <2>3. Cardinality(U) \in Nat
    BY <2>2, FS_CardinalityType
  <2> QED
    BY <2>1, <2>2, <2>3, <1>3
<1>6. U # {}
  BY <1>3, <1>4
<1>7. \E m \in U : \A o \in U : o <= m
  <2>1. n - 1 \notin Sizes
    BY <1>2, <1>5
  <2> QED
    BY <2>1, <1>5, <1>6
<1>8. PICK m \in U : \A o \in U : o <= m
  BY <1>7
<1>9. x <= m \/ m <= x
  BY <1>4, <1>8
<1> QED
  BY <1>3, <1>4, <1>8, <1>9

(* Two disjoint finite sets together. *)
LEMMA DisjointUnion ==
    ASSUME NEW S, NEW T, IsFiniteSet(S), IsFiniteSet(T), S \cap T = {}
    PROVE  IsFiniteSet(S \cup T) /\ Cardinality(S \cup T) = Cardinality(S) + Cardinality(T)
<1>1. Cardinality(S) \in Nat /\ Cardinality(T) \in Nat /\ Cardinality({}) = 0
  BY FS_CardinalityType, FS_EmptySet
<1>2. Cardinality(S \cup T) = Cardinality(S) + Cardinality(T) - Cardinality(S \cap T)
  BY FS_Union
<1>3. IsFiniteSet(S \cup T)
  BY FS_Union
<1>4. Cardinality(S \cap T) = 0
  BY <1>1
<1> QED
  BY <1>1, <1>2, <1>3, <1>4

-----------------------------------------------------------------------------
(* Ready keys *)

(* The order of the keys is a strict total order. *)
LEMMA KeyOrder ==
    ASSUME NEW a \in Keys, NEW b \in Keys, NEW c \in Keys
    PROVE  /\ ~KeyLess(a, a)
           /\ KeyLess(a, b) \/ KeyLess(b, a) \/ a = b
           /\ KeyLess(a, b) => ~KeyLess(b, a)
           /\ KeyLess(a, b) /\ KeyLess(b, c) => KeyLess(a, c)
<1> DEFINE P(k, x, y, z) == k = <<x, y, z>> /\ k[1] = x /\ k[2] = y /\ k[3] = z
<1>1. PICK a1 \in Nat, a2 \in Nat, a3 \in Nat : P(a, a1, a2, a3)
  BY DEF Keys
<1>2. PICK b1 \in Nat, b2 \in Nat, b3 \in Nat : P(b, b1, b2, b3)
  BY DEF Keys
<1>3. PICK c1 \in Nat, c2 \in Nat, c3 \in Nat : P(c, c1, c2, c3)
  BY DEF Keys
<1> QED
  BY <1>1, <1>2, <1>3 DEF KeyLess

(* No key is one of the two other values of the cursor. *)
LEMMA KeysAreNoMarks ==
    /\ Unset # End
    /\ \A k \in Keys : k # Unset /\ k # End
<1>1. Len(Unset) = 1 /\ Len(End) = 1
  BY DEF Unset, End
<1>2. \A k \in Keys : Len(k) = 3
  BY DEF Keys
<1> QED
  BY <1>1, <1>2 DEF Unset, End

(* Every nonempty set of keys has a least one. *)
LEMMA LeastKey ==
    ASSUME NEW S \in SUBSET Keys, S # {}
    PROVE  \E k \in S : \A o \in S \ {k} : KeyLess(k, o)
<1>0. \A k \in S : k[1] \in Nat /\ k[2] \in Nat /\ k[3] \in Nat
  BY DEF Keys
<1>1. PICK x \in {k[1] : k \in S} : \A y \in {k[1] : k \in S} : x <= y
  BY <1>0, LeastNumber
<1> DEFINE S1 == {k \in S : k[1] = x}
<1>2. S1 # {}
  BY <1>1
<1>3. PICK y \in {k[2] : k \in S1} : \A z \in {k[2] : k \in S1} : y <= z
  <2> DEFINE N == {k[2] : k \in S1}
  <2>1. N \in SUBSET Nat /\ N # {}
    BY <1>0, <1>2
  <2> HIDE DEF N
  <2>2. \E y \in N : \A z \in N : y <= z
    BY <2>1, LeastNumber
  <2> QED
    BY <2>2 DEF N
<1> DEFINE S2 == {k \in S1 : k[2] = y}
<1>4. S2 # {}
  BY <1>3
<1>5. PICK z \in {k[3] : k \in S2} : \A w \in {k[3] : k \in S2} : z <= w
  <2> DEFINE N == {k[3] : k \in S2}
  <2>1. N \in SUBSET Nat /\ N # {}
    BY <1>0, <1>4
  <2> HIDE DEF N
  <2>2. \E z \in N : \A w \in N : z <= w
    BY <2>1, LeastNumber
  <2> QED
    BY <2>2 DEF N
<1>6. PICK k \in S2 : k[3] = z
  BY <1>5
<1>7. ASSUME NEW o \in S, o # k PROVE KeyLess(k, o)
  <2>1. k[1] <= o[1] /\ (o[1] = k[1] => k[2] <= o[2])
        /\ (o[1] = k[1] /\ o[2] = k[2] => k[3] <= o[3])
    BY <1>0, <1>1, <1>3, <1>5, <1>6
  <2>2. ~KeyLess(o, k)
    BY <2>1, <1>0 DEF KeyLess
  <2> QED
    BY <2>2, <1>6, <1>7, KeyOrder
<1> QED
  BY <1>6, <1>7

(* A finite set of keys has a greatest one. *)
LEMMA GreatestKey ==
    ASSUME NEW S \in SUBSET Keys, S # {}, IsFiniteSet(S)
    PROVE  \E k \in S : \A o \in S \ {k} : KeyLess(o, k)
<1> DEFINE Top(T) == \E m \in T : \A o \in T \ {m} : KeyLess(o, m)
           Sizes == {n \in Nat : \E T \in SUBSET S : T # {} /\ Cardinality(T) = n /\ ~Top(T)}
<1>1. SUFFICES ASSUME Sizes # {} PROVE FALSE
  BY FS_CardinalityType
<1>2. PICK n \in Sizes : \A o \in Sizes : n <= o
  BY <1>1, LeastNumber
<1>3. PICK T \in SUBSET S : T # {} /\ Cardinality(T) = n /\ ~Top(T)
  OBVIOUS
<1>4. PICK x \in T : TRUE
  BY <1>3
<1> DEFINE U == T \ {x}
<1>5. IsFiniteSet(U) /\ Cardinality(U) = n - 1 /\ n - 1 \in Nat
  <2>1. IsFiniteSet(T)
    BY FS_Subset
  <2>2. IsFiniteSet(U) /\ Cardinality(U) = Cardinality(T) - 1
    BY <2>1, <1>4, FS_RemoveElement
  <2>3. Cardinality(U) \in Nat
    BY <2>2, FS_CardinalityType
  <2> QED
    BY <2>2, <2>3, <1>3
<1>6. U # {}
  BY <1>3, <1>4
<1>7. Top(U)
  <2>1. n - 1 \notin Sizes
    BY <1>2, <1>5
  <2>2. U \in SUBSET S
    OBVIOUS
  <2> HIDE DEF Top
  <2> QED
    BY <2>1, <2>2, <1>5, <1>6
<1>8. PICK m \in U : \A o \in U \ {m} : KeyLess(o, m)
  BY <1>7
<1>9. KeyLess(x, m) \/ KeyLess(m, x)
  BY <1>4, <1>8, KeyOrder
<1>10. CASE KeyLess(x, m)
  BY <1>3, <1>4, <1>8, <1>10
<1>11. CASE KeyLess(m, x)
  <2>1. \A o \in U \ {m} : KeyLess(o, x)
    <3> SUFFICES ASSUME NEW o \in U \ {m} PROVE KeyLess(o, x)
      OBVIOUS
    <3>1. o \in Keys /\ m \in Keys /\ x \in Keys /\ KeyLess(o, m)
      BY <1>4, <1>8
    <3> QED
      BY <3>1, <1>11, KeyOrder
  <2> QED
    BY <2>1, <1>3, <1>4, <1>8, <1>11
<1> QED
  BY <1>9, <1>10, <1>11

(* What First returns. *)
LEMMA FirstIsLeast ==
    ASSUME NEW S \in SUBSET Keys
    PROVE  /\ S = {} <=> First(S) = End
           /\ S # {} => First(S) \in S /\ \A o \in S \ {First(S)} : KeyLess(First(S), o)
<1>1. CASE S = {}
  BY <1>1 DEF First
<1>2. CASE S # {}
  <2>1. First(S) \in S /\ \A o \in S \ {First(S)} : KeyLess(First(S), o)
    BY <1>2, LeastKey DEF First
  <2> QED
    BY <2>1, <1>2, KeysAreNoMarks
<1> QED
  BY <1>1, <1>2

(* A member of the set that no other member is below is First. *)
LEMMA FirstUnique ==
    ASSUME NEW S \in SUBSET Keys, NEW k \in S, \A o \in S \ {k} : KeyLess(k, o)
    PROVE  First(S) = k
<1>1. First(S) \in S /\ \A o \in S \ {First(S)} : KeyLess(First(S), o)
  BY FirstIsLeast
<1>2. ASSUME First(S) # k PROVE FALSE
  <2>1. KeyLess(k, First(S)) /\ KeyLess(First(S), k)
    BY <1>1, <1>2
  <2> QED
    BY <2>1, <1>1, KeyOrder
<1> QED
  BY <1>2

(* What Last returns. *)
LEMMA LastIsGreatest ==
    ASSUME NEW S \in SUBSET Keys, S # {}, IsFiniteSet(S)
    PROVE  Last(S) \in S /\ \A o \in S \ {Last(S)} : KeyLess(o, Last(S))
BY GreatestKey DEF Last

-----------------------------------------------------------------------------
(* The invariant that holds for every constant *)

Entries(t) == {l \in leases : l[1] = t}

(* The counters per expiry cover the entries of the lease index; they may   *)
(* be too large when a batch claims a job twice.                            *)
CountsCover == \A t \in Times : leaseExpirations[t] >= Cardinality(Entries(t))

LeasesEnd == \A id \in Ids : jobs[id].status = "leased" => jobs[id].expires \in Times

CursorNamesJob == cursor \in Keys => IdOf(cursor) \in Ids

IndexInv ==
    /\ TypeOK /\ IsFiniteSet(ready)
    /\ LeasesEnd /\ CursorNamesJob
    /\ IndexesComplete /\ CountsCover

(* Every lease a claim can give ends within Times. *)
LEMMA TimesCover ==
    /\ Times \subseteq Nat /\ IsFiniteSet(Times) /\ 0 \in Times
    /\ \A n \in 0..MaxNow, l \in LeaseTimes : n + l \in Times
<1> DEFINE longest == CHOOSE l \in LeaseTimes : \A o \in LeaseTimes : o <= l
           most == IF LeaseTimes = {} THEN 0 ELSE longest
<1>1. ASSUME LeaseTimes # {}
      PROVE  longest \in LeaseTimes /\ \A o \in LeaseTimes : o <= longest
  <2>1. \E l \in LeaseTimes : \A o \in LeaseTimes : o <= l
    BY <1>1, QueueConstants, GreatestNumber
  <2> QED
    BY <2>1
<1>2. Times = 0..(MaxNow + most)
  BY DEF Times
<1> HIDE DEF longest
<1>3. most \in Nat /\ \A l \in LeaseTimes : l <= most
  BY <1>1, QueueConstants
<1> HIDE DEF most
<1>4. MaxNow + most \in Nat
  BY <1>3, QueueConstants
<1>5. IsFiniteSet(Times)
  BY <1>2, <1>4, FS_Interval
<1>6. \A n \in 0..MaxNow, l \in LeaseTimes : n + l \in Times
  BY <1>2, <1>3, QueueConstants
<1> QED
  BY <1>2, <1>4, <1>5, <1>6

(* The lease index is finite. *)
LEMMA LeasesFinite ==
    ASSUME leases \subseteq Times \X Ids
    PROVE  /\ IsFiniteSet(leases) /\ Cardinality(leases) \in Nat
           /\ \A S \in SUBSET leases : IsFiniteSet(S) /\ Cardinality(S) \in Nat
<1>1. IsFiniteSet(Times \X Ids)
  BY TimesCover, IdsAssumption, FS_Product
<1>2. IsFiniteSet(leases)
  BY <1>1, FS_Subset
<1> QED
  BY <1>2, FS_Subset, FS_CardinalityType

(* The counters never hide an expired lease. *)
LEMMA CoverShowsExpired ==
    ASSUME TypeOK, CountsCover
    PROVE  NoExpiredLeaseMissed
<1> SUFFICES ASSUME NEW l \in leases, l[1] <= now PROVE HasExpiredLeases
  BY DEF NoExpiredLeaseMissed
<1>1. l[1] \in Times /\ l \in Entries(l[1])
  BY DEF TypeOK, Entries
<1>2. Cardinality(Entries(l[1])) # 0 /\ Cardinality(Entries(l[1])) \in Nat
  <2>1. IsFiniteSet(Entries(l[1])) /\ Cardinality(Entries(l[1])) \in Nat
    BY LeasesFinite DEF TypeOK, Entries
  <2> QED
    BY <1>1, <2>1, FS_EmptySet
<1>3. leaseExpirations[l[1]] > 0
  BY <1>1, <1>2 DEF TypeOK, CountsCover
<1> QED
  BY <1>1, <1>3 DEF HasExpiredLeases

(* What a scan finds, without its detour through the counters. *)
Due == {l \in leases : l[1] <= now}
Expired == {id \in Ids : LeaseExpired(jobs[id], now)}
ExpiredKeys == {ReadyKey(id, jobs[id]) : id \in Expired}
Js == [id \in Ids |-> IF id \in Expired THEN Released(jobs[id]) ELSE jobs[id]]
Index == ready \cup ExpiredKeys
Start == IF Lowered(ExpiredKeys) = Unset THEN First(Index) ELSE Lowered(ExpiredKeys)
Reached == Reach(Start, Index)
Free == {k \in Reached : Available(Js[IdOf(k)], now)}
Target == First(Free)
Passed == {k \in Reached : Target = End \/ KeyLess(k, Target)}
Stale == {k \in Passed : Js[IdOf(k)].status # "ready"}
Delayed == First(Passed \ Stale)

(* The scan of expired leases finds exactly the leased jobs that have       *)
(* expired.                                                                 *)
LEMMA DueIs ==
    ASSUME IndexInv
    PROVE  /\ DueLeases = Due
           /\ Expired = {id \in Ids : (\E l \in Due : l[2] = id) /\ LeaseExpired(jobs[id], now)}
<1>1. DueLeases = Due
  BY CoverShowsExpired DEF IndexInv, DueLeases, Due, NoExpiredLeaseMissed
<1>2. ASSUME NEW id \in Ids, LeaseExpired(jobs[id], now)
      PROVE  \E l \in Due : l[2] = id
  <2>1. LeaseOf(id) \in leases /\ jobs[id].expires <= now
    BY <1>2 DEF IndexInv, IndexesComplete, LeaseExpired
  <2> QED
    BY <2>1 DEF Due, LeaseOf
<1> QED
  BY <1>1, <1>2 DEF Expired

(* The jobs once the leases that ran out are released. *)
LEMMA JsFacts ==
    ASSUME IndexInv
    PROVE  /\ Js \in [Ids -> Job]
           /\ \A id \in Ids :
                /\ ReadyKey(id, Js[id]) = ReadyKey(id, jobs[id])
                /\ Refreshed(Js[id]) = Js[id]
                /\ Js[id].status = "ready" => ReadyKey(id, Js[id]) \in Index
                /\ Js[id].status = "leased" =>
                      Js[id] = jobs[id] /\ LeaseOf(id) \in leases \ Due /\ jobs[id].expires \in Times
<1> SUFFICES ASSUME NEW id \in Ids
             PROVE  /\ Js[id] \in Job
                    /\ ReadyKey(id, Js[id]) = ReadyKey(id, jobs[id])
                    /\ Refreshed(Js[id]) = Js[id]
                    /\ Js[id].status = "ready" => ReadyKey(id, Js[id]) \in Index
                    /\ Js[id].status = "leased" =>
                          Js[id] = jobs[id] /\ LeaseOf(id) \in leases \ Due /\ jobs[id].expires \in Times
  BY DEF Js
<1>1. jobs[id] \in Job
  BY DEF IndexInv, TypeOK
<1>2. CASE id \in Expired
  <2>1. Js[id] = Released(jobs[id])
    BY <1>2 DEF Js
  <2>2. Js[id] \in Job /\ Js[id].status = "ready" /\ ReadyKey(id, Js[id]) = ReadyKey(id, jobs[id])
    BY <1>1, <2>1 DEF Job, Released, Status, ReadyKey
  <2>3. ReadyKey(id, jobs[id]) \in Index
    BY <1>2 DEF Index, ExpiredKeys
  <2> QED
    BY <2>2, <2>3 DEF Refreshed, LeaseExpired
<1>3. CASE id \notin Expired
  <2>1. Js[id] = jobs[id] /\ ~LeaseExpired(jobs[id], now)
    BY <1>3 DEF Js, Expired
  <2>2. jobs[id].status = "ready" => ReadyKey(id, jobs[id]) \in Index
    BY DEF IndexInv, IndexesComplete, Index
  <2>3. ASSUME jobs[id].status = "leased"
        PROVE  LeaseOf(id) \in leases \ Due /\ jobs[id].expires \in Times
    <3>1. LeaseOf(id) \in leases /\ jobs[id].expires \in Times
      BY <2>3 DEF IndexInv, IndexesComplete, LeasesEnd
    <3>2. jobs[id].expires # None
      BY <3>1, TimesCover DEF None
    <3> QED
      BY <2>1, <2>3, <3>1, <3>2 DEF LeaseExpired, Due, LeaseOf
  <2> QED
    BY <1>1, <2>1, <2>2, <2>3 DEF Refreshed
<1> QED
  BY <1>2, <1>3

(* The keys a scan meets. *)
LEMMA IndexFacts ==
    ASSUME IndexInv
    PROVE  /\ ExpiredKeys \subseteq Keys /\ IsFiniteSet(ExpiredKeys)
           /\ Index \subseteq Keys /\ IsFiniteSet(Index) /\ \A k \in Index : IdOf(k) \in Ids
<1>1. \A id \in Ids : ReadyKey(id, jobs[id]) \in Keys /\ IdOf(ReadyKey(id, jobs[id])) = id
  BY IdsAssumption DEF IndexInv, TypeOK, Job, ReadyKey, Keys, IdOf
<1>2. IsFiniteSet(Expired)
  BY IdsAssumption, FS_Subset DEF Expired
<1>3. IsFiniteSet(ExpiredKeys)
  <2> DEFINE f == [id \in Expired |-> ReadyKey(id, jobs[id])]
  <2>1. f \in Surjection(Expired, ExpiredKeys)
    BY DEF Surjection, ExpiredKeys
  <2> QED
    BY <1>2, <2>1, FS_Surjection
<1>4. IsFiniteSet(Index)
  BY <1>3, FS_Union DEF Index, IndexInv
<1>5. ExpiredKeys \subseteq Keys /\ \A k \in ExpiredKeys : IdOf(k) \in Ids
  BY <1>1 DEF ExpiredKeys, Expired
<1> QED
  BY <1>3, <1>4, <1>5 DEF Index, IndexInv, TypeOK

(* A lowered cursor is a key, a mark, or still unset. *)
LEMMA LoweredFacts ==
    ASSUME IndexInv, NEW keys \in SUBSET Keys, \A k \in keys : IdOf(k) \in Ids
    PROVE  /\ Lowered(keys) = Unset <=> cursor = Unset
           /\ Lowered(keys) \in Keys \cup {Unset, End}
           /\ Lowered(keys) \in Keys => IdOf(Lowered(keys)) \in Ids
<1>1. CASE cursor = Unset
  BY <1>1, KeysAreNoMarks DEF Lowered
<1>2. CASE cursor # Unset
  <2> DEFINE S == keys \cup IF cursor = End THEN {} ELSE {cursor}
  <2>1. S \subseteq Keys /\ \A k \in S : IdOf(k) \in Ids
    BY <1>2 DEF IndexInv, TypeOK, CursorNamesJob
  <2>2. Lowered(keys) = First(S)
    BY <1>2 DEF Lowered
  <2>3. First(S) = End \/ First(S) \in S
    BY <2>1, FirstIsLeast
  <2> QED
    BY <1>2, <2>1, <2>2, <2>3, KeysAreNoMarks
<1> QED
  BY <1>1, <1>2

(* Where the scan of a claim starts, what it passes and what it finds. *)
LEMMA ScanFacts ==
    ASSUME IndexInv
    PROVE  /\ Start \in Keys \cup {End} /\ (Start \in Keys => IdOf(Start) \in Ids)
           /\ Reached \subseteq Keys /\ \A k \in Reached : IdOf(k) \in Ids
           /\ Target = End \/ Target \in Free
           /\ \A k \in Free : Target \in Free /\ (k = Target \/ KeyLess(Target, k))
           /\ Stale \subseteq Passed /\ Passed \subseteq Reached
           /\ Delayed = End \/ Delayed \in Passed \ Stale
<1>1. Start \in Keys \cup {End} /\ (Start \in Keys => IdOf(Start) \in Ids)
  <2>1. First(Index) = End \/ First(Index) \in Index
    BY IndexFacts, FirstIsLeast
  <2>2. /\ Lowered(ExpiredKeys) \in Keys \cup {Unset, End}
        /\ Lowered(ExpiredKeys) \in Keys => IdOf(Lowered(ExpiredKeys)) \in Ids
    BY IndexFacts, LoweredFacts DEF Index
  <2> QED
    BY <2>1, <2>2, IndexFacts, KeysAreNoMarks DEF Start
<1>2. Reached \subseteq Keys /\ \A k \in Reached : IdOf(k) \in Ids
  BY <1>1, IndexFacts DEF Reached, Reach
<1>3. /\ Target = End \/ Target \in Free
      /\ \A k \in Free : Target \in Free /\ (k = Target \/ KeyLess(Target, k))
  <2>1. Free \subseteq Keys
    BY <1>2 DEF Free
  <2> QED
    BY <2>1, FirstIsLeast DEF Target
<1>4. Stale \subseteq Passed /\ Passed \subseteq Reached
  BY DEF Stale, Passed
<1>5. Delayed = End \/ Delayed \in Passed \ Stale
  BY <1>2, <1>4, FirstIsLeast DEF Delayed
<1> QED
  BY <1>1, <1>2, <1>3, <1>4, <1>5

(* The record Scan, part by part. *)
LEMMA ScanIs ==
    ASSUME IndexInv
    PROVE  Scan = [due |-> Due, jobs |-> Js, ready |-> Index, start |-> Start,
                   target |-> Target, stale |-> Stale, delayed |-> Delayed]
<1> DEFINE expired == {id \in Ids : (\E l \in DueLeases : l[2] = id) /\ LeaseExpired(jobs[id], now)}
<1>1. DueLeases = Due /\ expired = Expired
  BY DueIs
<1>2. \A k \in Reached : Refreshed(Js[IdOf(k)]) = Js[IdOf(k)]
  BY ScanFacts, JsFacts
<1>3. Free = {k \in Reached : Available(Refreshed(Js[IdOf(k)]), now)}
  BY <1>2 DEF Free
<1>4. Stale = {k \in Passed : Refreshed(Js[IdOf(k)]).status # "ready"}
  BY <1>2, ScanFacts DEF Stale
<1> QED
  BY <1>1, <1>3, <1>4 DEF Scan, ExpiredKeys, Js, Index, Start, Reached, Target, Passed, Delayed

-----------------------------------------------------------------------------
(* The bookkeeping of the lease counters *)

(* What the lease index holds per expiry after removals and new leases that *)
(* all end at t, against what the counters make of it.                      *)
LEMMA EntriesAfter ==
    ASSUME TypeOK, NEW removed \in SUBSET leases, NEW t \in Times, NEW n \in Nat,
           NEW new, IsFiniteSet(new), Cardinality(new) <= n, \A l \in new : l[1] = t,
           leases' = (leases \ removed) \cup new,
           leaseExpirations' = ExpirationsAfter(removed, t, n)
    PROVE  /\ leaseExpirations' \in [Times -> Nat]
           /\ CountsCover => CountsCover'
           /\ /\ new \cap (leases \ removed) = {} /\ Cardinality(new) = n
              /\ \A u \in Times : leaseExpirations[u] = Cardinality(Entries(u))
              => \A u \in Times : leaseExpirations'[u] = Cardinality(Entries(u)')
<1> SUFFICES ASSUME NEW u \in Times
             PROVE  /\ leaseExpirations'[u] \in Nat
                    /\ leaseExpirations[u] >= Cardinality(Entries(u))
                       => leaseExpirations'[u] >= Cardinality(Entries(u)')
                    /\ /\ new \cap (leases \ removed) = {} /\ Cardinality(new) = n
                       /\ leaseExpirations[u] = Cardinality(Entries(u))
                       => leaseExpirations'[u] = Cardinality(Entries(u)')
  BY DEF ExpirationsAfter, CountsCover
<1> DEFINE R == {l \in removed : l[1] = u}
           N == IF u = t THEN new ELSE {}
           E == Entries(u)
           le == leaseExpirations[u]
<1>1. leaseExpirations'[u] = SatSub(le, Cardinality(R)) + (IF u = t THEN n ELSE 0)
  BY DEF ExpirationsAfter
<1>2. Entries(u)' = (E \ R) \cup N
  BY DEF Entries
<1>3. IsFiniteSet(E) /\ IsFiniteSet(R) /\ Cardinality(E) \in Nat /\ Cardinality(R) \in Nat
  BY LeasesFinite DEF TypeOK, Entries
<1>4. IsFiniteSet(E \ R) /\ Cardinality(E \ R) = Cardinality(E) - Cardinality(R)
      /\ Cardinality(E \ R) \in Nat
  <2>1. E \cap R = R
    BY DEF Entries
  <2> QED
    BY <1>3, <2>1, FS_Difference, FS_CardinalityType
<1>5. IsFiniteSet(N) /\ Cardinality(N) \in Nat
      /\ Cardinality(N) = IF u = t THEN Cardinality(new) ELSE 0
  BY FS_EmptySet, FS_CardinalityType
<1>6. /\ Cardinality((E \ R) \cup N) = Cardinality(E \ R) + Cardinality(N) - Cardinality((E \ R) \cap N)
      /\ Cardinality((E \ R) \cap N) \in Nat
  BY <1>4, <1>5, FS_Union, FS_Intersection, FS_CardinalityType
<1>7. new \cap (leases \ removed) = {} => Cardinality((E \ R) \cap N) = 0
  <2>1. new \cap (leases \ removed) = {} => (E \ R) \cap N = {}
    BY DEF Entries
  <2> QED
    BY <2>1, FS_EmptySet
<1>8. le \in Nat
  BY DEF TypeOK
<1>9. Cardinality(new) \in Nat
  BY FS_CardinalityType
<1> HIDE DEF E, N, R, le
<1> QED
  BY <1>1, <1>2, <1>3, <1>4, <1>5, <1>6, <1>7, <1>8, <1>9 DEF SatSub, le, E

(* The same for the number of leases. *)
LEMMA LeaseCountIs ==
    ASSUME TypeOK, NEW removed \in SUBSET leases, NEW n \in Nat,
           NEW new, IsFiniteSet(new), leases' = (leases \ removed) \cup new,
           leaseCount' = LeaseCountAfter(removed, n)
    PROVE  /\ leaseCount' \in Nat
           /\ /\ new \cap (leases \ removed) = {} /\ Cardinality(new) = n
              /\ leaseCount = Cardinality(leases)
              => leaseCount' = Cardinality(leases')
<1>1. IsFiniteSet(leases) /\ IsFiniteSet(removed) /\ Cardinality(leases) \in Nat
      /\ Cardinality(removed) \in Nat
  BY LeasesFinite DEF TypeOK
<1>2. IsFiniteSet(leases \ removed) /\ Cardinality(leases \ removed) \in Nat
      /\ Cardinality(leases \ removed) = Cardinality(leases) - Cardinality(removed)
  <2>1. leases \cap removed = removed
    OBVIOUS
  <2> QED
    BY <1>1, <2>1, FS_Difference, FS_CardinalityType
<1>3. new \cap (leases \ removed) = {} =>
        Cardinality(leases') = Cardinality(leases \ removed) + Cardinality(new)
  <2>1. ASSUME new \cap (leases \ removed) = {}
        PROVE  Cardinality((leases \ removed) \cup new) = Cardinality(leases \ removed) + Cardinality(new)
    <3>1. (leases \ removed) \cap new = {}
      BY <2>1
    <3> QED
      BY <1>2, <3>1, DisjointUnion
  <2> QED
    BY <2>1
<1>4. leaseCount \in Nat /\ Cardinality(new) \in Nat
  BY FS_CardinalityType DEF TypeOK
<1> QED
  BY <1>1, <1>2, <1>3, <1>4 DEF LeaseCountAfter, SatSub

-----------------------------------------------------------------------------
(* IndexInv is inductive *)

LEMMA InitIndex == Init => IndexInv
<1> SUFFICES ASSUME Init PROVE IndexInv
  OBVIOUS
<1>1. NoJob \in Job /\ NoJob.status = "none"
  BY DEF NoJob, Job, Status, None
<1>2. TypeOK
  BY <1>1, QueueConstants, PersistentQueueConstants, TimesCover DEF Init, TypeOK
<1>3. LeasesEnd /\ IndexesComplete
  BY <1>1 DEF Init, LeasesEnd, IndexesComplete
<1>4. CountsCover
  <2>1. \A t \in Times : Entries(t) = {}
    BY DEF Init, Entries
  <2> QED
    BY <2>1, FS_EmptySet DEF Init, CountsCover
<1>5. CursorNamesJob
  BY KeysAreNoMarks DEF Init, CursorNamesJob
<1> QED
  BY <1>2, <1>3, <1>4, <1>5, FS_EmptySet DEF IndexInv, Init

(* The ready key of any job is a key that names it. *)
LEMMA ReadyKeyType ==
    ASSUME NEW id \in Ids, NEW j \in Job
    PROVE  ReadyKey(id, j) \in Keys /\ IdOf(ReadyKey(id, j)) = id
BY IdsAssumption DEF ReadyKey, Keys, IdOf, Job

(* A pushed job is a job with times that exist. *)
LEMMA NewJobType ==
    ASSUME NEW time \in Nat, NEW j \in NewJobs(time)
    PROVE  j \in Job /\ j.status = "ready"
BY QueueConstants DEF NewJobs, NewJob, Job, Status, None

(* The keys of a set of jobs are finitely many. *)
LEMMA ReadyKeysFinite ==
    ASSUME NEW S \in SUBSET Ids, NEW js, \A id \in S : js[id] \in Job
    PROVE  /\ IsFiniteSet({ReadyKey(id, js[id]) : id \in S})
           /\ {ReadyKey(id, js[id]) : id \in S} \subseteq Keys
           /\ \A k \in {ReadyKey(id, js[id]) : id \in S} : IdOf(k) \in Ids
<1>1. IsFiniteSet(S)
  BY IdsAssumption, FS_Subset
<1> DEFINE K == {ReadyKey(id, js[id]) : id \in S}
           f == [id \in S |-> ReadyKey(id, js[id])]
<1>2. f \in Surjection(S, K)
  BY DEF Surjection
<1>3. IsFiniteSet(K)
  BY <1>1, <1>2, FS_Surjection
<1> QED
  BY <1>3, ReadyKeyType

(* A push keeps both indexes complete. *)
LEMMA PushStep ==
    ASSUME IndexInv, NEW S \in SUBSET Ids, NEW new \in [S -> NewJobs(now)], Push(new)
    PROVE  IndexInv'
<1> DEFINE keys == {ReadyKey(id, new[id]) : id \in S}
<1>1. now \in Nat /\ \A id \in S : new[id] \in Job /\ new[id].status = "ready"
  BY NewJobType, QueueConstants DEF IndexInv, TypeOK
<1>2. IsFiniteSet(keys) /\ keys \subseteq Keys /\ \A k \in keys : IdOf(k) \in Ids
  BY <1>1, ReadyKeysFinite
<1>3. /\ jobs' = [id \in Ids |-> IF id \in S THEN new[id] ELSE jobs[id]]
      /\ ready' = ready \cup keys /\ cursor' = Lowered(keys)
      /\ UNCHANGED <<leases, leaseCount, leaseExpirations, now, held, failures>>
      /\ reply' = {} /\ repushed' \in 0..MaxRepush
  BY PersistentQueueConstants DEF Push, IndexInv, TypeOK
<1> HIDE DEF keys
<1>4. /\ cursor' \in Keys \cup {Unset, End} /\ (cursor' \in Keys => IdOf(cursor') \in Ids)
  BY <1>2, <1>3, LoweredFacts
<1>5. TypeOK'
  BY <1>1, <1>2, <1>3, <1>4 DEF IndexInv, TypeOK
<1>6. IsFiniteSet(ready')
  BY <1>2, <1>3, FS_Union DEF IndexInv
<1>7. LeasesEnd'
  BY <1>1, <1>3 DEF IndexInv, LeasesEnd
<1>8. IndexesComplete'
  <2> SUFFICES ASSUME NEW id \in Ids
               PROVE  /\ jobs'[id].status = "ready" => ReadyKey(id, jobs'[id]) \in ready'
                      /\ jobs'[id].status = "leased" => <<jobs'[id].expires, id>> \in leases'
    BY DEF IndexesComplete, LeaseOf
  <2>1. CASE id \in S
    BY <1>1, <1>3, <2>1 DEF keys
  <2>2. CASE id \notin S
    BY <1>3, <2>2 DEF IndexInv, IndexesComplete, LeaseOf
  <2> QED
    BY <2>1, <2>2
<1>9. CountsCover'
  BY <1>3 DEF IndexInv, CountsCover, Entries
<1> QED
  BY <1>4, <1>5, <1>6, <1>7, <1>8, <1>9 DEF IndexInv, CursorNamesJob

(* The entry behind one that was taken. *)
LEMMA AfterType ==
    ASSUME NEW S \in SUBSET Keys, \A k \in S : IdOf(k) \in Ids, NEW k \in Keys
    PROVE  /\ After(k, S) = End \/ (After(k, S) \in S /\ KeyLess(k, After(k, S)))
           /\ After(k, S) \in Keys \cup {End}
           /\ After(k, S) \in Keys => IdOf(After(k, S)) \in Ids
<1> DEFINE B == {o \in S : KeyLess(k, o)}
<1>1. B \subseteq Keys /\ B \subseteq S
  OBVIOUS
<1>2. First(B) = End \/ First(B) \in B
  BY <1>1, FirstIsLeast
<1> QED
  BY <1>1, <1>2, KeysAreNoMarks DEF After

(* Where the next claim starts, in the names of this module. *)
Following == IF Target = End THEN Delayed ELSE Or(Delayed, After(Target, Index))

(* The cursor a claim leaves behind is a key or the end. *)
LEMMA FollowingType ==
    ASSUME IndexInv
    PROVE  /\ NextCursor(Scan) = Following
           /\ Following \in Keys \cup {End} /\ (Following \in Keys => IdOf(Following) \in Ids)
<1>1. NextCursor(Scan) = Following
  BY ScanIs DEF NextCursor, Following
<1>2. Delayed \in Keys \cup {End} /\ (Delayed \in Keys => IdOf(Delayed) \in Ids)
  BY ScanFacts, KeysAreNoMarks
<1>3. Target # End => Target \in Keys
  BY ScanFacts DEF Free
<1>4. Target # End => /\ After(Target, Index) \in Keys \cup {End}
                      /\ After(Target, Index) \in Keys => IdOf(After(Target, Index)) \in Ids
  BY <1>3, IndexFacts, AfterType
<1> QED
  BY <1>1, <1>2, <1>4 DEF Following, Or

(* Released, claimed, answered: still jobs, with the key they had. *)
LEMMA JobSteps ==
    ASSUME NEW j \in Job, NEW time \in Nat, NEW d \in Nat, NEW ack \in BOOLEAN
    PROVE  /\ Released(j) \in Job /\ Released(j).status = "ready"
           /\ Claimed(j, time, d, ack) \in Job
           /\ Claimed(j, time, d, ack).status = IF ack THEN "completed" ELSE "leased"
           /\ Claimed(j, time, d, ack).expires = time + d
           /\ Acked(j) \in Job /\ Acked(j).status = "completed"
           /\ Nacked(j, time, d) \in Job /\ Nacked(j, time, d).status \in {"ready", "dead"}
           /\ \A id \in Ids : /\ ReadyKey(id, Released(j)) = ReadyKey(id, j)
                              /\ ReadyKey(id, Claimed(j, time, d, ack)) = ReadyKey(id, j)
                              /\ ReadyKey(id, Nacked(j, time, d)) = ReadyKey(id, j)
<1>1. Released(j) \in Job /\ Released(j).status = "ready"
  BY DEF Released, Job, Status, None
<1>2. /\ Claimed(j, time, d, ack) \in Job
      /\ Claimed(j, time, d, ack).status = IF ack THEN "completed" ELSE "leased"
      /\ Claimed(j, time, d, ack).expires = time + d
  <2> DEFINE s == IF ack THEN "completed" ELSE "leased"
  <2>1. s \in Status /\ j.attempts + 1 \in Nat /\ time + d \in Nat
    BY DEF Status, Job
  <2> HIDE DEF s
  <2>2. Claimed(j, time, d, ack) = [j EXCEPT !.status = s, !.attempts = j.attempts + 1,
                                              !.expires = time + d]
    BY DEF Claimed, Job, s
  <2>3. [j EXCEPT !.status = s, !.attempts = j.attempts + 1, !.expires = time + d] \in Job
    BY <2>1 DEF Job
  <2>4. /\ Claimed(j, time, d, ack).status = s
        /\ Claimed(j, time, d, ack).expires = time + d
    BY <2>2 DEF Job
  <2> QED
    BY <2>2, <2>3, <2>4 DEF s
<1>3. Acked(j) \in Job /\ Acked(j).status = "completed"
  BY DEF Acked, Job, Status
<1>4. Nacked(j, time, d) \in Job /\ Nacked(j, time, d).status \in {"ready", "dead"}
  <2>1. CASE j.attempts >= j.max
    BY <2>1 DEF Nacked, Job, Status, None
  <2>2. CASE ~(j.attempts >= j.max)
    <3>1. time + d \in Nat
      OBVIOUS
    <3>2. Nacked(j, time, d) = [j EXCEPT !.status = "ready", !.expires = None, !.available = time + d]
      BY <2>2 DEF Nacked
    <3> QED
      BY <3>1, <3>2 DEF Job, Status, None
  <2> QED
    BY <2>1, <2>2
<1>5. ASSUME NEW id \in Ids
      PROVE  /\ ReadyKey(id, Released(j)) = ReadyKey(id, j)
             /\ ReadyKey(id, Claimed(j, time, d, ack)) = ReadyKey(id, j)
             /\ ReadyKey(id, Nacked(j, time, d)) = ReadyKey(id, j)
  BY DEF Released, Claimed, Nacked, ReadyKey, Job
<1> QED
  BY <1>1, <1>2, <1>3, <1>4, <1>5

(* What a claim makes of the job it takes. *)
LEMMA ClaimedIs ==
    ASSUME NEW j \in Job, NEW time \in Nat, NEW d \in Nat, NEW ack \in BOOLEAN
    PROVE  /\ Claimed(j, time, d, ack) \in Job
           /\ Claimed(j, time, d, ack).status = IF ack THEN "completed" ELSE "leased"
           /\ Claimed(j, time, d, ack).expires = time + d
BY JobSteps

(* A claim that leases nothing: the leases that ran out are released.       *)
LEMMA ReleaseStep ==
    ASSUME IndexInv,
           jobs' = Js, leases' = leases \ Due,
           leaseCount' = LeaseCountAfter(Due, 0),
           leaseExpirations' = ExpirationsAfter(Due, 0, 0),
           ready' \subseteq Index,
           \A id \in Ids : Js[id].status = "ready" => ReadyKey(id, Js[id]) \in ready',
           cursor' \in Keys \cup {Unset, End}, cursor' \in Keys => IdOf(cursor') \in Ids,
           now' = now, reply' = {}, held' = held,
           failures' \in 0..MaxFailures, repushed' = repushed
    PROVE  IndexInv'
<1>1. Due \in SUBSET leases /\ leases' = (leases \ Due) \cup {} /\ 0 \in Times
  BY TimesCover DEF Due
<1>0. IsFiniteSet({}) /\ Cardinality({}) <= 0 /\ 0 \in Nat
  BY FS_EmptySet
<1>2. leaseCount' \in Nat
  BY <1>0, <1>1, LeaseCountIs DEF IndexInv
<1>3. leaseExpirations' \in [Times -> Nat] /\ CountsCover'
  <2>1. TypeOK /\ CountsCover
    BY DEF IndexInv
  <2>2. \A l \in {} : l[1] = 0
    OBVIOUS
  <2> QED
    BY <1>0, <1>1, <2>1, <2>2, EntriesAfter
<1>4. Js \in [Ids -> Job]
  BY JsFacts
<1>5. ready' \subseteq Keys /\ IsFiniteSet(ready') /\ \A k \in ready' : IdOf(k) \in Ids
  BY IndexFacts, FS_Subset
<1>6. TypeOK'
  BY <1>2, <1>3, <1>4, <1>5 DEF IndexInv, TypeOK
<1>7. LeasesEnd'
  BY JsFacts DEF LeasesEnd
<1>8. IndexesComplete'
  BY JsFacts DEF IndexesComplete, LeaseOf
<1> QED
  BY <1>3, <1>5, <1>6, <1>7, <1>8 DEF IndexInv, CursorNamesJob

(* Removing stale entries removes the key of no ready job. *)
LEMMA StaleIsNotReady ==
    ASSUME IndexInv, NEW S \in SUBSET Stale
    PROVE  \A id \in Ids : Js[id].status = "ready" => ReadyKey(id, Js[id]) \in Index \ S
<1> SUFFICES ASSUME NEW id \in Ids, Js[id].status = "ready"
             PROVE  ReadyKey(id, Js[id]) \in Index /\ ReadyKey(id, Js[id]) \notin Stale
  OBVIOUS
<1>1. IdOf(ReadyKey(id, Js[id])) = id
  BY JsFacts, ReadyKeyType
<1> QED
  BY <1>1, JsFacts DEF Stale

(* A claim that finds nothing keeps both indexes complete. *)
LEMMA ClaimNothingStep ==
    ASSUME IndexInv, ClaimNothing PROVE IndexInv'
<1>1. /\ jobs' = Js /\ ready' = Index \ Stale /\ leases' = leases \ Due
      /\ leaseCount' = LeaseCountAfter(Due, 0)
      /\ leaseExpirations' = ExpirationsAfter(Due, 0, 0)
      /\ cursor' = NextCursor(Scan) /\ reply' = {} /\ UNCHANGED <<now, held, bounded>>
  BY ScanIs DEF ClaimNothing
<1>2. cursor' \in Keys \cup {Unset, End} /\ (cursor' \in Keys => IdOf(cursor') \in Ids)
  BY <1>1, FollowingType
<1>3. \A id \in Ids : Js[id].status = "ready" => ReadyKey(id, Js[id]) \in ready'
  BY <1>1, StaleIsNotReady
<1>4. failures' \in 0..MaxFailures /\ repushed' = repushed
  BY <1>1 DEF bounded, IndexInv, TypeOK
<1> QED
  BY <1>1, <1>2, <1>3, <1>4, ReleaseStep

(* A claim that fails halfway keeps both indexes complete. *)
LEMMA ClaimFailsStep ==
    ASSUME IndexInv, ClaimFails PROVE IndexInv'
<1>1. PICK done \in SUBSET Stale :
          /\ ready' = Index \ done
          /\ cursor' = IF done = {} THEN Start ELSE After(Last(done), Index)
  BY ScanIs DEF ClaimFails
<1>2. /\ jobs' = Js /\ leases' = leases \ Due
      /\ leaseCount' = LeaseCountAfter(Due, 0)
      /\ leaseExpirations' = ExpirationsAfter(Due, 0, 0)
      /\ reply' = {} /\ UNCHANGED <<now, held, repushed>>
      /\ failures < MaxFailures /\ failures' = failures + 1
  BY ScanIs DEF ClaimFails
<1>3. cursor' \in Keys \cup {Unset, End} /\ (cursor' \in Keys => IdOf(cursor') \in Ids)
  <2>1. CASE done = {}
    BY <1>1, <2>1, ScanFacts
  <2>2. CASE done # {}
    <3>1. done \subseteq Keys /\ IsFiniteSet(done)
      <4>1. Reached \subseteq {Start} \cup Index /\ done \subseteq Reached
        BY ScanFacts DEF Reached, Reach
      <4>2. IsFiniteSet({Start} \cup Index)
        BY IndexFacts, FS_Singleton, FS_Union
      <4> QED
        BY <4>1, <4>2, FS_Subset, ScanFacts
    <3>2. Last(done) \in Keys
      BY <3>1, <2>2, LastIsGreatest
    <3> QED
      BY <1>1, <2>2, <3>2, AfterType, IndexFacts
  <2> QED
    BY <2>1, <2>2
<1>4. \A id \in Ids : Js[id].status = "ready" => ReadyKey(id, Js[id]) \in ready'
  BY <1>1, StaleIsNotReady
<1>5. failures' \in 0..MaxFailures
  BY <1>2, PersistentQueueConstants DEF IndexInv, TypeOK
<1> QED
  BY <1>1, <1>2, <1>3, <1>4, <1>5, ReleaseStep

(* The job a claim takes. *)
LEMMA TargetJob ==
    ASSUME IndexInv, Target # End
    PROVE  /\ Target \in Keys /\ IdOf(Target) \in Ids
           /\ Js[IdOf(Target)].status = "ready" /\ Available(Js[IdOf(Target)], now)
BY ScanFacts DEF Free, Available

(* A claim that takes a job keeps both indexes complete. *)
LEMMA ClaimOneStep ==
    ASSUME IndexInv, ClaimOne PROVE IndexInv'
<1> DEFINE id == IdOf(Target)
<1>1. PICK lease \in LeaseTimes, ack \in BOOLEAN :
        /\ jobs' = [Js EXCEPT ![id] = Claimed(Refreshed(@), now, lease, ack)]
        /\ leases' = (leases \ Due) \cup IF ack THEN {} ELSE {<<now + lease, id>>}
        /\ leaseCount' = LeaseCountAfter(Due, IF ack THEN 0 ELSE 1)
        /\ leaseExpirations' = ExpirationsAfter(Due, now + lease, IF ack THEN 0 ELSE 1)
        /\ held' = held \cup IF ack THEN {} ELSE {<<id, now + lease>>}
  BY ScanIs DEF ClaimOne
<1>2. /\ Target # End /\ ready' = Index \ (Stale \cup {Target})
      /\ cursor' = NextCursor(Scan) /\ reply' = {Target} /\ UNCHANGED <<now, bounded>>
  BY ScanIs DEF ClaimOne
<1>3. id \in Ids /\ Target \in Keys /\ Js[id].status = "ready" /\ Js[id] \in Job
  BY <1>2, TargetJob, JsFacts
<1> DEFINE t == now + lease
           n == IF ack THEN 0 ELSE 1
           new == IF ack THEN {} ELSE {<<t, id>>}
           job == Claimed(Js[id], now, lease, ack)
<1>4. now \in Nat /\ lease \in Nat /\ t \in Times /\ t \in Nat
  BY TimesCover, QueueConstants DEF IndexInv, TypeOK
<1>5. /\ job \in Job /\ job.status = (IF ack THEN "completed" ELSE "leased") /\ job.expires = t
  BY <1>3, <1>4, JobSteps
<1>6. jobs' = [o \in Ids |-> IF o = id THEN job ELSE Js[o]]
  BY <1>1, <1>3, JsFacts
<1> HIDE DEF job, id
<1>7. jobs' \in [Ids -> Job]
  BY <1>5, <1>6, JsFacts
<1>8. IsFiniteSet(new) /\ Cardinality(new) <= n /\ n \in Nat /\ \A l \in new : l[1] = t
  <2>1. IsFiniteSet({}) /\ Cardinality({}) = 0
    BY FS_EmptySet
  <2>2. IsFiniteSet({<<t, id>>}) /\ Cardinality({<<t, id>>}) = 1
    BY FS_Singleton
  <2> QED
    BY <2>1, <2>2
<1>9. Due \in SUBSET leases
  BY DEF Due
<1>10. leaseCount' \in Nat
  BY <1>1, <1>8, <1>9, LeaseCountIs DEF IndexInv
<1>11. leaseExpirations' \in [Times -> Nat] /\ CountsCover'
  BY <1>1, <1>4, <1>8, <1>9, EntriesAfter DEF IndexInv
<1>12. cursor' \in Keys \cup {Unset, End} /\ (cursor' \in Keys => IdOf(cursor') \in Ids)
  BY <1>2, FollowingType
<1>13. ready' \subseteq Keys /\ IsFiniteSet(ready') /\ \A k \in ready' : IdOf(k) \in Ids
  BY <1>2, IndexFacts, FS_Subset
<1>14. leases' \subseteq Times \X Ids /\ held' \subseteq Ids \X Times
  BY <1>1, <1>3, <1>4 DEF IndexInv, TypeOK
<1>15. TypeOK'
  BY <1>2, <1>3, <1>7, <1>10, <1>11, <1>12, <1>13, <1>14 DEF IndexInv, TypeOK, bounded
<1>16. LeasesEnd'
  BY <1>4, <1>5, <1>6, JsFacts DEF LeasesEnd
<1>17. IndexesComplete'
  <2> SUFFICES ASSUME NEW o \in Ids
               PROVE  /\ jobs'[o].status = "ready" => ReadyKey(o, jobs'[o]) \in ready'
                      /\ jobs'[o].status = "leased" => <<jobs'[o].expires, o>> \in leases'
    BY DEF IndexesComplete, LeaseOf
  <2>1. CASE o = id
    BY <1>1, <1>5, <1>6, <2>1
  <2>2. CASE o # id
    <3>1. jobs'[o] = Js[o]
      BY <1>6, <2>2
    <3>2. Js[o].status = "ready" => ReadyKey(o, Js[o]) \in Index \ Stale
      BY StaleIsNotReady
    <3>3. ReadyKey(o, Js[o]) # Target
      BY <2>2, JsFacts, ReadyKeyType DEF id
    <3>4. Js[o].status = "leased" => <<Js[o].expires, o>> \in leases \ Due
      BY JsFacts DEF LeaseOf
    <3> QED
      BY <1>1, <1>2, <3>1, <3>2, <3>3, <3>4
  <2> QED
    BY <2>1, <2>2
<1> QED
  BY <1>11, <1>12, <1>13, <1>15, <1>16, <1>17 DEF IndexInv, CursorNamesJob

-----------------------------------------------------------------------------
(* The pieces of a batch claim *)

BStart == IF cursor \in {Unset, End} THEN First(ready) ELSE cursor
BReached == Reach(BStart, ready)
BFree == {k \in BReached : Available(jobs[IdOf(k)], now)}
Taken(limit) == {k \in BFree : Cardinality({o \in BFree : KeyLess(o, k)}) < limit}
Full(limit) == Cardinality(Taken(limit)) = limit
BPassed(limit) == {k \in BReached \ Taken(limit) : Full(limit) => KeyLess(k, Last(Taken(limit)))}
BStale(limit) == {k \in BPassed(limit) : jobs[IdOf(k)].status # "ready"}
FromReady(limit) == {[key |-> k, lease |-> <<None, IdOf(k)>>] : k \in Taken(limit)}
FromLeases == {[key |-> ReadyKey(l[2], jobs[l[2]]), lease |-> l] :
                  l \in {d \in Due : LeaseExpired(jobs[d[2]], now)}}
Candidates(limit) == FromReady(limit) \cup FromLeases
Chosen(limit) ==
    {c \in Candidates(limit) :
        Cardinality({d \in Candidates(limit) : CandidateLess(d, c)}) < limit}
Requeued(limit) == {c \in Candidates(limit) \ Chosen(limit) : c.lease[1] # None}
BNext(limit) == Or(First(BPassed(limit) \ BStale(limit)),
                   IF Full(limit) THEN After(Last(Taken(limit)), ready) ELSE End)

(* The record BatchScan, part by part. *)
LEMMA BatchScanIs ==
    ASSUME IndexInv, NEW limit
    PROVE  BatchScan(limit) =
             [due |-> Due, stale |-> BStale(limit), chosen |-> Chosen(limit),
              requeued |-> Requeued(limit),
              cursor |-> First(KeysOf(Requeued(limit)) \cup ({BNext(limit)} \ {End}))]
BY DueIs DEF BatchScan, BStart, BReached, BFree, Taken, Full, BPassed, BStale, FromReady,
             FromLeases, Candidates, Chosen, Requeued, BNext

(* Its fields. *)
LEMMA BatchFields ==
    ASSUME IndexInv, NEW limit
    PROVE  /\ BatchScan(limit).due = Due /\ BatchScan(limit).stale = BStale(limit)
           /\ BatchScan(limit).chosen = Chosen(limit) /\ BatchScan(limit).requeued = Requeued(limit)
           /\ BatchScan(limit).cursor = First(KeysOf(Requeued(limit)) \cup ({BNext(limit)} \ {End}))
BY BatchScanIs

(* What the scan of a batch claim reaches and takes. *)
LEMMA BReachFacts ==
    ASSUME IndexInv, NEW limit \in Nat \ {0}
    PROVE  /\ BReached \subseteq Keys /\ IsFiniteSet(BReached) /\ \A k \in BReached : IdOf(k) \in Ids
           /\ Taken(limit) \subseteq BFree /\ BFree \subseteq BReached
           /\ IsFiniteSet(Taken(limit))
           /\ Full(limit) => Taken(limit) # {} /\ Last(Taken(limit)) \in Taken(limit)
<1>1. BStart \in Keys \cup {End} /\ (BStart \in Keys => IdOf(BStart) \in Ids)
  <2>1. First(ready) = End \/ First(ready) \in ready
    BY FirstIsLeast DEF IndexInv, TypeOK
  <2> QED
    BY <2>1, KeysAreNoMarks DEF BStart, IndexInv, TypeOK, CursorNamesJob
<1>2. BReached \subseteq Keys /\ BReached \subseteq {BStart} \cup ready
      /\ \A k \in BReached : IdOf(k) \in Ids
  BY <1>1 DEF BReached, Reach, IndexInv, TypeOK
<1>3. IsFiniteSet(BReached)
  <2>1. IsFiniteSet({BStart} \cup ready)
    BY FS_Singleton, FS_Union DEF IndexInv
  <2> QED
    BY <1>2, <2>1, FS_Subset
<1>4. Taken(limit) \subseteq BFree /\ BFree \subseteq BReached
  BY DEF Taken, BFree
<1>5. IsFiniteSet(Taken(limit))
  BY <1>3, <1>4, FS_Subset
<1>6. Full(limit) => Taken(limit) # {}
  BY FS_EmptySet DEF Full
<1>7. Taken(limit) # {} => Last(Taken(limit)) \in Taken(limit)
  BY <1>2, <1>4, <1>5, LastIsGreatest
<1> QED
  BY <1>2, <1>3, <1>4, <1>5, <1>6, <1>7

(* Every candidate is a free job or one whose lease ran out. *)
LEMMA CandidateFacts ==
    ASSUME IndexInv, NEW limit \in Nat \ {0}
    PROVE  /\ IsFiniteSet(Candidates(limit))
           /\ \A c \in Candidates(limit) :
                /\ c.key \in Keys /\ IdOf(c.key) \in Ids
                /\ \/ /\ c.lease[1] = None /\ c.key \in Taken(limit)
                      /\ Available(jobs[IdOf(c.key)], now)
                   \/ /\ c.lease[1] # None /\ c.key = ReadyKey(IdOf(c.key), jobs[IdOf(c.key)])
                      /\ c.lease \in Due /\ c.lease[2] = IdOf(c.key)
                      /\ LeaseExpired(jobs[IdOf(c.key)], now)
           /\ \A id \in Expired : \E c \in Candidates(limit) :
                 c.lease[1] # None /\ IdOf(c.key) = id
<1> DEFINE L == {d \in Due : LeaseExpired(jobs[d[2]], now)}
<1>1. \A l \in L : /\ l[2] \in Ids /\ l[1] \in Times /\ l[1] # None
                   /\ jobs[l[2]] \in Job
                   /\ ReadyKey(l[2], jobs[l[2]]) \in Keys
                   /\ IdOf(ReadyKey(l[2], jobs[l[2]])) = l[2]
  <2> SUFFICES ASSUME NEW l \in L
               PROVE  /\ l[2] \in Ids /\ l[1] \in Times /\ l[1] # None
                      /\ jobs[l[2]] \in Job
                      /\ ReadyKey(l[2], jobs[l[2]]) \in Keys
                      /\ IdOf(ReadyKey(l[2], jobs[l[2]])) = l[2]
    OBVIOUS
  <2>1. l[2] \in Ids /\ l[1] \in Times
    BY DEF Due, IndexInv, TypeOK
  <2>2. jobs[l[2]] \in Job /\ l[1] # None
    BY <2>1, TimesCover DEF IndexInv, TypeOK, None
  <2> QED
    BY <2>1, <2>2, ReadyKeyType
<1>2. IsFiniteSet(FromReady(limit))
  <2> DEFINE f == [k \in Taken(limit) |-> [key |-> k, lease |-> <<None, IdOf(k)>>]]
  <2>1. f \in Surjection(Taken(limit), FromReady(limit))
    BY DEF Surjection, FromReady
  <2> QED
    BY <2>1, BReachFacts, FS_Surjection
<1>3. IsFiniteSet(FromLeases)
  <2> DEFINE f == [l \in L |-> [key |-> ReadyKey(l[2], jobs[l[2]]), lease |-> l]]
  <2>1. f \in Surjection(L, FromLeases)
    BY DEF Surjection, FromLeases
  <2>2. IsFiniteSet(L)
    BY LeasesFinite DEF Due, IndexInv, TypeOK
  <2> QED
    BY <2>1, <2>2, FS_Surjection
<1>4. IsFiniteSet(Candidates(limit))
  BY <1>2, <1>3, FS_Union DEF Candidates
<1>5. ASSUME NEW c \in FromReady(limit)
      PROVE  /\ c.key \in Keys /\ IdOf(c.key) \in Ids /\ c.lease[1] = None
             /\ c.key \in Taken(limit) /\ Available(jobs[IdOf(c.key)], now)
  BY BReachFacts DEF FromReady, BFree
<1>6. ASSUME NEW c \in FromLeases
      PROVE  /\ c.key \in Keys /\ IdOf(c.key) \in Ids /\ c.lease[1] # None
             /\ c.key = ReadyKey(IdOf(c.key), jobs[IdOf(c.key)])
             /\ c.lease \in Due /\ c.lease[2] = IdOf(c.key)
             /\ LeaseExpired(jobs[IdOf(c.key)], now)
  <2>1. PICK l \in L : c = [key |-> ReadyKey(l[2], jobs[l[2]]), lease |-> l]
    BY DEF FromLeases
  <2>2. c.key = ReadyKey(l[2], jobs[l[2]]) /\ c.lease = l
    BY <2>1
  <2> QED
    BY <1>1, <2>2
<1>7. ASSUME NEW id \in Expired
      PROVE  \E c \in FromLeases : c.lease[1] # None /\ IdOf(c.key) = id
  <2>1. PICK l \in Due : l[2] = id
    BY DueIs
  <2>2. l \in L
    BY <2>1 DEF Expired
  <2> DEFINE c == [key |-> ReadyKey(l[2], jobs[l[2]]), lease |-> l]
  <2>3. c \in FromLeases
    BY <2>2 DEF FromLeases
  <2> QED
    BY <1>1, <2>1, <2>2, <2>3
<1> QED
  BY <1>4, <1>5, <1>6, <1>7 DEF Candidates

(* The cursor a batch claim leaves behind is a key or the end. *)
LEMMA BNextType ==
    ASSUME IndexInv, NEW limit \in Nat \ {0}
    PROVE  BNext(limit) \in Keys \cup {End} /\ (BNext(limit) \in Keys => IdOf(BNext(limit)) \in Ids)
<1> DEFINE P == BPassed(limit) \ BStale(limit)
           first == First(P)
           behind == IF Full(limit) THEN After(Last(Taken(limit)), ready) ELSE End
<1>1. first = End \/ first \in P
  BY BReachFacts, FirstIsLeast DEF BPassed
<1>2. first \in Keys \cup {End} /\ (first \in Keys => IdOf(first) \in Ids)
  BY <1>1, BReachFacts, KeysAreNoMarks DEF BPassed
<1>3. behind \in Keys \cup {End} /\ (behind \in Keys => IdOf(behind) \in Ids)
  BY BReachFacts, AfterType, KeysAreNoMarks DEF IndexInv, TypeOK
<1> HIDE DEF first, behind
<1>4. BNext(limit) = Or(first, behind)
  BY DEF BNext, first, behind
<1> QED
  BY <1>2, <1>3, <1>4 DEF Or

(* A batch claim keeps both indexes complete. *)
LEMMA ClaimBatchStep ==
    ASSUME IndexInv, NEW limit \in BatchLimits, ClaimBatch(limit) PROVE IndexInv'
<1> DEFINE C == Chosen(limit)
           R == Requeued(limit)
           ids == IdsOf(C)
<1>0. limit \in Nat \ {0}
  BY QueueConstants
<1> DEFINE s == BatchScan(limit)
<1>s. s.due = Due /\ s.stale = BStale(limit) /\ s.chosen = C /\ s.requeued = R
      /\ s.cursor = First(KeysOf(R) \cup ({BNext(limit)} \ {End}))
  BY BatchFields
<1> HIDE DEF s, C, R
<1>1. PICK lease \in LeaseTimes, ack \in BOOLEAN :
        /\ jobs' = [id \in Ids |-> IF id \in IdsOf(R) THEN Released(jobs[id])
                                   ELSE IF id \in ids THEN Claimed(jobs[id], now, lease, ack)
                                   ELSE jobs[id]]
        /\ leases' = (leases \ Due) \cup {<<now + lease, id>> : id \in IF ack THEN {} ELSE ids}
        /\ leaseCount' = LeaseCountAfter(Due, IF ack THEN 0 ELSE Cardinality(C))
        /\ leaseExpirations' = ExpirationsAfter(Due, now + lease, IF ack THEN 0 ELSE Cardinality(C))
        /\ held' = held \cup {<<id, now + lease>> : id \in IF ack THEN {} ELSE ids}
  BY <1>s DEF ClaimBatch, s
<1>2. /\ ready' = (ready \ (BStale(limit) \cup KeysOf(C))) \cup KeysOf(R)
      /\ cursor' = First(KeysOf(R) \cup ({BNext(limit)} \ {End}))
      /\ reply' = KeysOf(C) /\ UNCHANGED <<now, bounded>>
  BY <1>s DEF ClaimBatch, s
<1> USE DEF C, R
<1> DEFINE t == now + lease
           n == IF ack THEN 0 ELSE Cardinality(C)
           new == {<<t, id>> : id \in IF ack THEN {} ELSE ids}
<1>3. now \in Nat /\ lease \in Nat /\ t \in Times /\ t \in Nat
  BY TimesCover, QueueConstants DEF IndexInv, TypeOK
<1>4. C \subseteq Candidates(limit) /\ R \subseteq Candidates(limit) /\ IsFiniteSet(C) /\ IsFiniteSet(R)
  <2>1. C \subseteq Candidates(limit) /\ R \subseteq Candidates(limit)
    BY DEF Chosen, Requeued
  <2> QED
    BY <1>0, <2>1, CandidateFacts, FS_Subset
<1>5. /\ ids \subseteq Ids /\ KeysOf(C) \subseteq Keys /\ KeysOf(R) \subseteq Keys
      /\ \A k \in KeysOf(R) : IdOf(k) \in Ids
  BY <1>0, <1>4, CandidateFacts DEF IdsOf, KeysOf
<1>6. \A id \in Ids : /\ jobs[id] \in Job /\ Released(jobs[id]) \in Job /\ Released(jobs[id]).status = "ready"
                      /\ Claimed(jobs[id], now, lease, ack) \in Job
                      /\ Claimed(jobs[id], now, lease, ack).status = IF ack THEN "completed" ELSE "leased"
                      /\ Claimed(jobs[id], now, lease, ack).expires = t
                      /\ ReadyKey(id, Released(jobs[id])) = ReadyKey(id, jobs[id])
  BY <1>3, JobSteps DEF IndexInv, TypeOK
<1>7. /\ IsFiniteSet(new) /\ Cardinality(new) <= n /\ n \in Nat /\ \A l \in new : l[1] = t
  <2>1. CASE ack
    <3>1. new = {} /\ n = 0
      BY <2>1
    <3>2. IsFiniteSet({}) /\ Cardinality({}) = 0 /\ \A l \in {} : l[1] = t
      BY FS_EmptySet
    <3> HIDE DEF new, n, t
    <3> QED
      BY <3>1, <3>2
  <2>2. CASE ~ack
    <3> DEFINE f == [c \in C |-> <<t, IdOf(c.key)>>]
    <3>1. f \in Surjection(C, new)
      BY <2>2 DEF Surjection, IdsOf
    <3>2. IsFiniteSet(new) /\ Cardinality(new) <= Cardinality(C)
      BY <1>4, <3>1, FS_Surjection
    <3>3. Cardinality(C) \in Nat
      BY <1>4, FS_CardinalityType
    <3> QED
      BY <2>2, <3>2, <3>3
  <2> QED
    BY <2>1, <2>2
<1>8. Due \in SUBSET leases
  BY DEF Due
<1>9. leaseCount' \in Nat
  BY <1>1, <1>7, <1>8, LeaseCountIs DEF IndexInv
<1>10. leaseExpirations' \in [Times -> Nat] /\ CountsCover'
  BY <1>1, <1>3, <1>7, <1>8, EntriesAfter DEF IndexInv
<1>11. cursor' \in Keys \cup {Unset, End} /\ (cursor' \in Keys => IdOf(cursor') \in Ids)
  <2> DEFINE N == KeysOf(R) \cup ({BNext(limit)} \ {End})
  <2>1. N \subseteq Keys /\ \A k \in N : IdOf(k) \in Ids
    BY <1>0, <1>5, BNextType
  <2>2. First(N) = End \/ First(N) \in N
    BY <2>1, FirstIsLeast
  <2> QED
    BY <1>2, <2>1, <2>2, KeysAreNoMarks
<1>12. ready' \subseteq Keys /\ IsFiniteSet(ready') /\ \A k \in ready' : IdOf(k) \in Ids
  <2>1. IsFiniteSet(KeysOf(R))
    <3> DEFINE f == [c \in R |-> c.key]
    <3>1. f \in Surjection(R, KeysOf(R))
      BY DEF Surjection, KeysOf
    <3> QED
      BY <1>4, <3>1, FS_Surjection
  <2>2. IsFiniteSet(ready \ (BStale(limit) \cup KeysOf(C)))
    BY FS_Subset DEF IndexInv
  <2>3. IsFiniteSet(ready')
    BY <1>2, <2>1, <2>2, FS_Union
  <2> QED
    BY <1>2, <1>5, <2>3 DEF IndexInv, TypeOK
<1> HIDE DEF C, R, ids
<1>13. jobs' \in [Ids -> Job]
  BY <1>1, <1>6
<1>14. leases' \subseteq Times \X Ids /\ held' \subseteq Ids \X Times
  BY <1>1, <1>3, <1>5 DEF IndexInv, TypeOK
<1>15. TypeOK'
  BY <1>2, <1>5, <1>9, <1>10, <1>11, <1>12, <1>13, <1>14 DEF IndexInv, TypeOK, bounded
<1>16. LeasesEnd'
  <2> SUFFICES ASSUME NEW id \in Ids, jobs'[id].status = "leased" PROVE jobs'[id].expires \in Times
    BY DEF LeasesEnd
  <2>1. \/ jobs'[id] = Released(jobs[id]) \/ jobs'[id] = jobs[id]
        \/ jobs'[id] = Claimed(jobs[id], now, lease, ack)
    BY <1>1
  <2> QED
    BY <1>3, <1>6, <2>1 DEF LeasesEnd, IndexInv
<1>17. IndexesComplete'
  <2> SUFFICES ASSUME NEW id \in Ids
               PROVE  /\ jobs'[id].status = "ready" => ReadyKey(id, jobs'[id]) \in ready'
                      /\ jobs'[id].status = "leased" => <<jobs'[id].expires, id>> \in leases'
    BY DEF IndexesComplete, LeaseOf
  <2>1. CASE id \in IdsOf(R)
    <3>1. PICK c \in R : IdOf(c.key) = id
      BY <2>1 DEF IdsOf
    <3>2. c \in Candidates(limit) /\ c.lease[1] # None
      BY <1>4, <3>1 DEF R, Requeued
    <3>3. c.key = ReadyKey(id, jobs[id])
      BY <1>0, <3>1, <3>2, CandidateFacts
    <3>4. ReadyKey(id, jobs[id]) \in KeysOf(R)
      BY <3>1, <3>3 DEF KeysOf
    <3> QED
      BY <1>1, <1>2, <1>6, <2>1, <3>4
  <2>2. CASE id \notin IdsOf(R) /\ id \in ids
    <3>1. jobs'[id] = Claimed(jobs[id], now, lease, ack)
      BY <1>1, <2>2
    <3> QED
      BY <1>1, <1>6, <2>2, <3>1
  <2>3. CASE id \notin IdsOf(R) /\ id \notin ids
    <3>1. jobs'[id] = jobs[id]
      BY <1>1, <2>3
    <3>2. ASSUME jobs[id].status = "ready" PROVE ReadyKey(id, jobs[id]) \in ready'
      <4>1. ReadyKey(id, jobs[id]) \in ready
        BY <3>2 DEF IndexInv, IndexesComplete
      <4>2. IdOf(ReadyKey(id, jobs[id])) = id
        BY <1>6, ReadyKeyType
      <4>3. ReadyKey(id, jobs[id]) \notin BStale(limit)
        BY <3>2, <4>2 DEF BStale
      <4>4. ReadyKey(id, jobs[id]) \notin KeysOf(C)
        BY <2>3, <4>2 DEF KeysOf, IdsOf, ids
      <4> QED
        BY <1>2, <4>1, <4>3, <4>4
    <3>3. ASSUME jobs[id].status = "leased" PROVE <<jobs[id].expires, id>> \in leases'
      <4>1. <<jobs[id].expires, id>> \in leases /\ jobs[id].expires \in Times
        BY <3>3 DEF IndexInv, IndexesComplete, LeaseOf, LeasesEnd
      <4>2. id \notin Expired
        <5> SUFFICES ASSUME id \in Expired PROVE FALSE
          OBVIOUS
        <5>1. PICK c \in Candidates(limit) : c.lease[1] # None /\ IdOf(c.key) = id
          BY <1>0, CandidateFacts
        <5>2. c \in C \/ c \in R
          BY <5>1 DEF C, R, Requeued
        <5> QED
          BY <2>3, <5>1, <5>2 DEF IdsOf, ids
      <4>3. ~(jobs[id].expires <= now)
        BY <3>3, <4>1, <4>2, TimesCover DEF Expired, LeaseExpired, None
      <4> QED
        BY <1>1, <4>1, <4>3 DEF Due
    <3> QED
      BY <3>1, <3>2, <3>3
  <2> QED
    BY <2>1, <2>2, <2>3
<1> QED
  BY <1>10, <1>11, <1>12, <1>15, <1>16, <1>17 DEF IndexInv, CursorNamesJob

(* An ack, also a late one, keeps both indexes complete. *)
LEMMA AckStep ==
    ASSUME IndexInv, NEW S \in SUBSET held, AckJobs(S) PROVE IndexInv'
<1> DEFINE ids == {c[1] : c \in S}
           removed == {LeaseOf(id) : id \in ids}
<1>1. /\ \A id \in ids : jobs[id].status = "leased"
      /\ jobs' = [id \in Ids |-> IF id \in ids THEN Acked(jobs[id]) ELSE jobs[id]]
      /\ leases' = leases \ removed
      /\ leaseCount' = LeaseCountAfter(removed, 0)
      /\ leaseExpirations' = ExpirationsAfter(removed, 0, 0)
      /\ held' = held \ S /\ reply' = {} /\ UNCHANGED <<ready, cursor, now, bounded>>
  BY DEF AckJobs
<1>2. ids \subseteq Ids
  BY DEF IndexInv, TypeOK
<1> HIDE DEF ids
<1>3. removed \in SUBSET leases /\ leases' = (leases \ removed) \cup {} /\ 0 \in Times
  BY <1>1, <1>2, TimesCover DEF IndexInv, IndexesComplete
<1>4. IsFiniteSet({}) /\ Cardinality({}) <= 0 /\ 0 \in Nat /\ \A l \in {} : l[1] = 0
  BY FS_EmptySet
<1> HIDE DEF removed
<1>5. leaseCount' \in Nat
  BY <1>1, <1>3, <1>4, LeaseCountIs DEF IndexInv
<1>6. leaseExpirations' \in [Times -> Nat] /\ CountsCover'
  <2>1. TypeOK /\ CountsCover
    BY DEF IndexInv
  <2> QED
    BY <1>1, <1>3, <1>4, <2>1, EntriesAfter
<1>7. \A id \in Ids : jobs[id] \in Job /\ Acked(jobs[id]) \in Job /\ Acked(jobs[id]).status = "completed"
  BY JobSteps DEF IndexInv, TypeOK
<1>8. TypeOK'
  BY <1>1, <1>5, <1>6, <1>7 DEF IndexInv, TypeOK, bounded
<1>9. LeasesEnd'
  BY <1>1, <1>7 DEF IndexInv, LeasesEnd
<1>10. IndexesComplete'
  <2> SUFFICES ASSUME NEW id \in Ids
               PROVE  /\ jobs'[id].status = "ready" => ReadyKey(id, jobs'[id]) \in ready'
                      /\ jobs'[id].status = "leased" => <<jobs'[id].expires, id>> \in leases'
    BY DEF IndexesComplete, LeaseOf
  <2>1. CASE id \in ids
    BY <1>1, <1>7, <2>1
  <2>2. CASE id \notin ids
    BY <1>1, <2>2 DEF IndexInv, IndexesComplete, LeaseOf, removed
  <2> QED
    BY <2>1, <2>2
<1> QED
  BY <1>1, <1>6, <1>8, <1>9, <1>10 DEF IndexInv, CursorNamesJob

(* A nack, also a late one, keeps both indexes complete. *)
LEMMA NackStep ==
    ASSUME IndexInv, NEW c \in held, NEW delay \in Delays, NackJob(c, delay) PROVE IndexInv'
<1> DEFINE id == c[1]
           nacked == Nacked(jobs[id], now, delay)
           keys == IF nacked.status = "ready" THEN {ReadyKey(id, nacked)} ELSE {}
           removed == {LeaseOf(id)}
<1>1. /\ jobs[id].status = "leased" /\ jobs' = [jobs EXCEPT ![id] = nacked]
      /\ leases' = leases \ removed
      /\ leaseCount' = LeaseCountAfter(removed, 0)
      /\ leaseExpirations' = ExpirationsAfter(removed, 0, 0)
      /\ ready' = ready \cup keys
      /\ cursor' = IF keys = {} THEN cursor ELSE Lowered(keys)
      /\ held' = held \ {c} /\ reply' = {} /\ UNCHANGED <<now, bounded>>
  BY DEF NackJob
<1>2. id \in Ids /\ now \in Nat /\ delay \in Nat /\ jobs[id] \in Job
  BY QueueConstants DEF IndexInv, TypeOK
<1>3. nacked \in Job /\ nacked.status \in {"ready", "dead"}
  BY <1>2, JobSteps
<1> HIDE DEF nacked, id
<1>4. keys \subseteq Keys /\ IsFiniteSet(keys) /\ \A k \in keys : IdOf(k) \in Ids
  BY <1>2, <1>3, ReadyKeyType, FS_Singleton, FS_EmptySet
<1> HIDE DEF keys
<1>5. removed \in SUBSET leases /\ leases' = (leases \ removed) \cup {} /\ 0 \in Times
  BY <1>1, <1>2, TimesCover DEF IndexInv, IndexesComplete
<1>6. IsFiniteSet({}) /\ Cardinality({}) <= 0 /\ 0 \in Nat /\ \A l \in {} : l[1] = 0
  BY FS_EmptySet
<1> HIDE DEF removed
<1>7. leaseCount' \in Nat
  BY <1>1, <1>5, <1>6, LeaseCountIs DEF IndexInv
<1>8. leaseExpirations' \in [Times -> Nat] /\ CountsCover'
  <2>1. TypeOK /\ CountsCover
    BY DEF IndexInv
  <2> QED
    BY <1>1, <1>5, <1>6, <2>1, EntriesAfter
<1>9. cursor' \in Keys \cup {Unset, End} /\ (cursor' \in Keys => IdOf(cursor') \in Ids)
  BY <1>1, <1>4, LoweredFacts DEF IndexInv, TypeOK, CursorNamesJob
<1>10. ready' \subseteq Keys /\ IsFiniteSet(ready') /\ \A k \in ready' : IdOf(k) \in Ids
  BY <1>1, <1>4, FS_Union DEF IndexInv, TypeOK
<1>11. jobs' = [o \in Ids |-> IF o = id THEN nacked ELSE jobs[o]]
  BY <1>1, <1>2 DEF IndexInv, TypeOK
<1>12. TypeOK'
  BY <1>1, <1>3, <1>7, <1>8, <1>9, <1>10, <1>11 DEF IndexInv, TypeOK, bounded
<1>13. LeasesEnd'
  BY <1>3, <1>11 DEF IndexInv, LeasesEnd
<1>14. IndexesComplete'
  <2> SUFFICES ASSUME NEW o \in Ids
               PROVE  /\ jobs'[o].status = "ready" => ReadyKey(o, jobs'[o]) \in ready'
                      /\ jobs'[o].status = "leased" => <<jobs'[o].expires, o>> \in leases'
    BY DEF IndexesComplete, LeaseOf
  <2>1. CASE o = id
    BY <1>1, <1>3, <1>11, <2>1 DEF keys
  <2>2. CASE o # id
    BY <1>1, <1>11, <2>2 DEF IndexInv, IndexesComplete, LeaseOf, removed
  <2> QED
    BY <2>1, <2>2
<1> QED
  BY <1>8, <1>9, <1>10, <1>12, <1>13, <1>14 DEF IndexInv, CursorNamesJob

(* Rebuilding the lease index from the records keeps every lease. *)
LEMMA ReopenStep ==
    ASSUME IndexInv, Reopen PROVE IndexInv'
<1>1. /\ leases' = LeaseIndexOf(jobs) /\ leaseCount' = Cardinality(leases')
      /\ leaseExpirations' = [t \in Times |-> Cardinality(Entries(t)')]
      /\ cursor' = Unset /\ reply' = {} /\ UNCHANGED <<jobs, ready, now, held, bounded>>
  BY DEF Reopen, Entries
<1>2. leases' \subseteq Times \X Ids
  BY <1>1 DEF LeaseIndexOf, IndexInv, LeasesEnd
<1>3. leaseCount' \in Nat /\ \A t \in Times : Cardinality(Entries(t)') \in Nat
  <2>1. IsFiniteSet(leases')
    <3>1. IsFiniteSet(Times \X Ids)
      BY TimesCover, IdsAssumption, FS_Product
    <3> QED
      BY <1>2, <3>1, FS_Subset
  <2>2. ASSUME NEW t \in Times PROVE Cardinality(Entries(t)') \in Nat
    <3>1. Entries(t)' \subseteq leases'
      BY DEF Entries
    <3> QED
      BY <2>1, <3>1, FS_Subset, FS_CardinalityType
  <2> QED
    BY <1>1, <2>1, <2>2, FS_CardinalityType
<1>4. TypeOK'
  BY <1>1, <1>2, <1>3 DEF IndexInv, TypeOK, bounded
<1>5. IndexesComplete'
  BY <1>1 DEF IndexInv, IndexesComplete, LeaseIndexOf, LeaseOf
<1>6. LeasesEnd' /\ IsFiniteSet(ready')
  BY <1>1 DEF IndexInv, LeasesEnd
<1>7. CursorNamesJob'
  BY <1>1, KeysAreNoMarks DEF CursorNamesJob
<1>8. CountsCover'
  BY <1>1, <1>3 DEF CountsCover
<1> QED
  BY <1>4, <1>5, <1>6, <1>7, <1>8 DEF IndexInv

(* Steps that leave records, indexes and caches alone. *)
LEMMA QuietStep ==
    ASSUME IndexInv, UNCHANGED <<store, caches, bounded>>, reply' \subseteq Keys,
           now' \in 0..MaxNow, held' \subseteq held
    PROVE  IndexInv'
<1>1. TypeOK'
  BY DEF IndexInv, TypeOK, store, caches, bounded
<1> QED
  BY <1>1 DEF IndexInv, store, caches, LeasesEnd, CursorNamesJob, IndexesComplete, LeaseOf,
              CountsCover, Entries

(* Inductive step: every action keeps both indexes complete. *)
LEMMA NextIndex == IndexInv /\ [Next]_vars => IndexInv'
<1> SUFFICES ASSUME IndexInv, [Next]_vars PROVE IndexInv'
  OBVIOUS
<1>1. CASE ClaimAny
  BY <1>1, ClaimNothingStep, ClaimOneStep DEF ClaimAny
<1>2. ASSUME NEW S \in SUBSET Ids, NEW new \in [S -> NewJobs(now)], Push(new) PROVE IndexInv'
  BY <1>2, PushStep
<1>3. CASE ClaimFails
  BY <1>3, ClaimFailsStep
<1>4. ASSUME NEW n \in BatchLimits, ClaimBatch(n) PROVE IndexInv'
  BY <1>4, ClaimBatchStep
<1>5. ASSUME NEW S \in SUBSET held, AckJobs(S) PROVE IndexInv'
  BY <1>5, AckStep
<1>6. ASSUME NEW c \in held, CallIgnored(c) PROVE IndexInv'
  <2>1. now \in 0..MaxNow
    BY DEF IndexInv, TypeOK
  <2> QED
    BY <1>6, <2>1, QuietStep DEF CallIgnored
<1>7. ASSUME NEW c \in held, NEW d \in Delays, NackJob(c, d) PROVE IndexInv'
  BY <1>7, NackStep
<1>8. CASE Tick
  <2>1. now' \in 0..MaxNow
    BY <1>8, QueueConstants DEF IndexInv, TypeOK, Tick
  <2> QED
    BY <1>8, <2>1, QuietStep DEF Tick
<1>9. CASE Reopen
  BY <1>9, ReopenStep
<1>10. CASE UNCHANGED vars
  <2>1. now \in 0..MaxNow /\ reply \subseteq Keys
    BY DEF IndexInv, TypeOK
  <2> QED
    BY <1>10, <2>1, QuietStep DEF vars
<1> QED
  BY <1>1, <1>2, <1>3, <1>4, <1>5, <1>6, <1>7, <1>8, <1>9, <1>10 DEF Next, OtherNext

(* IndexInv holds in every reachable state, for every value of the          *)
(* constants.                                                               *)
LEMMA IndexInvariant == Spec => []IndexInv
<1>1. Init => IndexInv
  BY InitIndex
<1>2. IndexInv /\ [Next]_vars => IndexInv'
  BY NextIndex
<1> QED
  BY <1>1, <1>2, PTL DEF Spec

(* Every variable keeps its type. *)
THEOREM TypeCorrect == Spec => []TypeOK
<1>1. IndexInv => TypeOK
  BY DEF IndexInv
<1> QED
  BY <1>1, IndexInvariant, PTL

(* No claimable job drops out of the indexes: for any jobs, batch limits,   *)
(* repeated pushes, late answers, failed claims and reopens, a ready job    *)
(* has its ready key and a leased one its lease entry.                      *)
THEOREM NothingDropsOut == Spec => []IndexesComplete
<1>1. IndexInv => IndexesComplete
  BY DEF IndexInv
<1> QED
  BY <1>1, IndexInvariant, PTL

(* queue_has_expired_leases hides no expired lease from a claim, although   *)
(* a repeated push or a batch makes its counters drift.                     *)
THEOREM ExpiredLeasesAreSeen == Spec => []NoExpiredLeaseMissed
<1>1. IndexInv => NoExpiredLeaseMissed
  BY CoverShowsExpired DEF IndexInv
<1> QED
  BY <1>1, IndexInvariant, PTL

-----------------------------------------------------------------------------
(* The indexes and the lease counters are exact as long as no id is pushed  *)
(* twice                                                                    *)

ReadyExact ==
    \A k \in ready : jobs[IdOf(k)].status = "ready" /\ k = ReadyKey(IdOf(k), jobs[IdOf(k)])

LeasesExact ==
    \A l \in leases : jobs[l[2]].status = "leased" /\ l = LeaseOf(l[2])

(* leaseCount and leaseExpirations count the entries of the lease index. *)
CountersExact ==
    /\ leaseCount = Cardinality(leases)
    /\ \A t \in Times : leaseExpirations[t] = Cardinality(Entries(t))

ExactInv ==
    /\ IndexInv
    /\ ReadyExact /\ LeasesExact /\ CountersExact
    /\ cursor \in ready \cup {Unset, End}

(* A step that removes and adds lease entries, the new ones for jobs whose  *)
(* other entries are gone.                                                  *)
LEMMA CountersKept ==
    ASSUME ExactInv, NEW removed \in SUBSET leases, NEW t \in Times, NEW n \in Nat,
           NEW new, IsFiniteSet(new), Cardinality(new) = n, \A l \in new : l[1] = t,
           new \cap (leases \ removed) = {},
           leases' = (leases \ removed) \cup new,
           leaseCount' = LeaseCountAfter(removed, n),
           leaseExpirations' = ExpirationsAfter(removed, t, n)
    PROVE  CountersExact'
<1>1. TypeOK /\ CountersExact
  BY DEF ExactInv, IndexInv
<1>2. leaseCount' = Cardinality(leases')
  BY <1>1, LeaseCountIs DEF CountersExact
<1>3. \A u \in Times : leaseExpirations'[u] = Cardinality(Entries(u)')
  <2>1. Cardinality(new) <= n
    OBVIOUS
  <2> QED
    BY <1>1, <2>1, EntriesAfter DEF CountersExact
<1> QED
  BY <1>2, <1>3 DEF CountersExact

(* Removing leases keeps both counters exact. *)
LEMMA NoLeaseAdded ==
    ASSUME ExactInv, NEW removed \in SUBSET leases, leases' = leases \ removed,
           leaseCount' = LeaseCountAfter(removed, 0),
           leaseExpirations' = ExpirationsAfter(removed, 0, 0)
    PROVE  CountersExact'
<1>1. IsFiniteSet({}) /\ Cardinality({}) = 0 /\ (\A l \in {} : l[1] = 0) /\ 0 \in Times /\ 0 \in Nat
  BY FS_EmptySet, TimesCover
<1>2. {} \cap (leases \ removed) = {} /\ leases' = (leases \ removed) \cup {}
  OBVIOUS
<1> QED
  BY <1>1, <1>2, CountersKept

(* What a scan finds then: every entry it meets is in the index and belongs *)
(* to a ready job, so nothing is stale.                                     *)
LEMMA ScanExact ==
    ASSUME ExactInv
    PROVE  /\ \A k \in Index : Js[IdOf(k)].status = "ready" /\ k = ReadyKey(IdOf(k), Js[IdOf(k)])
           /\ \A l \in leases \ Due : /\ Js[l[2]].status = "leased" /\ Js[l[2]] = jobs[l[2]]
                                      /\ l = <<Js[l[2]].expires, l[2]>> /\ l[2] \in Ids
           /\ Start \in Index \cup {End} /\ Reached \subseteq Index /\ Stale = {}
<1>0. IndexInv
  BY DEF ExactInv
<1>1. ASSUME NEW k \in Index
      PROVE  Js[IdOf(k)].status = "ready" /\ k = ReadyKey(IdOf(k), Js[IdOf(k)])
  <2>1. IdOf(k) \in Ids
    BY <1>0, IndexFacts
  <2>2. CASE k \in ready
    <3>1. jobs[IdOf(k)].status = "ready" /\ k = ReadyKey(IdOf(k), jobs[IdOf(k)])
      BY <2>2 DEF ExactInv, ReadyExact
    <3> QED
      BY <2>1, <3>1 DEF Js, Expired, LeaseExpired
  <2>3. CASE k \in ExpiredKeys
    <3>1. PICK id \in Expired : k = ReadyKey(id, jobs[id])
      BY <2>3 DEF ExpiredKeys
    <3>2. id \in Ids /\ jobs[id] \in Job /\ IdOf(k) = id
      BY <1>0, <3>1, ReadyKeyType DEF Expired, IndexInv, TypeOK
    <3>3. Js[id].status = "ready"
      BY <3>1, <3>2, JobSteps, <1>0 DEF Js, Released, Job
    <3> QED
      BY <1>0, <3>1, <3>2, <3>3, JsFacts
  <2> QED
    BY <2>2, <2>3 DEF Index
<1>2. ASSUME NEW l \in leases \ Due
      PROVE  /\ Js[l[2]].status = "leased" /\ Js[l[2]] = jobs[l[2]]
             /\ l = <<Js[l[2]].expires, l[2]>> /\ l[2] \in Ids
  <2>1. jobs[l[2]].status = "leased" /\ l = <<jobs[l[2]].expires, l[2]>> /\ l[2] \in Ids
    BY DEF ExactInv, LeasesExact, LeaseOf, IndexInv, TypeOK
  <2>2. l[2] \notin Expired
    <3>1. ~(l[1] <= now) /\ l[1] = jobs[l[2]].expires
      BY <2>1 DEF Due
    <3> QED
      BY <3>1 DEF Expired, LeaseExpired
  <2> QED
    BY <2>1, <2>2 DEF Js
<1>3. Start \in Index \cup {End}
  <2>1. CASE cursor = Unset
    <3>1. Start = First(Index)
      BY <2>1 DEF Start, Lowered
    <3> QED
      BY <3>1, <1>0, IndexFacts, FirstIsLeast
  <2>2. CASE cursor # Unset
    <3> DEFINE S == ExpiredKeys \cup IF cursor = End THEN {} ELSE {cursor}
    <3>1. S \subseteq Index
      BY <2>2 DEF ExactInv, Index
    <3>2. S \subseteq Keys
      BY <1>0, <3>1, IndexFacts
    <3>3. Lowered(ExpiredKeys) = First(S)
      BY <2>2 DEF Lowered
    <3>4. First(S) = End \/ First(S) \in S
      BY <3>2, FirstIsLeast
    <3>5. Lowered(ExpiredKeys) # Unset
      BY <3>2, <3>3, <3>4, KeysAreNoMarks
    <3> QED
      BY <3>1, <3>3, <3>4, <3>5 DEF Start
  <2> QED
    BY <2>1, <2>2
<1>4. Reached \subseteq Index
  BY <1>3 DEF Reached, Reach
<1>5. Stale = {}
  BY <1>1, <1>4 DEF Stale, Passed
<1> QED
  BY <1>1, <1>2, <1>3, <1>4, <1>5

(* With exact indexes the cursor a claim leaves behind is an entry other    *)
(* than the one taken.                                                      *)
LEMMA FollowingExact ==
    ASSUME ExactInv
    PROVE  Following \in Index \cup {End} /\ (Target # End => Following # Target)
<1>0. IndexInv
  BY DEF ExactInv
<1>1. Delayed = End \/ (Delayed \in Index /\ (Target = End \/ KeyLess(Delayed, Target)))
  BY <1>0, ScanFacts, ScanExact DEF Passed
<1>2. Target # End => Target \in Keys /\ Target \in Index
  BY <1>0, ScanFacts, TargetJob, ScanExact DEF Free
<1>3. Target # End => \/ After(Target, Index) = End
                      \/ After(Target, Index) \in Index /\ KeyLess(Target, After(Target, Index))
  BY <1>0, <1>2, IndexFacts, AfterType
<1>4. Target # End => ~KeyLess(Target, Target)
  BY <1>2, KeyOrder
<1> QED
  BY <1>1, <1>2, <1>3, <1>4, KeysAreNoMarks DEF Following, Or

(* A claim that leases nothing. *)
LEMMA ExactRelease ==
    ASSUME ExactInv, IndexInv', ClaimNothing \/ ClaimFails
    PROVE  ExactInv' /\ jobs' = Js /\ ready' = Index /\ leases' = leases \ Due
           /\ cursor' = IF ClaimNothing THEN Following ELSE Start
<1>0. IndexInv
  BY DEF ExactInv
<1>1. /\ jobs' = Js /\ leases' = leases \ Due
      /\ leaseCount' = LeaseCountAfter(Due, 0)
      /\ leaseExpirations' = ExpirationsAfter(Due, 0, 0)
  BY <1>0, ScanIs DEF ClaimNothing, ClaimFails
<1>2. ClaimNothing => ready' = Index /\ cursor' = Following
  BY <1>0, ScanIs, ScanExact, FollowingType DEF ClaimNothing
<1>3. ASSUME ClaimFails PROVE ready' = Index /\ cursor' = Start
  <2>1. PICK done \in SUBSET Stale :
            /\ ready' = Index \ done
            /\ cursor' = IF done = {} THEN Start ELSE After(Last(done), Index)
    BY <1>0, <1>3, ScanIs DEF ClaimFails
  <2>2. done = {}
    BY ScanExact
  <2> QED
    BY <2>1, <2>2
<1>4. ready' = Index /\ cursor' \in Index \cup {End}
  BY <1>2, <1>3, ScanExact, FollowingExact
<1>5. ReadyExact'
  BY <1>1, <1>4, ScanExact DEF ReadyExact
<1>6. LeasesExact'
  BY <1>1, ScanExact DEF LeasesExact, LeaseOf
<1>7. CountersExact'
  BY <1>1, NoLeaseAdded DEF Due
<1> QED
  BY <1>1, <1>2, <1>3, <1>4, <1>5, <1>6, <1>7 DEF ExactInv

(* A claim that takes a job keeps the indexes and counters exact. *)
LEMMA ExactClaimOne ==
    ASSUME ExactInv, IndexInv', ClaimOne
    PROVE  ExactInv' /\ ready' = Index \ {Target} /\ cursor' = Following
<1>0. IndexInv
  BY DEF ExactInv
<1> DEFINE id == IdOf(Target)
<1>1. PICK lease \in LeaseTimes, ack \in BOOLEAN :
        /\ jobs' = [Js EXCEPT ![id] = Claimed(Refreshed(@), now, lease, ack)]
        /\ leases' = (leases \ Due) \cup IF ack THEN {} ELSE {<<now + lease, id>>}
        /\ leaseCount' = LeaseCountAfter(Due, IF ack THEN 0 ELSE 1)
        /\ leaseExpirations' = ExpirationsAfter(Due, now + lease, IF ack THEN 0 ELSE 1)
  BY <1>0, ScanIs DEF ClaimOne
<1>2. Target # End /\ ready' = Index \ {Target} /\ cursor' = Following
  BY <1>0, ScanIs, ScanExact, FollowingType DEF ClaimOne
<1>3. id \in Ids /\ Js[id].status = "ready" /\ Js[id] \in Job
  BY <1>0, <1>2, TargetJob, JsFacts
<1> DEFINE t == now + lease
           n == IF ack THEN 0 ELSE 1
           new == IF ack THEN {} ELSE {<<t, id>>}
           job == Claimed(Js[id], now, lease, ack)
<1> HIDE DEF id
<1>4. now \in Nat /\ lease \in Nat /\ t \in Times /\ t \in Nat
  BY <1>0, TimesCover, QueueConstants DEF IndexInv, TypeOK
<1>5. job \in Job /\ job.status = (IF ack THEN "completed" ELSE "leased") /\ job.expires = t
  <2>1. PICK j \in Job : j = Js[id]
    BY <1>3
  <2>2. /\ Claimed(j, now, lease, ack) \in Job
        /\ Claimed(j, now, lease, ack).status = IF ack THEN "completed" ELSE "leased"
        /\ Claimed(j, now, lease, ack).expires = now + lease
    BY <1>4, ClaimedIs
  <2> QED
    BY <2>1, <2>2
<1>6. jobs' = [o \in Ids |-> IF o = id THEN job ELSE Js[o]]
  BY <1>0, <1>1, <1>3, JsFacts
<1>7. Target \in Index /\ Target = ReadyKey(id, Js[id])
  BY <1>0, <1>2, ScanFacts, ScanExact DEF Free, id
<1> HIDE DEF job
<1>8. IsFiniteSet(new) /\ Cardinality(new) = n /\ n \in Nat /\ \A l \in new : l[1] = t
  <2>1. IsFiniteSet({}) /\ Cardinality({}) = 0
    BY FS_EmptySet
  <2>2. IsFiniteSet({<<t, id>>}) /\ Cardinality({<<t, id>>}) = 1
    BY FS_Singleton
  <2> QED
    BY <2>1, <2>2
<1>9. \A l \in leases \ Due : l[2] # id /\ l[2] \in Ids
  BY <1>3, ScanExact
<1>10. CountersExact'
  <2>1. new \cap (leases \ Due) = {}
    BY <1>9
  <2>2. Due \in SUBSET leases
    BY DEF Due
  <2> QED
    BY <1>1, <1>4, <1>8, <2>1, <2>2, CountersKept
<1>11. ReadyExact'
  <2> SUFFICES ASSUME NEW k \in ready'
               PROVE  jobs'[IdOf(k)].status = "ready" /\ k = ReadyKey(IdOf(k), jobs'[IdOf(k)])
    BY DEF ReadyExact
  <2>1. k \in Index /\ k # Target /\ IdOf(k) \in Ids
    BY <1>0, <1>2, IndexFacts
  <2>2. k = ReadyKey(IdOf(k), Js[IdOf(k)]) /\ Js[IdOf(k)].status = "ready"
    BY <2>1, ScanExact
  <2>3. IdOf(k) # id
    BY <1>7, <2>1, <2>2
  <2> QED
    BY <1>6, <2>1, <2>2, <2>3
<1>12. LeasesExact'
  <2> SUFFICES ASSUME NEW l \in leases'
               PROVE  jobs'[l[2]].status = "leased" /\ l = <<jobs'[l[2]].expires, l[2]>>
    BY DEF LeasesExact, LeaseOf
  <2>1. CASE l \in leases \ Due
    BY <1>6, <1>9, <2>1, ScanExact
  <2>2. CASE l \in new
    BY <1>3, <1>5, <1>6, <2>2
  <2> QED
    BY <1>1, <2>1, <2>2
<1>13. cursor' \in ready' \cup {Unset, End}
  BY <1>2, FollowingExact
<1> QED
  BY <1>2, <1>10, <1>11, <1>12, <1>13 DEF ExactInv

(* A new ready key and the cursor. *)
LEMMA LoweredExact ==
    ASSUME ExactInv, NEW keys \in SUBSET Keys
    PROVE  Lowered(keys) \in ready \cup keys \cup {Unset, End}
<1>1. CASE cursor = Unset
  BY <1>1 DEF Lowered
<1>2. CASE cursor # Unset
  <2> DEFINE S == keys \cup IF cursor = End THEN {} ELSE {cursor}
  <2>1. S \subseteq Keys /\ S \subseteq ready \cup keys
    BY <1>2 DEF ExactInv, IndexInv, TypeOK
  <2>2. Lowered(keys) = First(S)
    BY <1>2 DEF Lowered
  <2> QED
    BY <2>1, <2>2, FirstIsLeast
<1> QED
  BY <1>1, <1>2

(* The first push of an id keeps the indexes and counters exact. *)
LEMMA ExactPush ==
    ASSUME MaxRepush = 0, ExactInv, IndexInv',
           NEW S \in SUBSET Ids, NEW new \in [S -> NewJobs(now)], Push(new)
    PROVE  /\ ExactInv'
           /\ \A id \in S : jobs[id].status = "none"
           /\ \E keys \in SUBSET Keys : /\ ready' = ready \cup keys
                                        /\ keys # {} \/ S = {}
                                        /\ cursor' = Lowered(keys)
<1> DEFINE keys == {ReadyKey(id, new[id]) : id \in S}
<1>1. now \in Nat /\ \A id \in S : new[id] \in Job /\ new[id].status = "ready"
  BY NewJobType, QueueConstants DEF ExactInv, IndexInv, TypeOK
<1>2. keys \subseteq Keys /\ \A k \in keys : IdOf(k) \in S /\ k = ReadyKey(IdOf(k), new[IdOf(k)])
  BY <1>1, ReadyKeyType
<1>3. \A id \in S : jobs[id].status = "none"
  BY PersistentQueueConstants DEF Push, ExactInv, IndexInv, TypeOK
<1>4. /\ jobs' = [id \in Ids |-> IF id \in S THEN new[id] ELSE jobs[id]]
      /\ ready' = ready \cup keys /\ cursor' = Lowered(keys)
      /\ UNCHANGED <<leases, leaseCount, leaseExpirations>>
  BY DEF Push
<1>5. keys # {} \/ S = {}
  OBVIOUS
<1> HIDE DEF keys
<1>6. cursor' \in ready' \cup {Unset, End}
  BY <1>2, <1>4, LoweredExact
<1>7. ReadyExact'
  <2> SUFFICES ASSUME NEW k \in ready'
               PROVE  jobs'[IdOf(k)].status = "ready" /\ k = ReadyKey(IdOf(k), jobs'[IdOf(k)])
    BY DEF ReadyExact
  <2>1. CASE k \in keys
    BY <1>1, <1>2, <1>4, <2>1
  <2>2. CASE k \in ready
    <3>1. /\ IdOf(k) \in Ids /\ jobs[IdOf(k)].status = "ready"
          /\ k = ReadyKey(IdOf(k), jobs[IdOf(k)])
      BY <2>2 DEF ExactInv, ReadyExact, IndexInv, TypeOK
    <3> QED
      BY <1>3, <1>4, <3>1
  <2> QED
    BY <1>4, <2>1, <2>2
<1>8. LeasesExact'
  <2> SUFFICES ASSUME NEW l \in leases
               PROVE  jobs'[l[2]].status = "leased" /\ l = <<jobs'[l[2]].expires, l[2]>>
    BY <1>4 DEF LeasesExact, LeaseOf
  <2>1. l[2] \in Ids /\ jobs[l[2]].status = "leased" /\ l = <<jobs[l[2]].expires, l[2]>>
    BY DEF ExactInv, LeasesExact, LeaseOf, IndexInv, TypeOK
  <2> QED
    BY <1>3, <1>4, <2>1
<1>9. CountersExact'
  BY <1>4 DEF ExactInv, CountersExact, Entries
<1> QED
  BY <1>2, <1>3, <1>4, <1>5, <1>6, <1>7, <1>8, <1>9 DEF ExactInv

(* No two candidates of a batch are the same job. *)
LEMMA CandidateUnique ==
    ASSUME ExactInv, NEW limit \in Nat \ {0},
           NEW c \in Candidates(limit), NEW d \in Candidates(limit), IdOf(c.key) = IdOf(d.key)
    PROVE  c = d
<1>0. IndexInv
  BY DEF ExactInv
<1> DEFINE id == IdOf(c.key)
<1>1. id \in Ids /\ BReached \subseteq ready
  <2>1. First(ready) \in ready \cup {End}
    BY <1>0, FirstIsLeast DEF IndexInv, TypeOK
  <2>2. BStart \in ready \cup {End}
    BY <2>1 DEF BStart, ExactInv
  <2> QED
    BY <1>0, <2>2, CandidateFacts DEF BReached, Reach
<1>2. ASSUME NEW e \in FromReady(limit), IdOf(e.key) = id
      PROVE  jobs[id].status = "ready" /\ e = [key |-> ReadyKey(id, jobs[id]), lease |-> <<None, id>>]
  <2>1. PICK k \in Taken(limit) : e = [key |-> k, lease |-> <<None, IdOf(k)>>]
    BY DEF FromReady
  <2>2. k \in ready /\ IdOf(k) = id
    BY <1>0, <1>1, <1>2, <2>1, BReachFacts
  <2> QED
    BY <2>1, <2>2 DEF ExactInv, ReadyExact
<1>3. ASSUME NEW e \in FromLeases, IdOf(e.key) = id
      PROVE  jobs[id].status = "leased" /\ e = [key |-> ReadyKey(id, jobs[id]), lease |-> LeaseOf(id)]
  <2>1. PICK l \in Due : e = [key |-> ReadyKey(l[2], jobs[l[2]]), lease |-> l]
    BY DEF FromLeases
  <2>2. l \in leases /\ l[2] \in Ids /\ jobs[l[2]] \in Job
    BY <1>0 DEF Due, IndexInv, TypeOK
  <2>3. l[2] = id
    BY <1>3, <2>1, <2>2, ReadyKeyType
  <2> QED
    BY <2>1, <2>2, <2>3 DEF ExactInv, LeasesExact
<1> HIDE DEF id
<1>4. c \in FromReady(limit) \cup FromLeases /\ d \in FromReady(limit) \cup FromLeases
  BY DEF Candidates
<1>5. IdOf(c.key) = id /\ IdOf(d.key) = id
  BY DEF id
<1>6. CASE jobs[id].status = "ready"
  <2>1. c \in FromReady(limit) /\ d \in FromReady(limit)
    BY <1>3, <1>4, <1>5, <1>6
  <2> QED
    BY <1>2, <1>5, <2>1
<1>7. CASE jobs[id].status # "ready"
  <2>1. c \in FromLeases /\ d \in FromLeases
    BY <1>2, <1>4, <1>5, <1>7
  <2> QED
    BY <1>3, <1>5, <2>1
<1> QED
  BY <1>6, <1>7

(* A batch claim keeps the indexes and counters exact. *)
LEMMA ExactBatch ==
    ASSUME ExactInv, IndexInv', NEW limit \in BatchLimits, ClaimBatch(limit)
    PROVE  ExactInv'
<1> DEFINE C == Chosen(limit)
           R == Requeued(limit)
           ids == IdsOf(C)
           s == BatchScan(limit)
<1>0. IndexInv /\ limit \in Nat \ {0}
  BY QueueConstants DEF ExactInv
<1>s. s.due = Due /\ s.stale = BStale(limit) /\ s.chosen = C /\ s.requeued = R
      /\ s.cursor = First(KeysOf(R) \cup ({BNext(limit)} \ {End}))
  BY <1>0, BatchFields
<1> HIDE DEF s, C, R
<1>1. PICK lease \in LeaseTimes, ack \in BOOLEAN :
        /\ jobs' = [id \in Ids |-> IF id \in IdsOf(R) THEN Released(jobs[id])
                                   ELSE IF id \in ids THEN Claimed(jobs[id], now, lease, ack)
                                   ELSE jobs[id]]
        /\ leases' = (leases \ Due) \cup {<<now + lease, id>> : id \in IF ack THEN {} ELSE ids}
        /\ leaseCount' = LeaseCountAfter(Due, IF ack THEN 0 ELSE Cardinality(C))
        /\ leaseExpirations' = ExpirationsAfter(Due, now + lease, IF ack THEN 0 ELSE Cardinality(C))
  BY <1>s DEF ClaimBatch, s
<1>2. /\ ready' = (ready \ (BStale(limit) \cup KeysOf(C))) \cup KeysOf(R)
      /\ cursor' = First(KeysOf(R) \cup ({BNext(limit)} \ {End}))
  BY <1>s DEF ClaimBatch, s
<1> DEFINE t == now + lease
           n == IF ack THEN 0 ELSE Cardinality(C)
           new == {<<t, id>> : id \in IF ack THEN {} ELSE ids}
<1>3. now \in Nat /\ lease \in Nat /\ t \in Times
  BY <1>0, TimesCover, QueueConstants DEF IndexInv, TypeOK
<1>4. /\ C \subseteq Candidates(limit) /\ R \subseteq Candidates(limit) /\ IsFiniteSet(C)
      /\ C \cap R = {} /\ \A c \in R : c.lease[1] # None
  <2>1. /\ C \subseteq Candidates(limit) /\ R \subseteq Candidates(limit)
        /\ C \cap R = {} /\ \A c \in R : c.lease[1] # None
    BY DEF C, R, Chosen, Requeued
  <2> QED
    BY <1>0, <2>1, CandidateFacts, FS_Subset
<1>5. \A id \in IdsOf(R) : id \in Ids /\ id \notin ids /\ jobs[id].status = "leased"
                           /\ LeaseExpired(jobs[id], now) /\ ReadyKey(id, jobs[id]) \in KeysOf(R)
  <2> SUFFICES ASSUME NEW c \in R
               PROVE  /\ IdOf(c.key) \in Ids /\ IdOf(c.key) \notin ids
                      /\ jobs[IdOf(c.key)].status = "leased" /\ LeaseExpired(jobs[IdOf(c.key)], now)
                      /\ ReadyKey(IdOf(c.key), jobs[IdOf(c.key)]) \in KeysOf(R)
    BY DEF IdsOf
  <2>1. /\ IdOf(c.key) \in Ids /\ LeaseExpired(jobs[IdOf(c.key)], now)
        /\ c.key = ReadyKey(IdOf(c.key), jobs[IdOf(c.key)])
    BY <1>0, <1>4, CandidateFacts
  <2>2. IdOf(c.key) \notin ids
    <3> SUFFICES ASSUME NEW d \in C, IdOf(d.key) = IdOf(c.key) PROVE FALSE
      BY DEF IdsOf
    <3>1. c = d
      BY <1>0, <1>4, CandidateUnique
    <3> QED
      BY <3>1, <1>4
  <2> QED
    BY <2>1, <2>2 DEF LeaseExpired, KeysOf
<1>6. \A id \in Ids : /\ jobs[id] \in Job
                      /\ Released(jobs[id]).status = "ready"
                      /\ Claimed(jobs[id], now, lease, ack).status = (IF ack THEN "completed" ELSE "leased")
                      /\ Claimed(jobs[id], now, lease, ack).expires = t
                      /\ ReadyKey(id, Released(jobs[id])) = ReadyKey(id, jobs[id])
  BY <1>0, <1>3, JobSteps DEF IndexInv, TypeOK
<1>7. \A id \in ids : id \in Ids /\ (jobs[id].status = "ready" \/ LeaseExpired(jobs[id], now))
  BY <1>0, <1>4, CandidateFacts DEF IdsOf, Available
<1>8. /\ IsFiniteSet(new) /\ Cardinality(new) = n /\ n \in Nat /\ \A l \in new : l[1] = t
  <2>1. CASE ack
    <3>1. new = {} /\ n = 0
      BY <2>1
    <3>2. IsFiniteSet({}) /\ Cardinality({}) = 0 /\ \A l \in {} : l[1] = t
      BY FS_EmptySet
    <3> HIDE DEF new, n, t
    <3> QED
      BY <3>1, <3>2
  <2>2. CASE ~ack
    <3> DEFINE f == [c \in C |-> <<t, IdOf(c.key)>>]
    <3>1. f \in Surjection(C, new)
      BY <2>2 DEF Surjection, IdsOf
    <3>2. f \in Injection(C, new)
      <4>1. f \in [C -> new]
        BY <3>1 DEF Surjection
      <4>2. ASSUME NEW c \in C, NEW d \in C, f[c] = f[d] PROVE c = d
        <5>1. IdOf(c.key) = IdOf(d.key)
          BY <4>2
        <5> QED
          BY <1>0, <1>4, <5>1, CandidateUnique
      <4> QED
        BY <4>1, <4>2 DEF Injection, IsInjective
    <3>3. IsFiniteSet(new) /\ Cardinality(new) = Cardinality(C)
      BY <1>4, <3>1, <3>2, FS_Surjection
    <3>4. Cardinality(C) \in Nat
      BY <1>4, FS_CardinalityType
    <3> QED
      BY <2>2, <3>3, <3>4
  <2> QED
    BY <2>1, <2>2
<1>9. \A l \in leases \ Due : /\ l[2] \in Ids /\ l[2] \notin ids /\ l[2] \notin IdsOf(R)
                              /\ jobs[l[2]].status = "leased" /\ l = <<jobs[l[2]].expires, l[2]>>
  <2> SUFFICES ASSUME NEW l \in leases \ Due
               PROVE  /\ l[2] \in Ids /\ l[2] \notin ids /\ l[2] \notin IdsOf(R)
                      /\ jobs[l[2]].status = "leased" /\ l = <<jobs[l[2]].expires, l[2]>>
    OBVIOUS
  <2>1. l[2] \in Ids /\ jobs[l[2]].status = "leased" /\ l = <<jobs[l[2]].expires, l[2]>>
    BY DEF ExactInv, LeasesExact, LeaseOf, IndexInv, TypeOK
  <2>2. ~LeaseExpired(jobs[l[2]], now)
    BY <2>1 DEF LeaseExpired, Due
  <2> QED
    BY <1>5, <1>7, <2>1, <2>2
<1>10. CountersExact'
  <2>1. new \cap (leases \ Due) = {}
    BY <1>9
  <2>2. Due \in SUBSET leases
    BY DEF Due
  <2> QED
    BY <1>1, <1>3, <1>8, <2>1, <2>2, CountersKept
<1>11. LeasesExact'
  <2> SUFFICES ASSUME NEW l \in leases'
               PROVE  jobs'[l[2]].status = "leased" /\ l = <<jobs'[l[2]].expires, l[2]>>
    BY DEF LeasesExact, LeaseOf
  <2>1. CASE l \in leases \ Due
    BY <1>1, <1>9, <2>1
  <2>2. CASE l \in new
    <3>1. PICK id \in ids : ~ack /\ l = <<t, id>>
      BY <2>2
    <3>2. id \in Ids /\ id \notin IdsOf(R)
      BY <1>5, <1>7
    <3>3. jobs'[id] = Claimed(jobs[id], now, lease, ack)
      BY <1>1, <3>2
    <3> QED
      BY <1>6, <3>1, <3>2, <3>3
  <2> QED
    BY <1>1, <2>1, <2>2
<1>12. ASSUME NEW k \in ready
       PROVE  /\ IdOf(k) \in Ids /\ jobs[IdOf(k)].status = "ready" /\ k = ReadyKey(IdOf(k), jobs[IdOf(k)])
              /\ k \notin BStale(limit) /\ IdOf(k) \notin IdsOf(R)
              /\ IdOf(k) \in ids => k \in KeysOf(C)
              /\ k \in KeysOf(C) => k \in Taken(limit)
  <2>1. IdOf(k) \in Ids /\ jobs[IdOf(k)].status = "ready" /\ k = ReadyKey(IdOf(k), jobs[IdOf(k)])
    BY DEF ExactInv, ReadyExact, IndexInv, TypeOK
  <2>2. k \notin BStale(limit) /\ IdOf(k) \notin IdsOf(R)
    BY <1>5, <2>1 DEF BStale
  <2>3. ASSUME NEW c \in C, IdOf(c.key) = IdOf(k) PROVE c.key \in Taken(limit) /\ c.key = k
    <3>1. c.key \in Taken(limit)
      BY <1>0, <1>4, <2>1, <2>3, CandidateFacts DEF LeaseExpired
    <3>2. Taken(limit) \subseteq BReached
      BY <1>0, BReachFacts
    <3>3. BReached \subseteq ready
      <4>1. First(ready) \in ready \cup {End}
        BY <1>0, FirstIsLeast DEF IndexInv, TypeOK
      <4> QED
        BY <4>1 DEF BReached, Reach, BStart, ExactInv
    <3>4. c.key = ReadyKey(IdOf(k), jobs[IdOf(k)])
      BY <2>3, <3>1, <3>2, <3>3 DEF ExactInv, ReadyExact
    <3> QED
      BY <2>1, <3>1, <3>4
  <2>4. IdOf(k) \in ids => k \in KeysOf(C)
    BY <2>3 DEF IdsOf, KeysOf
  <2>5. k \in KeysOf(C) => k \in Taken(limit)
    BY <2>3 DEF KeysOf
  <2> QED
    BY <2>1, <2>2, <2>4, <2>5
<1> HIDE DEF ids, new
<1>13. ReadyExact'
  <2> SUFFICES ASSUME NEW k \in ready'
               PROVE  jobs'[IdOf(k)].status = "ready" /\ k = ReadyKey(IdOf(k), jobs'[IdOf(k)])
    BY DEF ReadyExact
  <2>1. CASE k \in KeysOf(R)
    <3>1. PICK c \in R : k = c.key
      BY <2>1 DEF KeysOf
    <3>2. IdOf(k) \in IdsOf(R) /\ k = ReadyKey(IdOf(k), jobs[IdOf(k)])
      BY <1>0, <1>4, <3>1, CandidateFacts DEF IdsOf
    <3>3. IdOf(k) \in Ids /\ jobs'[IdOf(k)] = Released(jobs[IdOf(k)])
      BY <1>1, <1>5, <3>2
    <3> QED
      BY <1>6, <3>2, <3>3
  <2>2. CASE k \in ready /\ k \notin KeysOf(C)
    <3>1. IdOf(k) \in Ids /\ IdOf(k) \notin ids /\ IdOf(k) \notin IdsOf(R)
      BY <1>12, <2>2
    <3>2. jobs'[IdOf(k)] = jobs[IdOf(k)]
      BY <1>1, <3>1
    <3> QED
      BY <1>12, <2>2, <3>2
  <2> QED
    BY <1>2, <2>1, <2>2
<1>14. cursor' \in ready' \cup {Unset, End}
  <2> DEFINE N == KeysOf(R) \cup ({BNext(limit)} \ {End})
             first == First(BPassed(limit) \ BStale(limit))
             behind == IF Full(limit) THEN After(Last(Taken(limit)), ready) ELSE End
  <2>1. \A k \in ready \ Taken(limit) : k \in ready'
    BY <1>2, <1>12
  <2>2. BReached \subseteq ready /\ ready \subseteq Keys
    <3>1. First(ready) \in ready \cup {End}
      BY <1>0, FirstIsLeast DEF IndexInv, TypeOK
    <3> QED
      BY <1>0, <3>1 DEF BReached, Reach, BStart, ExactInv, IndexInv, TypeOK
  <2>3. first \in ready' \cup {End}
    <3>1. BPassed(limit) \subseteq ready \ Taken(limit)
      BY <2>2 DEF BPassed
    <3>2. first = End \/ first \in BPassed(limit)
      BY <2>2, <3>1, FirstIsLeast
    <3> QED
      BY <2>1, <3>1, <3>2
  <2>4. behind \in ready' \cup {End}
    <3>1. CASE Full(limit)
      <4> DEFINE k == After(Last(Taken(limit)), ready)
                 last == Last(Taken(limit))
      <4>1. last \in Taken(limit) /\ last \in Keys
            /\ \A o \in Taken(limit) \ {last} : KeyLess(o, last)
        <5>1. Taken(limit) \subseteq Keys /\ IsFiniteSet(Taken(limit)) /\ Taken(limit) # {}
          BY <1>0, <2>2, <3>1, BReachFacts
        <5> QED
          BY <5>1, LastIsGreatest
      <4>2. k = End \/ (k \in ready /\ KeyLess(last, k))
        BY <1>0, <2>2, <4>1, AfterType DEF IndexInv, TypeOK
      <4>3. ASSUME k \in ready, KeyLess(last, k) PROVE k \notin Taken(limit)
        <5>1. k \in Keys /\ ~KeyLess(last, last) /\ ~(KeyLess(last, k) /\ KeyLess(k, last))
          BY <2>2, <4>1, <4>3, KeyOrder
        <5> QED
          BY <4>1, <4>3, <5>1
      <4> QED
        BY <2>1, <3>1, <4>2, <4>3
    <3> QED
      BY <3>1
  <2>5. BNext(limit) \in ready' \cup {End}
    BY <2>3, <2>4 DEF BNext, Or
  <2>6. N \subseteq ready'
    BY <1>2, <2>5
  <2>7. ready' \subseteq Keys
    BY DEF IndexInv, TypeOK
  <2>8. First(N) = End \/ First(N) \in N
    BY <2>6, <2>7, FirstIsLeast
  <2> QED
    BY <1>2, <2>6, <2>8
<1> QED
  BY <1>10, <1>11, <1>13, <1>14 DEF ExactInv

(* What an answer makes of the job it answers. *)
LEMMA ExactAnswer ==
    ASSUME ExactInv, IndexInv', NEW S \in SUBSET Ids, NEW keys \in SUBSET Keys,
           \A id \in S : jobs[id].status = "leased",
           \A id \in Ids \ S : jobs'[id] = jobs[id],
           NEW removed \in SUBSET leases, \A id \in S : LeaseOf(id) \in removed,
           \A l \in removed : l[2] \in S,
           leases' = leases \ removed,
           leaseCount' = LeaseCountAfter(removed, 0),
           leaseExpirations' = ExpirationsAfter(removed, 0, 0),
           ready' = ready \cup keys,
           \A k \in keys : /\ IdOf(k) \in S /\ jobs'[IdOf(k)].status = "ready"
                           /\ k = ReadyKey(IdOf(k), jobs'[IdOf(k)]),
           cursor' = cursor \/ cursor' = Lowered(keys)
    PROVE  ExactInv'
<1>2. CountersExact'
  BY NoLeaseAdded
<1>3. LeasesExact'
  <2> SUFFICES ASSUME NEW l \in leases'
               PROVE  jobs'[l[2]].status = "leased" /\ l = <<jobs'[l[2]].expires, l[2]>>
    BY DEF LeasesExact, LeaseOf
  <2>1. l[2] \in Ids /\ jobs[l[2]].status = "leased" /\ l = LeaseOf(l[2])
    BY DEF ExactInv, LeasesExact, IndexInv, TypeOK
  <2>2. l[2] \notin S
    BY <2>1
  <2> QED
    BY <2>1, <2>2 DEF LeaseOf
<1>4. ReadyExact'
  <2> SUFFICES ASSUME NEW k \in ready'
               PROVE  jobs'[IdOf(k)].status = "ready" /\ k = ReadyKey(IdOf(k), jobs'[IdOf(k)])
    BY DEF ReadyExact
  <2>1. CASE k \in keys
    BY <2>1
  <2>2. CASE k \in ready
    <3>1. /\ IdOf(k) \in Ids /\ jobs[IdOf(k)].status = "ready"
          /\ k = ReadyKey(IdOf(k), jobs[IdOf(k)])
      BY <2>2 DEF ExactInv, ReadyExact, IndexInv, TypeOK
    <3> QED
      BY <3>1
  <2> QED
    BY <2>1, <2>2
<1>5. cursor' \in ready' \cup {Unset, End}
  BY LoweredExact DEF ExactInv
<1> QED
  BY <1>2, <1>3, <1>4, <1>5 DEF ExactInv

(* An ack keeps the indexes and counters exact. *)
LEMMA ExactAck ==
    ASSUME ExactInv, IndexInv', NEW S \in SUBSET held, AckJobs(S) PROVE ExactInv'
<1> DEFINE ids == {c[1] : c \in S}
           removed == {LeaseOf(id) : id \in ids}
<1>1. /\ \A id \in ids : jobs[id].status = "leased"
      /\ jobs' = [id \in Ids |-> IF id \in ids THEN Acked(jobs[id]) ELSE jobs[id]]
      /\ leases' = leases \ removed
      /\ leaseCount' = LeaseCountAfter(removed, 0)
      /\ leaseExpirations' = ExpirationsAfter(removed, 0, 0)
      /\ ready' = ready /\ cursor' = cursor
  BY DEF AckJobs
<1>2. ids \in SUBSET Ids
  BY DEF ExactInv, IndexInv, TypeOK
<1> HIDE DEF ids
<1>3. removed \in SUBSET leases /\ (\A id \in ids : LeaseOf(id) \in removed)
      /\ \A l \in removed : l[2] \in ids
  BY <1>1, <1>2 DEF ExactInv, IndexInv, IndexesComplete, LeaseOf
<1>4. \A id \in Ids \ ids : jobs'[id] = jobs[id]
  BY <1>1
<1> HIDE DEF removed
<1>5. /\ {} \in SUBSET Keys /\ ready' = ready \cup {}
      /\ \A k \in {} : /\ IdOf(k) \in ids /\ jobs'[IdOf(k)].status = "ready"
                        /\ k = ReadyKey(IdOf(k), jobs'[IdOf(k)])
  BY <1>1
<1> QED
  BY <1>1, <1>2, <1>3, <1>4, <1>5, ExactAnswer

(* A nack keeps the indexes and counters exact. *)
LEMMA ExactNack ==
    ASSUME ExactInv, IndexInv', NEW c \in held, NEW delay \in Delays, NackJob(c, delay)
    PROVE  /\ ExactInv'
           /\ \/ ready' = ready /\ cursor' = cursor
              \/ \E keys \in SUBSET Keys : keys # {} /\ ready' = ready \cup keys /\ cursor' = Lowered(keys)
<1> DEFINE id == c[1]
           nacked == Nacked(jobs[id], now, delay)
           keys == IF nacked.status = "ready" THEN {ReadyKey(id, nacked)} ELSE {}
           removed == {LeaseOf(id)}
<1>1. /\ jobs[id].status = "leased" /\ jobs' = [jobs EXCEPT ![id] = nacked]
      /\ leases' = leases \ removed
      /\ leaseCount' = LeaseCountAfter(removed, 0)
      /\ leaseExpirations' = ExpirationsAfter(removed, 0, 0)
      /\ ready' = ready \cup keys
      /\ cursor' = IF keys = {} THEN cursor ELSE Lowered(keys)
  BY DEF NackJob
<1>2. id \in Ids /\ now \in Nat /\ delay \in Nat /\ jobs[id] \in Job /\ jobs \in [Ids -> Job]
  BY QueueConstants DEF ExactInv, IndexInv, TypeOK
<1>3. nacked \in Job /\ nacked.status \in {"ready", "dead"}
  BY <1>2, JobSteps
<1> HIDE DEF nacked, id
<1>4. /\ {id} \in SUBSET Ids /\ jobs'[id] = nacked
      /\ \A o \in {id} : jobs[o].status = "leased"
      /\ \A o \in Ids \ {id} : jobs'[o] = jobs[o]
  BY <1>1, <1>2, <1>3
<1>5. /\ keys \in SUBSET Keys
      /\ \A k \in keys : /\ IdOf(k) \in {id} /\ jobs'[IdOf(k)].status = "ready"
                          /\ k = ReadyKey(IdOf(k), jobs'[IdOf(k)])
  BY <1>2, <1>3, <1>4, ReadyKeyType
<1>6. removed \in SUBSET leases /\ (\A o \in {id} : LeaseOf(o) \in removed)
      /\ \A l \in removed : l[2] \in {id}
  BY <1>1, <1>2 DEF ExactInv, IndexInv, IndexesComplete, LeaseOf
<1> HIDE DEF removed, keys
<1>7. ExactInv'
  BY <1>1, <1>4, <1>5, <1>6, ExactAnswer
<1> QED
  BY <1>1, <1>5, <1>7

(* A reopen reads exact counters back. *)
LEMMA ExactReopen ==
    ASSUME ExactInv, IndexInv', Reopen
    PROVE  ExactInv'
<1>1. /\ leases' = LeaseIndexOf(jobs) /\ leaseCount' = Cardinality(leases')
      /\ leaseExpirations' = [t \in Times |-> Cardinality(Entries(t)')]
      /\ cursor' = Unset /\ UNCHANGED <<jobs, ready>>
  BY DEF Reopen, Entries
<1>2. LeasesExact'
  BY <1>1 DEF LeasesExact, LeaseOf, LeaseIndexOf
<1> QED
  BY <1>1, <1>2 DEF ExactInv, ReadyExact, CountersExact

(* A step that leaves the queue alone keeps everything exact. *)
LEMMA ExactQuiet ==
    ASSUME ExactInv, IndexInv', UNCHANGED <<store, caches>>
    PROVE  ExactInv'
BY DEF ExactInv, store, caches, ReadyExact, LeasesExact, LeaseOf, CountersExact, Entries

(* Base case: an empty queue is exact. *)
LEMMA InitExact == Init => ExactInv
<1> SUFFICES ASSUME Init PROVE ExactInv
  OBVIOUS
<1>1. \A t \in Times : Entries(t) = {}
  BY DEF Init, Entries
<1> QED
  BY <1>1, InitIndex, FS_EmptySet DEF Init, ExactInv, ReadyExact, LeasesExact, CountersExact

(* Inductive step: with ids pushed once every action keeps the queue        *)
(* exact.                                                                   *)
LEMMA NextExact ==
    ASSUME MaxRepush = 0, ExactInv, [Next]_vars
    PROVE  ExactInv'
<1>0. IndexInv'
  BY NextIndex DEF ExactInv
<1>1. CASE ClaimNothing \/ ClaimFails
  BY <1>0, <1>1, ExactRelease
<1>2. CASE ClaimOne
  BY <1>0, <1>2, ExactClaimOne
<1>3. ASSUME NEW S \in SUBSET Ids, NEW new \in [S -> NewJobs(now)], Push(new) PROVE ExactInv'
  BY <1>0, <1>3, ExactPush
<1>4. ASSUME NEW n \in BatchLimits, ClaimBatch(n) PROVE ExactInv'
  BY <1>0, <1>4, ExactBatch
<1>5. ASSUME NEW S \in SUBSET held, AckJobs(S) PROVE ExactInv'
  BY <1>0, <1>5, ExactAck
<1>6. ASSUME NEW c \in held, NEW d \in Delays, NackJob(c, d) PROVE ExactInv'
  BY <1>0, <1>6, ExactNack
<1>7. CASE Reopen
  BY <1>0, <1>7, ExactReopen
<1>8. ASSUME NEW c \in held, CallIgnored(c) PROVE ExactInv'
  BY <1>0, <1>8, ExactQuiet DEF CallIgnored
<1>9. CASE Tick \/ UNCHANGED vars
  BY <1>0, <1>9, ExactQuiet DEF Tick, vars
<1> QED
  BY <1>1, <1>2, <1>3, <1>4, <1>5, <1>6, <1>7, <1>8, <1>9 DEF Next, OtherNext, ClaimAny

(* As long as no id is pushed twice the lease counters are exact, batch     *)
(* claims, failed claims, late answers and reopens included.                *)
THEOREM LeaseCountersExact ==
    ASSUME MaxRepush = 0
    PROVE  Spec => []CountersExact
<1>1. Init => ExactInv
  BY InitExact
<1>2. ExactInv /\ [Next]_vars => ExactInv'
  BY NextExact
<1>3. ExactInv => CountersExact
  BY DEF ExactInv
<1> QED
  BY <1>1, <1>2, <1>3, PTL DEF Spec

-----------------------------------------------------------------------------
(* A running lease is exclusive *)

(* Every claim a careful worker may still answer is running, and is the     *)
(* lease its job has.                                                       *)
HeldInv ==
    \A c \in held : /\ now < c[2]
                    /\ jobs[c[1]].status = "leased" /\ jobs[c[1]].expires = c[2]

(* The jobs a claim may change: not leased, or with a lease that ran out.   *)
Loose(id) == jobs[id].status # "leased" \/ LeaseExpired(jobs[id], now)

(* A step that changes only loose jobs, and hands out only leases that run  *)
(* and that the jobs then have, keeps HeldInv.                              *)
LEMMA HeldKept ==
    ASSUME IndexInv, HeldInv, now' = now,
           \A id \in Ids : jobs'[id] = jobs[id] \/ Loose(id),
           NEW new, held' \subseteq held \cup new,
           \A c \in new : /\ now < c[2] /\ jobs'[c[1]].status = "leased"
                          /\ jobs'[c[1]].expires = c[2]
    PROVE  HeldInv'
<1> SUFFICES ASSUME NEW c \in held'
             PROVE  now < c[2] /\ jobs'[c[1]].status = "leased" /\ jobs'[c[1]].expires = c[2]
  BY DEF HeldInv
<1>1. CASE c \in new
  BY <1>1
<1>2. CASE c \in held
  <2>1. c[1] \in Ids /\ now < c[2] /\ jobs[c[1]].status = "leased" /\ jobs[c[1]].expires = c[2]
        /\ c[2] \in Nat /\ now \in Nat
    <3>1. c \in Ids \X Times /\ now \in 0..MaxNow
      BY <1>2 DEF IndexInv, TypeOK
    <3>2. now < c[2] /\ jobs[c[1]].status = "leased" /\ jobs[c[1]].expires = c[2]
      BY <1>2 DEF HeldInv
    <3>3. c[1] \in Ids /\ c[2] \in Times
      BY <3>1
    <3>4. c[2] \in Nat /\ now \in Nat
      <4>1. Times \subseteq Nat /\ MaxNow \in Nat
        BY TimesCover, QueueConstants
      <4>2. c[2] \in Nat
        BY <3>3, <4>1
      <4>3. now \in Nat
        BY <3>1, <4>1
      <4> QED
        BY <4>2, <4>3
    <3> QED
      BY <3>2, <3>3, <3>4
  <2>2. ~Loose(c[1])
    BY <2>1 DEF Loose, LeaseExpired
  <2> QED
    BY <2>1, <2>2
<1> QED
  BY <1>1, <1>2

(* A step that gives no lease out, and touches only jobs nobody holds,      *)
(* keeps the holders exclusive.                                             *)
LEMMA NoneHeld ==
    ASSUME IndexInv, HeldInv, now' = now, held' \subseteq held,
           \A id \in Ids : jobs'[id] = jobs[id] \/ Loose(id)
    PROVE  HeldInv'
<1> DEFINE none == {}
<1>1. \A c \in none : now < c[2] /\ jobs'[c[1]].status = "leased" /\ jobs'[c[1]].expires = c[2]
  OBVIOUS
<1>2. held' \subseteq held \cup none
  OBVIOUS
<1> HIDE DEF none
<1> QED
  BY <1>1, <1>2, HeldKept

(* A job whose lease the scan releases is held by nobody. *)
LEMMA ReleasedAreLoose ==
    ASSUME IndexInv
    PROVE  \A id \in Ids : /\ Js[id] = jobs[id] \/ Loose(id)
                           /\ Js[id].status = "ready" => Loose(id)
BY DEF Js, Loose, Expired, Released

(* An answer changes only jobs of which the worker held the lease. *)
LEMMA AnswerKeepsHeld ==
    ASSUME HeldInv, now' = now, NEW S \in SUBSET held, held' = held \ S,
           \A id \in Ids : jobs'[id] = jobs[id] \/ \E c \in S : c[1] = id,
           held \subseteq Ids \X Times
    PROVE  HeldInv'
<1> SUFFICES ASSUME NEW c \in held \ S
             PROVE  now < c[2] /\ jobs'[c[1]].status = "leased" /\ jobs'[c[1]].expires = c[2]
  BY DEF HeldInv
<1>1. ASSUME NEW d \in S, d[1] = c[1] PROVE FALSE
  <2>1. d[2] = c[2] /\ c = <<c[1], c[2]>> /\ d = <<d[1], d[2]>>
    BY <1>1 DEF HeldInv
  <2> QED
    BY <1>1, <2>1
<1> QED
  BY <1>1 DEF HeldInv

(* Inductive step: with leases that last no job is held twice. *)
LEMMA NextHeld ==
    ASSUME MaxRepush = 0, LateCalls = FALSE, 0 \notin LeaseTimes,
           ExactInv, HeldInv, [Next]_vars
    PROVE  HeldInv'
<1>0. IndexInv /\ now \in Nat /\ held \subseteq Ids \X Times
  BY QueueConstants DEF ExactInv, IndexInv, TypeOK
<1>1. CASE ClaimNothing \/ ClaimFails
  <2>1. jobs' = Js /\ now' = now /\ held' = held
    BY <1>0, <1>1, ScanIs DEF ClaimNothing, ClaimFails
  <2> QED
    BY <1>0, <2>1, ReleasedAreLoose, NoneHeld
<1>2. CASE ClaimOne
  <2> DEFINE id == IdOf(Target)
  <2>1. PICK lease \in LeaseTimes, ack \in BOOLEAN :
          /\ jobs' = [Js EXCEPT ![id] = Claimed(Refreshed(@), now, lease, ack)]
          /\ held' = held \cup IF ack THEN {} ELSE {<<id, now + lease>>}
    BY <1>0, <1>2, ScanIs DEF ClaimOne
  <2>2. now' = now /\ Target # End
    BY <1>0, <1>2, ScanIs DEF ClaimOne
  <2>3. id \in Ids /\ Js[id].status = "ready" /\ Js[id] \in Job /\ lease \in Nat /\ lease # 0
    BY <1>0, <2>2, TargetJob, JsFacts, QueueConstants
  <2> HIDE DEF id
  <2> DEFINE job == Claimed(Js[id], now, lease, ack)
             new == IF ack THEN {} ELSE {<<id, now + lease>>}
  <2>4. jobs' = [o \in Ids |-> IF o = id THEN job ELSE Js[o]]
    BY <1>0, <2>1, <2>3, JsFacts
  <2>5. job \in Job /\ job.status = (IF ack THEN "completed" ELSE "leased") /\ job.expires = now + lease
    <3>0. now \in Nat
      BY <1>0 DEF IndexInv, TypeOK
    <3>1. PICK j \in Job : j = Js[id]
      BY <2>3
    <3>2. /\ Claimed(j, now, lease, ack) \in Job
          /\ Claimed(j, now, lease, ack).status = IF ack THEN "completed" ELSE "leased"
          /\ Claimed(j, now, lease, ack).expires = now + lease
      BY <2>3, <3>0, ClaimedIs
    <3> QED
      BY <3>1, <3>2
  <2> HIDE DEF job
  <2>6. \A o \in Ids : jobs'[o] = jobs[o] \/ Loose(o)
    BY <1>0, <2>3, <2>4, ReleasedAreLoose
  <2>7. \A c \in new : now < c[2] /\ jobs'[c[1]].status = "leased" /\ jobs'[c[1]].expires = c[2]
    BY <1>0, <2>3, <2>4, <2>5
  <2>8. held' \subseteq held \cup new
    BY <2>1
  <2> HIDE DEF new
  <2> QED
    BY <1>0, <2>2, <2>6, <2>7, <2>8, HeldKept
<1>3. ASSUME NEW S \in SUBSET Ids, NEW new \in [S -> NewJobs(now)], Push(new) PROVE HeldInv'
  <2>1. \A id \in S : jobs[id].status = "none"
    BY <1>3, PersistentQueueConstants DEF Push, ExactInv, IndexInv, TypeOK
  <2>2. /\ jobs' = [id \in Ids |-> IF id \in S THEN new[id] ELSE jobs[id]]
        /\ now' = now /\ held' = held
    BY <1>3 DEF Push
  <2>3. \A id \in Ids : jobs'[id] = jobs[id] \/ Loose(id)
    BY <2>1, <2>2 DEF Loose
  <2> QED
    BY <1>0, <2>2, <2>3, NoneHeld
<1>4. ASSUME NEW limit \in BatchLimits, ClaimBatch(limit) PROVE HeldInv'
  <2> DEFINE C == Chosen(limit)
             R == Requeued(limit)
             ids == IdsOf(C)
             s == BatchScan(limit)
  <2>0. limit \in Nat \ {0} /\ s.chosen = C /\ s.requeued = R
    <3>1. limit \in Nat \ {0}
      BY QueueConstants
    <3>2. IndexInv
      BY <1>0
    <3>3. s.chosen = C /\ s.requeued = R
      BY <3>2, BatchFields
    <3> QED
      BY <3>1, <3>3
  <2> HIDE DEF C, R, s
  <2>1. PICK lease \in LeaseTimes, ack \in BOOLEAN :
          /\ jobs' = [id \in Ids |-> IF id \in IdsOf(R) THEN Released(jobs[id])
                                     ELSE IF id \in ids THEN Claimed(jobs[id], now, lease, ack)
                                     ELSE jobs[id]]
          /\ held' = held \cup {<<id, now + lease>> : id \in IF ack THEN {} ELSE ids}
    BY <1>4, <2>0 DEF ClaimBatch, s
  <2>2. now' = now /\ lease \in Nat /\ lease # 0
    BY <1>4, QueueConstants DEF ClaimBatch
  <2>3. C \subseteq Candidates(limit) /\ R \subseteq Candidates(limit) /\ C \cap R = {}
    BY DEF C, R, Chosen, Requeued
  <2>4. \A id \in IdsOf(R) \cup ids : id \in Ids /\ Loose(id)
    BY <1>0, <2>0, <2>3, CandidateFacts DEF IdsOf, Loose, Available
  <2>5. \A id \in Ids : jobs'[id] = jobs[id] \/ Loose(id)
    BY <2>1, <2>4
  <2>6. \A id \in Ids : /\ Claimed(jobs[id], now, lease, ack).status = IF ack THEN "completed" ELSE "leased"
                        /\ Claimed(jobs[id], now, lease, ack).expires = now + lease
    BY <1>0, <2>2, JobSteps DEF IndexInv, TypeOK
  <2> DEFINE new == {<<id, now + lease>> : id \in IF ack THEN {} ELSE ids}
  <2>7. \A c \in new : now < c[2] /\ jobs'[c[1]].status = "leased" /\ jobs'[c[1]].expires = c[2]
    <3> SUFFICES ASSUME ~ack, NEW id \in ids
                 PROVE  jobs'[id].status = "leased" /\ jobs'[id].expires = now + lease
      BY <1>0, <2>2
    <3>1. id \notin IdsOf(R)
      <4> SUFFICES ASSUME NEW c \in R, NEW d \in C, IdOf(c.key) = id, IdOf(d.key) = id PROVE FALSE
        BY DEF IdsOf
      <4>1. c = d
        BY <2>0, <2>3, CandidateUnique
      <4> QED
        BY <2>3, <4>1
    <3>2. jobs'[id] = Claimed(jobs[id], now, lease, ack) /\ id \in Ids
      BY <2>1, <2>4, <3>1
    <3> QED
      BY <2>6, <3>2
  <2>8. held' \subseteq held \cup new
    BY <2>1
  <2> HIDE DEF new
  <2> QED
    BY <1>0, <2>2, <2>5, <2>7, <2>8, HeldKept
<1>5. ASSUME NEW S \in SUBSET held, AckJobs(S) PROVE HeldInv'
  <2>1. \A id \in Ids : jobs'[id] = jobs[id] \/ \E c \in S : c[1] = id
    BY <1>5 DEF AckJobs
  <2> QED
    BY <1>0, <1>5, <2>1, AnswerKeepsHeld DEF AckJobs
<1>6. ASSUME NEW c \in held, NEW d \in Delays, NackJob(c, d) PROVE HeldInv'
  <2>1. \A id \in Ids : jobs'[id] = jobs[id] \/ \E e \in {c} : e[1] = id
    BY <1>6 DEF NackJob, ExactInv, IndexInv, TypeOK
  <2>2. {c} \in SUBSET held /\ held' = held \ {c} /\ now' = now
    BY <1>6 DEF NackJob
  <2> QED
    BY <1>0, <2>1, <2>2, AnswerKeepsHeld
<1>7. CASE Reopen \/ UNCHANGED vars \/ \E c \in held : CallIgnored(c)
  <2>1. jobs' = jobs /\ now' = now /\ held' \subseteq held
    BY <1>7 DEF Reopen, vars, store, CallIgnored
  <2> QED
    BY <1>0, <2>1, NoneHeld
<1>8. CASE Tick
  BY <1>8 DEF Tick, HeldInv, store
<1> QED
  BY <1>1, <1>2, <1>3, <1>4, <1>5, <1>6, <1>7, <1>8 DEF Next, OtherNext, ClaimAny

(* With workers that stop when their lease runs out, leases that last and   *)
(* ids pushed once, a running lease is exclusive: batch claims, failed      *)
(* claims and reopens never hand the job to a second worker.                *)
THEOREM RunningLeaseIsExclusive ==
    ASSUME MaxRepush = 0, LateCalls = FALSE, 0 \notin LeaseTimes
    PROVE  Spec => []LeaseExclusive
<1>1. Init => ExactInv /\ HeldInv
  BY InitExact DEF Init, HeldInv
<1>2. ExactInv /\ HeldInv /\ [Next]_vars => ExactInv' /\ HeldInv'
  BY NextExact, NextHeld
<1>3. HeldInv => LeaseExclusive
  BY DEF HeldInv, LeaseExclusive
<1> QED
  BY <1>1, <1>2, <1>3, PTL DEF Spec

-----------------------------------------------------------------------------
(* Single claims: the cursor is the first entry *)

SingleInv == ExactInv /\ cursor \in {Unset, First(ready)}

(* A cursor at the first entry, lowered to added keys, is at the first      *)
(* entry again.                                                             *)
LEMMA LoweredFirst ==
    ASSUME SingleInv, NEW keys \in SUBSET Keys
    PROVE  Lowered(keys) \in {Unset, First(ready \cup keys)}
<1>0. ready \in SUBSET Keys /\ (ready \cup keys) \in SUBSET Keys
  BY DEF SingleInv, ExactInv, IndexInv, TypeOK
<1>1. CASE cursor = Unset
  BY <1>1 DEF Lowered
<1>2. CASE cursor # Unset /\ ready = {}
  <2>1. cursor = End
    BY <1>2, FirstIsLeast DEF SingleInv
  <2>2. Lowered(keys) = First(keys)
    BY <1>2, <2>1 DEF Lowered
  <2>3. ready \cup keys = keys
    BY <1>2
  <2> QED
    BY <2>2, <2>3
<1>3. CASE cursor # Unset /\ ready # {}
  <2>1. cursor \in ready /\ cursor # End /\ \A o \in ready \ {cursor} : KeyLess(cursor, o)
    BY <1>0, <1>3, FirstIsLeast, KeysAreNoMarks DEF SingleInv
  <2> DEFINE S == keys \cup {cursor}
             f == First(S)
  <2>2. Lowered(keys) = f
    BY <1>3, <2>1 DEF Lowered
  <2>3. f \in S /\ \A o \in S \ {f} : KeyLess(f, o)
    <3>1. S \in SUBSET Keys /\ S # {}
      BY <1>0, <2>1
    <3> QED
      BY <3>1, FirstIsLeast
  <2> HIDE DEF f
  <2>4. f \in ready \cup keys /\ f \in Keys /\ cursor \in Keys
    BY <1>0, <2>1, <2>3
  <2>5. ASSUME NEW o \in (ready \cup keys) \ {f} PROVE KeyLess(f, o)
    <3>1. CASE o \in S
      BY <2>3, <2>5, <3>1
    <3>2. CASE o \notin S
      <4>1. KeyLess(cursor, o) /\ o \in Keys
        BY <1>0, <2>1, <2>5, <3>2
      <4>2. f = cursor \/ KeyLess(f, cursor)
        BY <2>3
      <4> QED
        BY <2>4, <4>1, <4>2, KeyOrder
    <3> QED
      BY <3>1, <3>2
  <2>6. First(ready \cup keys) = f
    BY <1>0, <2>4, <2>5, FirstUnique
  <2> QED
    BY <2>2, <2>6
<1> QED
  BY <1>1, <1>2, <1>3

(* A claim's scan sees the whole index. *)
LEMMA ScanSeesAll ==
    ASSUME SingleInv
    PROVE  Start = First(Index) /\ Reached = Index
<1>0. ExactInv /\ IndexInv /\ ExpiredKeys \in SUBSET Keys /\ Index \in SUBSET Keys
  BY IndexFacts DEF SingleInv, ExactInv
<1>1. Start = First(Index)
  BY <1>0, LoweredFirst DEF Start, Index
<1>2. CASE Index = {}
  BY <1>0, <1>1, <1>2, FirstIsLeast DEF Reached, Reach
<1>3. CASE Index # {}
  <2>1. Start \in Index /\ Start # End /\ \A o \in Index \ {Start} : KeyLess(Start, o)
    BY <1>0, <1>1, <1>3, FirstIsLeast
  <2>2. Reached = {Start} \cup {k \in Index : KeyLess(Start, k)}
    BY <2>1 DEF Reached, Reach
  <2>3. \A k \in Index : k \in Reached
    BY <2>1, <2>2
  <2>4. \A k \in Reached : k \in Index
    BY <2>1, <2>2
  <2>5. Reached = Index
    BY <2>3, <2>4
  <2> QED
    BY <1>1, <2>5
<1> QED
  BY <1>1, <1>2, <1>3

(* The next claim starts at the first entry that is left. *)
LEMMA FollowingIsFirst ==
    ASSUME SingleInv
    PROVE  Following = First(IF Target = End THEN Index ELSE Index \ {Target})
<1>0. ExactInv /\ IndexInv /\ Index \in SUBSET Keys /\ Reached = Index /\ Stale = {}
  BY IndexFacts, ScanSeesAll, ScanExact DEF SingleInv, ExactInv
<1>1. Delayed = First(Passed) /\ Passed \subseteq Index
  <2>1. Passed \ Stale = Passed
    BY <1>0
  <2> QED
    BY <1>0, <2>1 DEF Delayed, Passed
<1>2. CASE Target = End
  <2>1. Passed = Index
    BY <1>0, <1>2 DEF Passed
  <2> QED
    BY <1>1, <1>2, <2>1 DEF Following
<1>3. CASE Target # End
  <2>1. Target \in Index /\ Target \in Keys
    BY <1>0, <1>3, ScanFacts DEF Free
  <2>2. Passed = {k \in Index : KeyLess(k, Target)}
    BY <1>0, <1>3 DEF Passed
  <2> DEFINE Rest == Index \ {Target}
  <2>3. Rest \in SUBSET Keys
    BY <1>0
  <2>4. CASE Passed = {}
    <3>1. Delayed = End
      BY <1>1, <2>4, FirstIsLeast
    <3>2. {o \in Index : KeyLess(Target, o)} = Rest
      <4>1. ASSUME NEW o \in Index PROVE KeyLess(Target, o) <=> o # Target
        <5>1. o \in Keys /\ ~KeyLess(o, Target)
          BY <1>0, <2>2, <2>4
        <5> QED
          BY <2>1, <5>1, KeyOrder
      <4> QED
        BY <4>1
    <3> QED
      BY <1>3, <3>1, <3>2 DEF Following, Or, After
  <2>5. CASE Passed # {}
    <3>1. /\ Delayed \in Passed /\ Delayed # End
          /\ \A o \in Passed \ {Delayed} : KeyLess(Delayed, o)
      BY <1>0, <1>1, <2>5, FirstIsLeast
    <3>2. Delayed \in Keys /\ KeyLess(Delayed, Target) /\ Delayed \in Rest
      <4>1. Delayed \in Keys /\ KeyLess(Delayed, Target) /\ Delayed \in Index
        BY <1>0, <2>2, <3>1
      <4>2. Delayed # Target
        BY <2>1, <4>1, KeyOrder
      <4> QED
        BY <4>1, <4>2
    <3>3. ASSUME NEW o \in Rest \ {Delayed} PROVE KeyLess(Delayed, o)
      <4>1. o \in Keys /\ o \in Index /\ o # Target
        BY <1>0
      <4>2. KeyLess(o, Target) \/ KeyLess(Target, o)
        BY <2>1, <4>1, KeyOrder
      <4>3. CASE KeyLess(o, Target)
        BY <2>2, <3>1, <3>3, <4>1, <4>3
      <4>4. CASE KeyLess(Target, o)
        BY <2>1, <3>2, <4>1, <4>4, KeyOrder
      <4> QED
        BY <4>2, <4>3, <4>4
    <3>4. First(Rest) = Delayed
      BY <2>3, <3>2, <3>3, FirstUnique
    <3> QED
      BY <1>3, <3>1, <3>4 DEF Following, Or
  <2> QED
    BY <2>4, <2>5
<1> QED
  BY <1>2, <1>3

(* Inductive step: with single claims the cursor stays at the first         *)
(* entry.                                                                   *)
LEMMA NextSingle ==
    ASSUME MaxRepush = 0, BatchLimits = {}, SingleInv, [Next]_vars
    PROVE  SingleInv'
<1>0. ExactInv /\ ExactInv' /\ IndexInv'
  BY NextExact DEF SingleInv, ExactInv
<1>1. CASE ClaimNothing \/ ClaimFails
  <2>1. ready' = Index /\ cursor' = IF ClaimNothing THEN Following ELSE Start
    BY <1>0, <1>1, ExactRelease
  <2>2. ClaimNothing => Target = End
    BY <1>0, ScanIs DEF ClaimNothing, ExactInv
  <2> QED
    BY <1>0, <2>1, <2>2, FollowingIsFirst, ScanSeesAll DEF SingleInv
<1>2. CASE ClaimOne
  <2>1. ready' = Index \ {Target} /\ cursor' = Following
    BY <1>0, <1>2, ExactClaimOne
  <2>2. Target # End
    BY <1>0, <1>2, ScanIs DEF ClaimOne, ExactInv
  <2> QED
    BY <1>0, <2>1, <2>2, FollowingIsFirst DEF SingleInv
<1>3. ASSUME NEW S \in SUBSET Ids, NEW new \in [S -> NewJobs(now)], Push(new) PROVE SingleInv'
  <2>1. PICK keys \in SUBSET Keys : ready' = ready \cup keys /\ cursor' = Lowered(keys)
    BY <1>0, <1>3, ExactPush
  <2> QED
    BY <1>0, <2>1, LoweredFirst DEF SingleInv
<1>4. ASSUME NEW c \in held, NEW d \in Delays, NackJob(c, d) PROVE SingleInv'
  <2>1. CASE ready' = ready /\ cursor' = cursor
    BY <1>0, <2>1 DEF SingleInv
  <2>2. CASE \E keys \in SUBSET Keys : ready' = ready \cup keys /\ cursor' = Lowered(keys)
    BY <1>0, <2>2, LoweredFirst DEF SingleInv
  <2> QED
    BY <1>0, <1>4, <2>1, <2>2, ExactNack
<1>5. CASE \/ \E S \in SUBSET held : AckJobs(S)
           \/ \E c \in held : CallIgnored(c)
           \/ Tick \/ UNCHANGED vars
  <2>1. ready' = ready /\ cursor' = cursor
    BY <1>5 DEF AckJobs, CallIgnored, Tick, vars, store, caches
  <2> QED
    BY <1>0, <2>1 DEF SingleInv
<1>6. CASE Reopen
  BY <1>0, <1>6 DEF Reopen, SingleInv
<1> QED
  BY <1>1, <1>2, <1>3, <1>4, <1>5, <1>6 DEF Next, OtherNext, ClaimAny

(* Base case: the cursor of an empty queue is unset. *)
LEMMA InitSingle == Init => SingleInv
BY InitExact DEF Init, SingleInv

(* A cursor at the first entry hides no ready job. *)
LEMMA FirstCoversReady ==
    ASSUME SingleInv PROVE CursorSound
<1> SUFFICES ASSUME cursor # Unset, NEW id \in Ids, jobs[id].status = "ready"
             PROVE  /\ cursor # End
                    /\ cursor = ReadyKey(id, jobs[id]) \/ KeyLess(cursor, ReadyKey(id, jobs[id]))
  BY DEF CursorSound
<1>1. ReadyKey(id, jobs[id]) \in ready /\ ready \in SUBSET Keys
  BY DEF SingleInv, ExactInv, IndexInv, IndexesComplete, TypeOK
<1> QED
  BY <1>1, FirstIsLeast DEF SingleInv

(* With single claims and ids pushed once all three caches are exact,       *)
(* whatever expirations, nacks, late answers, failed claims and reopens     *)
(* moved them.                                                              *)
THEOREM SingleClaimsKeepCachesExact ==
    ASSUME MaxRepush = 0, BatchLimits = {}
    PROVE  Spec => []CachesExact
<1>1. Init => SingleInv
  BY InitSingle
<1>2. SingleInv /\ [Next]_vars => SingleInv'
  BY NextSingle
<1>3. SingleInv => CachesExact
  BY FirstCoversReady DEF SingleInv, ExactInv, CountersExact, Entries, CachesExact
<1> QED
  BY <1>1, <1>2, <1>3, PTL DEF Spec

(* A free job is in the index, and the scan finds it. *)
LEMMA FreeIsFound ==
    ASSUME SingleInv, NEW id \in Ids, Available(Js[id], now)
    PROVE  /\ ReadyKey(id, Js[id]) \in Free /\ Target \in Free
           /\ Target = ReadyKey(id, Js[id]) \/ KeyLess(Target, ReadyKey(id, Js[id]))
<1>0. IndexInv
  BY DEF SingleInv, ExactInv
<1>1. ReadyKey(id, Js[id]) \in Index /\ IdOf(ReadyKey(id, Js[id])) = id
  BY <1>0, JsFacts, ReadyKeyType DEF Available
<1>2. ReadyKey(id, Js[id]) \in Free
  BY <1>1, ScanSeesAll DEF Free
<1> QED
  BY <1>0, <1>2, ScanFacts

(* A claim that returns nothing finds nothing, with single claims and ids   *)
(* pushed once.                                                             *)
THEOREM EmptyClaims ==
    ASSUME MaxRepush = 0, BatchLimits = {}
    PROVE  Spec => EmptyClaimIsRight
<1>1. Init => SingleInv
  BY InitSingle
<1>2. SingleInv /\ [Next]_vars => SingleInv'
  BY NextSingle
<1>3. SingleInv => [ClaimNothing => \A id \in Ids : ~Available(Refreshed(jobs[id]), now)]_vars
  <2> SUFFICES ASSUME SingleInv, ClaimNothing, NEW id \in Ids, Available(Refreshed(jobs[id]), now)
               PROVE  FALSE
    OBVIOUS
  <2>1. Refreshed(jobs[id]) = Js[id]
    BY DEF Refreshed, Js, Expired
  <2>2. Target # End
    <3>1. Target \in Free /\ Free \subseteq Keys
      BY <2>1, FreeIsFound, ScanFacts DEF Free, SingleInv, ExactInv
    <3> QED
      BY <3>1, KeysAreNoMarks
  <2>3. Scan.target = Target
    BY ScanIs DEF SingleInv, ExactInv
  <2> QED
    BY <2>2, <2>3 DEF ClaimNothing
<1> QED
  BY <1>1, <1>2, <1>3, PTL DEF Spec, EmptyClaimIsRight

-----------------------------------------------------------------------------
(* Single claims implement the plain queue *)

(* The plain queue releases the same leases. *)
LEMMA ExpireIs ==
    ASSUME IndexInv PROVE JQ!Expire(jobs) = Js
BY DEF JQ!Expire, Js, Expired, JQ!LeaseExpired, LeaseExpired, JQ!Released, Released, JQ!None, None

(* A claim takes the job the plain queue would give. *)
LEMMA ClaimOneRefines ==
    ASSUME SingleInv, ClaimOne PROVE JQ!QNext
<1>0. IndexInv /\ ExactInv
  BY DEF SingleInv, ExactInv
<1> DEFINE id == IdOf(Target)
<1>1. PICK lease \in LeaseTimes, ack \in BOOLEAN :
        jobs' = [Js EXCEPT ![id] = Claimed(Refreshed(@), now, lease, ack)]
  BY <1>0, ScanIs DEF ClaimOne
<1>2. now' = now /\ Target # End /\ reply' = {Target}
  BY <1>0, ScanIs DEF ClaimOne
<1>3. id \in Ids /\ Available(Js[id], now) /\ Target = ReadyKey(id, Js[id]) /\ Js[id] \in Job
  BY <1>0, <1>2, TargetJob, JsFacts, ScanFacts, ScanExact DEF Free
<1> DEFINE free == {o \in Ids : Available(Js[o], now)}
<1>4. jobs' = [o \in Ids |-> IF o \in {id} THEN Claimed(Js[o], now, lease, ack) ELSE Js[o]]
  BY <1>0, <1>1, <1>3, JsFacts
<1>5. {IdOf(k) : k \in reply'} = {id}
  BY <1>2
<1> HIDE DEF id
<1>6. {id} \in SUBSET free /\ Cardinality({id}) = 1
  BY <1>3, FS_Singleton
<1>7. ASSUME NEW o \in free PROVE Js[id].prio <= Js[o].prio
  <2>1. Target = ReadyKey(o, Js[o]) \/ KeyLess(Target, ReadyKey(o, Js[o]))
    BY FreeIsFound
  <2>2. Js[o] \in Job /\ Js[id] \in Job
    BY <1>0, <1>3, JsFacts
  <2>3. /\ Target[1] = Js[id].prio /\ ReadyKey(o, Js[o])[1] = Js[o].prio
    BY <1>3 DEF ReadyKey
  <2>4. Js[o].prio \in Nat /\ Js[id].prio \in Nat
    BY <2>2 DEF Job
  <2> QED
    BY <2>1, <2>3, <2>4 DEF KeyLess
<1>8. JQ!QTake({id}, Js, 1, lease, ack)
  <2>1. free = {o \in Ids : JQ!Available(Js[o], now)}
    BY DEF JQ!Available, Available
  <2>2. jobs' = [o \in Ids |-> IF o \in {id} THEN JQ!Claimed(Js[o], now, lease, ack) ELSE Js[o]]
    BY <1>4 DEF JQ!Claimed, Claimed
  <2>3. \A i \in {id}, o \in free \ {id} : Js[i].prio <= Js[o].prio
    BY <1>7
  <2>4. JQ!Cardinality({id}) = 1
    BY <1>6 DEF JQ!Cardinality, Cardinality
  <2> HIDE DEF free
  <2> QED
    BY <1>2, <1>5, <1>6, <2>1, <2>2, <2>3, <2>4 DEF JQ!QTake
<1>9. JQ!QClaim(1, lease, ack)
  BY <1>0, <1>3, <1>8, ExpireIs DEF JQ!QClaim
<1> QED
  BY <1>9 DEF JQ!QNext

(* Every step is a step of the plain queue or leaves it alone. *)
LEMMA StepRefines ==
    ASSUME MaxRepush = 0, BatchLimits = {}, SingleInv, [Next]_vars
    PROVE  [JQ!QNext]_<<jobs, now, {IdOf(k) : k \in reply}>>
<1>0. IndexInv /\ ExactInv /\ IndexInv'
  BY NextIndex DEF SingleInv, ExactInv
<1>e. reply' = {} => {IdOf(k) : k \in reply'} = {}
  OBVIOUS
<1>1. CASE ClaimNothing \/ ClaimFails
  <2>1. jobs' = Js /\ now' = now /\ reply' = {}
    BY <1>0, <1>1, ScanIs DEF ClaimNothing, ClaimFails
  <2> QED
    BY <1>0, <1>e, <2>1, ExpireIs DEF JQ!QNext, JQ!QClaimFails
<1>2. CASE ClaimOne
  BY <1>2, ClaimOneRefines
<1>3. ASSUME NEW S \in SUBSET Ids, NEW new \in [S -> NewJobs(now)], Push(new) PROVE JQ!QNext
  <2>1. \A id \in S : jobs[id].status = "none"
    BY <1>0, <1>3, ExactPush
  <2>2. S \in SUBSET {id \in Ids : jobs[id].status = "none"}
    BY <2>1
  <2>3. /\ jobs' = [id \in Ids |-> IF id \in S THEN new[id] ELSE jobs[id]]
        /\ reply' = {} /\ now' = now
    BY <1>3 DEF Push
  <2>4. JQ!NewJobs(now) = NewJobs(now)
    BY DEF JQ!NewJobs, NewJobs, JQ!NewJob, NewJob, JQ!None, None
  <2>5. JQ!QPush
    BY <1>e, <2>2, <2>3, <2>4 DEF JQ!QPush
  <2> QED
    BY <2>5 DEF JQ!QNext
<1>4. ASSUME NEW S \in SUBSET held, AckJobs(S) PROVE JQ!QNext
  <2> DEFINE ids == {c[1] : c \in S}
  <2>1. ids \in SUBSET Ids /\ \A id \in ids : jobs[id].status = "leased"
    BY <1>0, <1>4 DEF IndexInv, TypeOK, AckJobs
  <2>2. /\ jobs' = [id \in Ids |-> IF id \in ids THEN Acked(jobs[id]) ELSE jobs[id]]
        /\ reply' = {} /\ now' = now
    BY <1>4 DEF AckJobs
  <2> HIDE DEF ids
  <2>3. JQ!QAck(ids)
    BY <1>e, <2>1, <2>2 DEF JQ!QAck, JQ!Acked, Acked
  <2> QED
    BY <2>1, <2>3 DEF JQ!QNext
<1>5. ASSUME NEW c \in held, NEW d \in Delays, NackJob(c, d) PROVE JQ!QNext
  <2>1. c[1] \in Ids
    BY <1>0 DEF IndexInv, TypeOK
  <2>2. JQ!QNack(c[1], d)
    BY <1>e, <1>5 DEF NackJob, JQ!QNack, JQ!Nacked, Nacked, JQ!None, None
  <2> QED
    BY <2>1, <2>2 DEF JQ!QNext
<1>6. CASE Tick
  BY <1>e, <1>6 DEF Tick, store, JQ!QNext, JQ!QTick
<1>7. CASE Reopen \/ \E c \in held : CallIgnored(c)
  BY <1>e, <1>7 DEF Reopen, CallIgnored, store, JQ!QNext, JQ!QOther
<1>8. CASE UNCHANGED vars
  BY <1>8 DEF vars, store
<1> QED
  BY <1>1, <1>2, <1>3, <1>4, <1>5, <1>6, <1>7, <1>8 DEF Next, OtherNext, ClaimAny

(* With single claims and ids pushed once the engine, its indexes, cursor   *)
(* and caches included, implements the plain priority queue.                *)
THEOREM ImplementsJobQueue ==
    ASSUME MaxRepush = 0, BatchLimits = {}
    PROVE  Spec => RefinesJobQueue
<1>1. Init => SingleInv
  BY InitSingle
<1>2. SingleInv /\ [Next]_vars => SingleInv'
  BY NextSingle
<1>3. Init => JQ!QInit
  BY DEF Init, JQ!QInit, JQ!NoJob, NoJob, JQ!None, None
<1>4. SingleInv /\ [Next]_vars => [JQ!QNext]_<<jobs, now, {IdOf(k) : k \in reply}>>
  BY StepRefines
<1> QED
  BY <1>1, <1>2, <1>3, <1>4, PTL DEF Spec, RefinesJobQueue, JQ!QSpec

-----------------------------------------------------------------------------
(* A completed job never runs again, as long as its id is not pushed again: *)
(* claims take only ready and expired jobs, answers only leased ones.       *)
THEOREM CompletedStays ==
    ASSUME MaxRepush = 0
    PROVE  Spec => CompletedIsFinal
<1> DEFINE Kept == \A id \in Ids : jobs[id].status = "completed" => jobs'[id].status = "completed"
<1>1. ASSUME IndexInv, [Next]_vars, NEW id \in Ids, jobs[id].status = "completed"
      PROVE  jobs'[id].status = "completed"
  <2>0. Js[id] = jobs[id]
    BY <1>1 DEF Js, Expired, LeaseExpired
  <2>1. CASE ClaimNothing \/ ClaimFails
    <3>1. jobs' = Js
      BY <1>1, <2>1, ScanIs DEF ClaimNothing, ClaimFails
    <3> QED
      BY <1>1, <2>0, <3>1
  <2>2. CASE ClaimOne
    <3>1. PICK lease, ack : jobs' = [Js EXCEPT ![IdOf(Target)] = Claimed(Refreshed(@), now, lease, ack)]
      BY <1>1, <2>2, ScanIs DEF ClaimOne
    <3>2. Target # End
      BY <1>1, <2>2, ScanIs DEF ClaimOne
    <3>3. Js[IdOf(Target)].status = "ready" /\ Js \in [Ids -> Job]
      BY <1>1, <3>2, TargetJob, JsFacts
    <3>4. IdOf(Target) # id
      BY <1>1, <2>0, <3>3
    <3> QED
      BY <1>1, <2>0, <3>1, <3>3, <3>4
  <2>3. ASSUME NEW S \in SUBSET Ids, NEW new \in [S -> NewJobs(now)], Push(new)
        PROVE  jobs'[id].status = "completed"
    <3>1. \A o \in S : jobs[o].status = "none"
      BY <1>1, <2>3, PersistentQueueConstants DEF Push, IndexInv, TypeOK
    <3>2. jobs' = [o \in Ids |-> IF o \in S THEN new[o] ELSE jobs[o]]
      BY <2>3 DEF Push
    <3> QED
      BY <1>1, <3>1, <3>2
  <2>4. ASSUME NEW limit \in BatchLimits, ClaimBatch(limit) PROVE jobs'[id].status = "completed"
    <3> DEFINE s == BatchScan(limit)
    <3>1. limit \in Nat \ {0} /\ s.chosen = Chosen(limit) /\ s.requeued = Requeued(limit)
      <4>1. limit \in Nat \ {0}
        BY QueueConstants
      <4>2. s.chosen = Chosen(limit) /\ s.requeued = Requeued(limit)
        BY <1>1, BatchFields
      <4> QED
        BY <4>1, <4>2
    <3>2. PICK lease, ack :
            jobs' = [o \in Ids |-> IF o \in IdsOf(s.requeued) THEN Released(jobs[o])
                                   ELSE IF o \in IdsOf(s.chosen) THEN Claimed(jobs[o], now, lease, ack)
                                   ELSE jobs[o]]
      BY <2>4 DEF ClaimBatch
    <3>3. Chosen(limit) \subseteq Candidates(limit) /\ Requeued(limit) \subseteq Candidates(limit)
      BY DEF Chosen, Requeued
    <3>4. \A c \in Candidates(limit) : IdOf(c.key) # id
      BY <1>1, <3>1, CandidateFacts DEF Available, LeaseExpired
    <3>5. id \notin IdsOf(s.requeued) /\ id \notin IdsOf(s.chosen)
      BY <3>1, <3>3, <3>4 DEF IdsOf
    <3> HIDE DEF s
    <3> QED
      BY <1>1, <3>2, <3>5
  <2>5. ASSUME NEW S \in SUBSET held, AckJobs(S) PROVE jobs'[id].status = "completed"
    BY <1>1, <2>5, JobSteps DEF AckJobs, IndexInv, TypeOK, Acked, Job
  <2>6. ASSUME NEW c \in held, NEW d \in Delays, NackJob(c, d) PROVE jobs'[id].status = "completed"
    <3>1. c[1] # id
      BY <1>1, <2>6 DEF NackJob
    <3> QED
      BY <1>1, <2>6, <3>1 DEF NackJob, IndexInv, TypeOK
  <2>7. CASE Tick \/ Reopen \/ UNCHANGED vars \/ \E c \in held : CallIgnored(c)
    BY <1>1, <2>7 DEF Tick, Reopen, vars, CallIgnored, store
  <2> QED
    BY <1>1, <2>1, <2>2, <2>3, <2>4, <2>5, <2>6, <2>7 DEF Next, OtherNext, ClaimAny
<1>2. IndexInv /\ [Next]_vars => [Kept]_vars
  BY <1>1
<1> QED
  BY <1>2, IndexInvariant, PTL DEF Spec, CompletedIsFinal

=============================================================================
