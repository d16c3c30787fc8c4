--------------------------- MODULE PersistentQueue ---------------------------
(***************************************************************************)
(* One queue of the persistent engine (crates/thingd/src/persistent.rs,    *)
(* impl QueueStore for PersistentEngine): the job records, the ready and   *)
(* the lease index in ThingDB, and the three caches in memory.             *)
(*                                                                         *)
(* Every operation runs under the engine lock and writes atomic ThingDB    *)
(* batches, so an operation is one action.  claim_job_with_options commits *)
(* several batches one after the other; ClaimFails stops between them.     *)
(***************************************************************************)
EXTENDS QueueModel

CONSTANTS
    MaxPush,      \* bound on the jobs of one push_jobs_batch
    MaxRepush,    \* bound on the pushes of an id that is already there
    LateCalls,    \* may a worker ack or nack after its lease ran out
    MaxFailures   \* bound on the claims that fail on a storage error

ASSUME PersistentQueueConstants ==
    /\ MaxPush \in Nat \ {0}
    /\ MaxRepush \in Nat
    /\ LateCalls \in BOOLEAN
    /\ MaxFailures \in Nat

VARIABLES
    jobs,              \* keyspace queue_jobs
    ready,             \* keyspace ready_jobs: the keys
    leases,            \* keyspace lease_jobs: <<expiry, id>>
    leaseCount,        \* queue_lease_counts
    leaseExpirations,  \* queue_lease_expirations: expiry -> how many
    cursor,            \* queue_ready_cursors
    now,               \* unix_timestamp_millis
    reply,             \* the ready keys of the jobs the claim just made returned
    held,              \* claims their worker may still answer: <<id, expiry>>
    failures,          \* how many claims have failed
    repushed           \* how many pushes found their id taken

store == <<jobs, ready, leases>>
caches == <<leaseCount, leaseExpirations, cursor>>
bounded == <<failures, repushed>>
vars == <<store, caches, now, reply, held, bounded>>

(* Ready keys: reversed priority, created_at, id. *)
Keys == Nat \X Nat \X Nat
ReadyKey(id, j) == <<j.prio, j.created, id>>
IdOf(key) == key[3]
MutKeyLess(a, b) == a[2] < b[2] \/ (a[2] = b[2] /\ a[3] < b[3])
KeyLess(a, b) ==
    \/ a[1] < b[1]
    \/ a[1] = b[1] /\ a[2] < b[2]
    \/ a[1] = b[1] /\ a[2] = b[2] /\ a[3] < b[3]

(* The cached cursor: not cached, cached as "no entry", or an entry. *)
Unset == <<"unset">>
End == <<"end">>

First(S) ==
    IF S = {} THEN End
    ELSE CHOOSE k \in S : \A o \in S \ {k} : KeyLess(k, o)

Last(S) == CHOOSE k \in S : \A o \in S \ {k} : KeyLess(o, k)

(* first_prefix_after *)
After(k, S) == First({o \in S : KeyLess(k, o)})

(* Option::or *)
Or(a, b) == IF a = End THEN b ELSE a

SatSub(a, b) == IF a > b THEN a - b ELSE 0

Times == 0..(MaxNow + IF LeaseTimes = {} THEN 0
                      ELSE CHOOSE l \in LeaseTimes : \A o \in LeaseTimes : o <= l)

Init ==
    /\ jobs = [id \in Ids |-> NoJob]
    /\ ready = {} /\ leases = {}
    /\ leaseCount = 0
    /\ leaseExpirations = [t \in Times |-> 0]
    /\ cursor = Unset
    /\ now = 0 /\ reply = {} /\ held = {}
    /\ failures = 0 /\ repushed = 0

-----------------------------------------------------------------------------
(* The caches *)

(* apply_queue_lease_delta and apply_queue_lease_expiration_delta, for a    *)
(* set of removed lease entries and n new leases that expire at time t.     *)
LeaseCountAfter(removed, n) == SatSub(leaseCount, Cardinality(removed)) + n
ExpirationsAfter(removed, t, n) ==
    [u \in Times |->
        SatSub(leaseExpirations[u], Cardinality({l \in removed : l[1] = u}))
            + IF u = t THEN n ELSE 0]

(* cache_queue_ready_min: a new ready key lowers a cached cursor. *)
MutLowered(keys) == cursor
Lowered(keys) ==
    IF cursor = Unset THEN Unset
    ELSE First(keys \cup IF cursor = End THEN {} ELSE {cursor})

MutHasExpiredLeases ==
    \E t \in Times : leaseExpirations[t] > 0 /\ t < now
(* queue_has_expired_leases *)
HasExpiredLeases ==
    LET T == {t \in Times : leaseExpirations[t] > 0}
    IN  IF T = {} THEN leaseCount > 0 ELSE \E t \in T : t <= now

(* The lease entries a claim looks at. *)
DueLeases ==
    IF HasExpiredLeases THEN {l \in leases : l[1] <= now} ELSE {}

MutLeaseIndexOf(js) ==
    {<<js[id].expires, id>> :
        id \in {i \in Ids : js[i].status = "leased" /\ js[i].expires > now}}
(* rebuild_lease_index *)
LeaseIndexOf(js) ==
    {<<js[id].expires, id>> : id \in {i \in Ids : js[i].status = "leased"}}

-----------------------------------------------------------------------------
(* push_job and push_jobs_batch *)
Push(new) ==
    /\ \/ /\ \A id \in DOMAIN new : jobs[id].status = "none"
          /\ UNCHANGED repushed
       \/ /\ \E id \in DOMAIN new : jobs[id].status # "none"
          /\ repushed < MaxRepush /\ repushed' = repushed + 1
    /\ LET keys == {ReadyKey(id, new[id]) : id \in DOMAIN new}
       IN  /\ jobs' = [id \in Ids |-> IF id \in DOMAIN new THEN new[id] ELSE jobs[id]]
           /\ ready' = ready \cup keys
           /\ cursor' = Lowered(keys)
    /\ reply' = {}
    /\ UNCHANGED <<leases, leaseCount, leaseExpirations, now, held, failures>>

-----------------------------------------------------------------------------
(* claim_job_with_options *)

(* The entries a scan can visit, from its start. *)
Reach(start, S) ==
    IF start = End THEN {} ELSE {start} \cup {k \in S : KeyLess(start, k)}

(* A job found under a ready key counts as ready if its lease ran out. *)
Refreshed(j) == IF LeaseExpired(j, now) THEN Released(j) ELSE j

(* One claim: the jobs and the ready index once expired leases are released *)
(* (the first batch it commits), where its scan of the ready index starts   *)
(* (first_queue_ready_entry), the entry it takes, the stale entries it      *)
(* removes on the way and the first entry it passes because it is delayed.  *)
Scan ==
    LET due == DueLeases
        expired == {id \in Ids : /\ \E l \in due : l[2] = id
                                 /\ LeaseExpired(jobs[id], now)}
        keys == {ReadyKey(id, jobs[id]) : id \in expired}
        js == [id \in Ids |-> IF id \in expired THEN Released(jobs[id]) ELSE jobs[id]]
        index == ready \cup keys
        start == IF Lowered(keys) = Unset THEN First(index) ELSE Lowered(keys)
        reach == Reach(start, index)
        target == First({k \in reach : Available(Refreshed(js[IdOf(k)]), now)})
        passed == {k \in reach : target = End \/ KeyLess(k, target)}
        stale == {k \in passed : Refreshed(js[IdOf(k)]).status # "ready"}
    IN  [due |-> due, jobs |-> js, ready |-> index, start |-> start, target |-> target,
         stale |-> stale, delayed |-> First(passed \ stale)]

MutNextCursor(s) == IF s.target = End THEN End ELSE After(s.target, s.ready)
(* Where the next claim starts. *)
NextCursor(s) ==
    IF s.target = End THEN s.delayed
    ELSE Or(s.delayed, After(s.target, s.ready))

ClaimNothing ==
    LET s == Scan
    IN  /\ s.target = End
        /\ jobs' = s.jobs
        /\ ready' = s.ready \ s.stale
        /\ leases' = leases \ s.due
        /\ leaseCount' = LeaseCountAfter(s.due, 0)
        /\ leaseExpirations' = ExpirationsAfter(s.due, 0, 0)
        /\ cursor' = NextCursor(s)
        /\ reply' = {}
        /\ UNCHANGED <<now, held, bounded>>

(* One job is leased, or completed at once by claim_and_ack. *)
ClaimOne ==
    LET s == Scan
        id == IdOf(s.target)
    IN  /\ s.target # End
        /\ \E lease \in LeaseTimes, ack \in BOOLEAN :
              LET t == now + lease
                  n == IF ack THEN 0 ELSE 1
              IN  /\ jobs' = [s.jobs EXCEPT ![id] = Claimed(Refreshed(@), now, lease, ack)]
                  /\ leases' = (leases \ s.due) \cup IF ack THEN {} ELSE {<<t, id>>}
                  /\ leaseCount' = LeaseCountAfter(s.due, n)
                  /\ leaseExpirations' = ExpirationsAfter(s.due, t, n)
                  /\ held' = held \cup IF ack THEN {} ELSE {<<id, t>>}
        /\ ready' = s.ready \ (s.stale \cup {s.target})
        /\ cursor' = NextCursor(s)
        /\ reply' = {s.target}
        /\ UNCHANGED <<now, bounded>>

(* A claim that fails: the commit of a stale entry or of the claim itself   *)
(* is refused, and what was committed before it stays.                      *)
ClaimFails ==
    LET s == Scan
    IN  /\ failures < MaxFailures /\ failures' = failures + 1
        /\ \E done \in SUBSET s.stale :
              /\ \A k \in done, o \in s.stale \ done : KeyLess(k, o)
              /\ done # s.stale \/ s.target # End
              /\ ready' = s.ready \ done
              /\ cursor' = IF done = {} THEN s.start ELSE After(Last(done), s.ready)
        /\ jobs' = s.jobs
        /\ leases' = leases \ s.due
        /\ leaseCount' = LeaseCountAfter(s.due, 0)
        /\ leaseExpirations' = ExpirationsAfter(s.due, 0, 0)
        /\ reply' = {}
        /\ UNCHANGED <<now, held, repushed>>

-----------------------------------------------------------------------------
(* claim_batch_atomic: one scan over leases and ready entries, one batch *)

(* What competes for the places of a batch: ready entries, which have no    *)
(* lease, and expired leases; ordered by ready key.                         *)
CandidateLess(a, b) ==
    KeyLess(a.key, b.key) \/ (a.key = b.key /\ a.lease[1] < b.lease[1])
KeysOf(C) == {c.key : c \in C}
IdsOf(C) == {IdOf(c.key) : c \in C}

(* One batch claim: the stale ready entries it removes, the jobs it takes,  *)
(* the expired ones it puts back for want of a place, and the entry at      *)
(* which the next claim starts: the first delayed entry, else the entry     *)
(* behind the scan, unless a job put back comes before.                     *)
BatchScan(limit) ==
    LET due == DueLeases
        reach == Reach(IF cursor \in {Unset, End} THEN First(ready) ELSE cursor, ready)
        avail == {k \in reach : Available(jobs[IdOf(k)], now)}
        taken == {k \in avail : Cardinality({o \in avail : KeyLess(o, k)}) < limit}
        full == Cardinality(taken) = limit
        passed == {k \in reach \ taken : full => KeyLess(k, Last(taken))}
        stale == {k \in passed : jobs[IdOf(k)].status # "ready"}
        candidates ==
            {[key |-> k, lease |-> <<None, IdOf(k)>>] : k \in taken} \cup
            {[key |-> ReadyKey(l[2], jobs[l[2]]), lease |-> l] :
                l \in {d \in due : LeaseExpired(jobs[d[2]], now)}}
        chosen == {c \in candidates :
                      Cardinality({d \in candidates : CandidateLess(d, c)}) < limit}
        requeued == {c \in candidates \ chosen : c.lease[1] # None}
        next == Or(First(passed \ stale),
                   IF full THEN After(Last(taken), ready) ELSE End)
    IN  [due |-> due, stale |-> stale, chosen |-> chosen, requeued |-> requeued,
         cursor |-> First(KeysOf(requeued) \cup ({next} \ {End}))]

(* The code takes the expirations it uncounts from the job records; a lease *)
(* entry differs from its record only as an orphan of a job pushed again,   *)
(* and then both times have passed and every due entry goes.                *)
ClaimBatch(limit) ==
    LET s == BatchScan(limit)
        ids == IdsOf(s.chosen)
    IN  /\ \E lease \in LeaseTimes, ack \in BOOLEAN :
              LET t == now + lease
                  leased == IF ack THEN {} ELSE ids
                  n == IF ack THEN 0 ELSE Cardinality(s.chosen)
              IN  /\ jobs' = [id \in Ids |->
                                IF id \in IdsOf(s.requeued) THEN Released(jobs[id])
                                ELSE IF id \in ids THEN Claimed(jobs[id], now, lease, ack)
                                ELSE jobs[id]]
                  /\ leases' = (leases \ s.due) \cup {<<t, id>> : id \in leased}
                  /\ leaseCount' = LeaseCountAfter(s.due, n)
                  /\ leaseExpirations' = ExpirationsAfter(s.due, t, n)
                  /\ held' = held \cup {<<id, t>> : id \in leased}
        /\ ready' = (ready \ (s.stale \cup KeysOf(s.chosen))) \cup KeysOf(s.requeued)
        /\ cursor' = s.cursor
        /\ reply' = KeysOf(s.chosen)
        /\ UNCHANGED <<now, bounded>>

-----------------------------------------------------------------------------
(* ack_job, ack_jobs, nack_job_with_options: called by a worker for a job   *)
(* it claimed, whatever has become of the lease meanwhile.                  *)

LeaseOf(id) == <<jobs[id].expires, id>>

AckJobs(S) ==
    /\ S # {} /\ S \subseteq held
    /\ \A c \in S : jobs[c[1]].status = "leased"
    /\ \A c, d \in S : c[1] = d[1] => c = d
    /\ LET ids == {c[1] : c \in S}
           removed == {LeaseOf(id) : id \in ids}
       IN  /\ jobs' = [id \in Ids |-> IF id \in ids THEN Acked(jobs[id]) ELSE jobs[id]]
           /\ leases' = leases \ removed
           /\ leaseCount' = LeaseCountAfter(removed, 0)
           /\ leaseExpirations' = ExpirationsAfter(removed, 0, 0)
    /\ held' = held \ S
    /\ reply' = {}
    /\ UNCHANGED <<ready, cursor, now, bounded>>

NackJob(c, delay) ==
    /\ c \in held
    /\ LET id == c[1]
           nacked == Nacked(jobs[id], now, delay)
           keys == IF nacked.status = "ready" THEN {ReadyKey(id, nacked)} ELSE {}
       IN  /\ jobs[id].status = "leased"
           /\ jobs' = [jobs EXCEPT ![id] = nacked]
           /\ leases' = leases \ {LeaseOf(id)}
           /\ leaseCount' = LeaseCountAfter({LeaseOf(id)}, 0)
           /\ leaseExpirations' = ExpirationsAfter({LeaseOf(id)}, 0, 0)
           /\ ready' = ready \cup keys
           /\ cursor' = IF keys = {} THEN cursor ELSE Lowered(keys)
    /\ held' = held \ {c}
    /\ reply' = {}
    /\ UNCHANGED <<now, bounded>>

(* The job is not leased any more: the call returns None. *)
CallIgnored(c) ==
    /\ c \in held
    /\ jobs[c[1]].status # "leased"
    /\ held' = held \ {c}
    /\ reply' = {}
    /\ UNCHANGED <<store, caches, now, bounded>>

-----------------------------------------------------------------------------
(* Time passes.  A worker may die at any time and never answer; a careful   *)
(* one does not answer once its lease has run out.                          *)
Tick ==
    /\ now < MaxNow
    /\ now' = now + 1
    /\ held' = {c \in held : LateCalls \/ now' < c[2]}
    /\ reply' = {}
    /\ UNCHANGED <<store, caches, bounded>>

MutReopen ==
    /\ jobs' = [id \in Ids |-> IF jobs[id].status = "leased" THEN Released(jobs[id])
                              ELSE jobs[id]]
    /\ ready' = ready \cup {ReadyKey(id, jobs[id]) :
                               id \in {i \in Ids : jobs[i].status = "leased"}}
    /\ leases' = {} /\ leaseCount' = 0
    /\ leaseExpirations' = [t \in Times |-> 0]
    /\ cursor' = Unset
    /\ reply' = {}
    /\ UNCHANGED <<now, held, bounded>>
(* The engine is closed, or crashes, and is opened again. *)
Reopen ==
    /\ leases' = LeaseIndexOf(jobs)
    /\ leaseCount' = Cardinality(leases')
    /\ leaseExpirations' = [t \in Times |-> Cardinality({l \in leases' : l[1] = t})]
    /\ cursor' = Unset
    /\ reply' = {}
    /\ UNCHANGED <<jobs, ready, now, held, bounded>>

ClaimAny == ClaimNothing \/ ClaimOne

OtherNext ==
    \/ \E S \in SUBSET Ids : /\ S # {} /\ Cardinality(S) <= MaxPush
                             /\ \E new \in [S -> NewJobs(now)] : Push(new)
    \/ ClaimFails
    \/ \E n \in BatchLimits : ClaimBatch(n)
    \/ \E S \in SUBSET held : AckJobs(S)
    \/ \E c \in held : CallIgnored(c)
    \/ \E c \in held, d \in Delays : NackJob(c, d)
    \/ Tick
    \/ Reopen

Next == ClaimAny \/ OtherNext

Spec == Init /\ [][Next]_vars

(* Workers keep polling: again and again a claim would find nothing, or one *)
(* returns a job.  This is weak fairness of ClaimOne, with its guard for    *)
(* ENABLED.                                                                 *)
PollSpec ==
    /\ Spec
    /\ []<>(Scan.target = End) \/ []<><<reply' # {}>>_vars

-----------------------------------------------------------------------------
(* Properties *)

(* Every variable keeps its type: records, index keys, caches and cursor.   *)
TypeOK ==
    /\ jobs \in [Ids -> Job]
    /\ ready \subseteq Keys /\ \A k \in ready : IdOf(k) \in Ids
    /\ leases \subseteq Times \X Ids
    /\ leaseCount \in Nat
    /\ leaseExpirations \in [Times -> Nat]
    /\ cursor \in Keys \cup {Unset, End}
    /\ now \in 0..MaxNow
    /\ reply \subseteq Keys
    /\ held \subseteq Ids \X Times
    /\ failures \in 0..MaxFailures /\ repushed \in 0..MaxRepush

(* Nothing claimable is lost from the indexes: a ready job has its ready    *)
(* key, a leased job its lease entry, whatever sequence of pushes, claims,  *)
(* expirations, nacks, failed claims and reopens led here.                  *)
IndexesComplete ==
    \A id \in Ids :
        /\ jobs[id].status = "ready" => ReadyKey(id, jobs[id]) \in ready
        /\ jobs[id].status = "leased" => LeaseOf(id) \in leases

(* queue_has_expired_leases never hides an expired lease from a claim, even *)
(* after the saturating updates of both lease caches.                       *)
NoExpiredLeaseMissed ==
    (\E l \in leases : l[1] <= now) => HasExpiredLeases

(* The cached cursor only skips entries that were removed: every job that   *)
(* is ready in the index is at or behind the cursor.                        *)
CursorSound ==
    cursor # Unset =>
        \A id \in Ids : jobs[id].status = "ready" =>
            /\ cursor # End
            /\ cursor = ReadyKey(id, jobs[id]) \/ KeyLess(cursor, ReadyKey(id, jobs[id]))

(* With single claims all three caches are right: the cursor passes only    *)
(* removed entries, and the lease counters count exactly the entries of the *)
(* lease index, whatever pushes, claims, expirations, nacks, failed claims  *)
(* and reopens moved them.                                                  *)
CachesExact ==
    /\ CursorSound
    /\ leaseCount = Cardinality(leases)
    /\ \A t \in Times : leaseExpirations[t] = Cardinality({l \in leases : l[1] = t})

(* A worker whose lease is running is the only one that has the job: the    *)
(* job stays leased to it until the worker answers or the lease runs out.   *)
LeaseExclusive ==
    \A c \in held : now < c[2] => jobs[c[1]].status = "leased" /\ jobs[c[1]].expires = c[2]

(* A completed job never runs again, though its push may be retried. *)
CompletedIsFinal ==
    [][\A id \in Ids : jobs[id].status = "completed" => jobs'[id].status = "completed"]_vars

(* A claim that returns nothing finds nothing: no job is available, not     *)
(* even one whose lease has just run out, wherever the cursor stood.        *)
EmptyClaimIsRight ==
    [][ClaimNothing => \A id \in Ids : ~Available(Refreshed(jobs[id]), now)]_vars

(* A claim leaves no available job unclaimed that is more urgent than one   *)
(* it returned: with the indexes, the cursor and the caches the engine      *)
(* still is the plain queue.                                                *)
JQ == INSTANCE JobQueue WITH reply <- {IdOf(k) : k \in reply}
RefinesJobQueue == JQ!QSpec

(* An available job does not stay ready for ever while workers poll. *)
ReadyIsClaimed ==
    \A id \in Ids : Available(jobs[id], now) ~> jobs[id].status # "ready"
=============================================================================
