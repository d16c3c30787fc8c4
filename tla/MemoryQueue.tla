----------------------------- MODULE MemoryQueue -----------------------------
(***************************************************************************)
(* One queue of the in-memory engine (crates/thingd/src/in_memory.rs, impl *)
(* QueueStore for MemoryEngine): a deque of jobs that every claim sorts by *)
(* priority, keeping the order of equals.                                  *)
(***************************************************************************)
EXTENDS QueueModel, Sequences

VARIABLES
    deque,   \* the jobs of the queue: [id, job]
    now,     \* unix_timestamp_millis
    reply    \* the ids the claim just made returned

vars == <<deque, now, reply>>

Entry == [id : Ids, job : Job]

Init == deque = <<>> /\ now = 0 /\ reply = {}

MutReleaseExpired(d) == d
(* release_expired_leases *)
ReleaseExpired(d) ==
    [i \in DOMAIN d |-> IF LeaseExpired(d[i].job, now)
                        THEN [d[i] EXCEPT !.job = Released(@)] ELSE d[i]]

MutSorted(d) == [i \in DOMAIN d |-> d[Len(d) + 1 - i]]
(* sort_by_key(Reverse(priority)): stable. *)
Sorted(d) ==
    LET Before(i) == {j \in DOMAIN d : \/ d[j].job.prio < d[i].job.prio
                                       \/ d[j].job.prio = d[i].job.prio /\ j < i}
    IN  [r \in DOMAIN d |-> d[CHOOSE i \in DOMAIN d : Cardinality(Before(i)) = r - 1]]

(* push_job: an id that is there already is answered with its job. *)
Push(id, job) ==
    /\ deque' = IF \E i \in DOMAIN deque : deque[i].id = id THEN deque
                ELSE Append(deque, [id |-> id, job |-> job])
    /\ reply' = {} /\ UNCHANGED now

(* claim_job_with_options and claim_jobs_with_options; claim_and_ack and    *)
(* claim_and_ack_batch acknowledge each job before the engine lock is       *)
(* released.                                                                *)
Claim(limit, lease, ack) ==
    LET d == Sorted(ReleaseExpired(deque))
        A == {i \in DOMAIN d : Available(d[i].job, now)}
        T == {i \in A : Cardinality({j \in A : j < i}) < limit}
    IN  /\ deque' = [i \in DOMAIN d |->
                        IF i \in T THEN [d[i] EXCEPT !.job = Claimed(@, now, lease, ack)]
                        ELSE d[i]]
        /\ reply' = {d[i].id : i \in T}
        /\ UNCHANGED now

(* ack_job and ack_jobs: all of the jobs are leased, or nothing happens. *)
Ack(S) ==
    /\ \A id \in S : \E i \in DOMAIN deque :
          deque[i].id = id /\ deque[i].job.status = "leased"
    /\ deque' = [i \in DOMAIN deque |->
                    IF deque[i].id \in S THEN [deque[i] EXCEPT !.job = Acked(@)]
                    ELSE deque[i]]
    /\ reply' = {} /\ UNCHANGED now

Nack(i, delay) ==
    /\ deque[i].job.status = "leased"
    /\ deque' = [deque EXCEPT ![i].job = Nacked(@, now, delay)]
    /\ reply' = {} /\ UNCHANGED now

Tick ==
    /\ now < MaxNow
    /\ now' = now + 1
    /\ reply' = {} /\ UNCHANGED deque

Next ==
    \/ \E id \in Ids, job \in NewJobs(now) : Push(id, job)
    \/ \E n \in BatchLimits \cup {1}, l \in LeaseTimes, ack \in BOOLEAN : Claim(n, l, ack)
    \/ \E S \in SUBSET Ids \ {{}} : Ack(S)
    \/ \E i \in DOMAIN deque, d \in Delays : Nack(i, d)
    \/ Tick

Spec == Init /\ [][Next]_vars

-----------------------------------------------------------------------------
(* Jobs of one priority are handed out in the order they were pushed, since *)
(* every sort keeps the order of equals: in the deque their created_at      *)
(* never decreases.                                                         *)
FifoAmongEquals ==
    \A i, j \in DOMAIN deque :
        i < j /\ deque[i].job.prio = deque[j].job.prio
            => deque[i].job.created <= deque[j].job.created

JobOf(id) ==
    LET I == {i \in DOMAIN deque : deque[i].id = id}
    IN  IF I = {} THEN NoJob ELSE deque[CHOOSE i \in I : TRUE].job

(* The deque implements the plain queue: the most urgent available jobs are *)
(* claimed, batches take as many as there are, a job is pushed once.        *)
JQ == INSTANCE JobQueue WITH jobs <- [id \in Ids |-> JobOf(id)]
RefinesJobQueue == JQ!QSpec
=============================================================================
