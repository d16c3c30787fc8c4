------------------------------- MODULE JobQueue -------------------------------
(***************************************************************************)
(* What a QueueStore promises (crates/thingd/src/store.rs): a set of jobs, *)
(* each pushed once, claimed most urgent first, leased to one worker at a  *)
(* time, and completed or dead for good.  No index, no cursor, no cache.   *)
(***************************************************************************)
EXTENDS QueueModel

VARIABLES
    jobs,    \* the job of every id
    now,     \* unix_timestamp_millis
    reply    \* the ids the claim just made returned

Expire(js) ==
    [id \in Ids |-> IF LeaseExpired(js[id], now) THEN Released(js[id]) ELSE js[id]]

QInit ==
    /\ jobs = [id \in Ids |-> NoJob]
    /\ now = 0
    /\ reply = {}

(* One or more new jobs.  A push of an id that is already there returns the *)
(* existing job and changes nothing.                                        *)
QPush ==
    \E S \in SUBSET {id \in Ids : jobs[id].status = "none"} :
    \E new \in [S -> NewJobs(now)] :
        /\ jobs' = [id \in Ids |-> IF id \in S THEN new[id] ELSE jobs[id]]
        /\ reply' = {} /\ UNCHANGED now

(* The jobs S are taken from js: as many as there are up to limit, and no   *)
(* available job is left behind that is more urgent.                        *)
QTake(S, js, limit, lease, ack) ==
    LET ready == {id \in Ids : Available(js[id], now)}
    IN  /\ S \subseteq ready
        /\ Cardinality(S) = limit \/ (S = ready /\ Cardinality(S) < limit)
        /\ \A i \in S, o \in ready \ S : js[i].prio <= js[o].prio
        /\ jobs' = [id \in Ids |-> IF id \in S THEN Claimed(js[id], now, lease, ack)
                                   ELSE js[id]]
        /\ reply' = S
        /\ UNCHANGED now

(* Claim up to limit jobs: leases that ran out are released first. *)
QClaim(limit, lease, ack) ==
    \E S \in SUBSET Ids : QTake(S, Expire(jobs), limit, lease, ack)

(* A claim that fails may have released leases already. *)
QClaimFails ==
    /\ jobs' = Expire(jobs)
    /\ reply' = {} /\ UNCHANGED now

QAck(S) ==
    /\ \A id \in S : jobs[id].status = "leased"
    /\ jobs' = [id \in Ids |-> IF id \in S THEN Acked(jobs[id]) ELSE jobs[id]]
    /\ reply' = {} /\ UNCHANGED now

QNack(id, delay) ==
    /\ jobs[id].status = "leased"
    /\ jobs' = [jobs EXCEPT ![id] = Nacked(@, now, delay)]
    /\ reply' = {} /\ UNCHANGED now

QTick ==
    /\ now < MaxNow
    /\ now' = now + 1
    /\ reply' = {} /\ UNCHANGED jobs

(* Reopening the store, a late answer or an unanswered call. *)
QOther == reply' = {} /\ UNCHANGED <<jobs, now>>

QNext ==
    \/ QPush
    \/ \E n \in BatchLimits \cup {1}, l \in LeaseTimes, ack \in BOOLEAN :
          QClaim(n, l, ack)
    \/ QClaimFails
    \/ \E S \in SUBSET Ids : QAck(S)
    \/ \E id \in Ids, d \in Delays : QNack(id, d)
    \/ QTick
    \/ QOther

QSpec == QInit /\ [][QNext]_<<jobs, now, reply>>
=============================================================================
