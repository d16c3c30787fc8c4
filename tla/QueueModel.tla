------------------------------ MODULE QueueModel ------------------------------
(***************************************************************************)
(* Queue jobs and what one operation makes of one job: the part that the   *)
(* in-memory and the persistent queue store of crates/thingd share         *)
(* (QueueJob of model.rs).  Times are milliseconds, counted from zero.     *)
(***************************************************************************)
EXTENDS Integers, FiniteSets

CONSTANTS
    Ids,            \* job ids of one queue, ordered as their bytes are
    Priorities,     \* priorities as the ready key stores them: low is urgent
    AttemptLimits,  \* values of max_attempts
    Delays,         \* values of delay_ms
    LeaseTimes,     \* values of lease_ms
    BatchLimits,    \* limits of the batch claims, empty for none
    MaxNow          \* bound on the clock

ASSUME IdsAssumption == Ids \subseteq Nat /\ IsFiniteSet(Ids)
ASSUME QueueConstants ==
    /\ Priorities \subseteq Nat
    /\ AttemptLimits \subseteq Nat
    /\ Delays \subseteq Nat
    /\ LeaseTimes \subseteq Nat /\ IsFiniteSet(LeaseTimes)
    /\ BatchLimits \subseteq Nat \ {0}
    /\ MaxNow \in Nat

None == -1

Status == {"none", "ready", "leased", "completed", "dead"}
Job == [status : Status, prio : Nat, created : Nat, attempts : Nat, max : Nat,
        available : Nat, expires : Nat \cup {None}]

NoJob == [status |-> "none", prio |-> 0, created |-> 0, attempts |-> 0,
          max |-> 0, available |-> 0, expires |-> None]

(* QueueJob::new, with_priority and delay_by_ms; push stamps created_at. *)
NewJob(prio, max, delay, time) ==
    [status |-> "ready", prio |-> prio, created |-> time, attempts |-> 0,
     max |-> max, available |-> IF delay = 0 THEN 0 ELSE time + delay,
     expires |-> None]

NewJobs(time) ==
    {NewJob(p, m, d, time) : p \in Priorities, m \in AttemptLimits, d \in Delays}

LeaseExpired(j, time) ==
    j.status = "leased" /\ j.expires # None /\ j.expires <= time

Available(j, time) == j.status = "ready" /\ j.available <= time

Released(j) == [j EXCEPT !.status = "ready", !.expires = None]

(* A claim, with the immediate acknowledgement of claim_and_ack if ack. *)
Claimed(j, time, lease, ack) ==
    [j EXCEPT !.status = IF ack THEN "completed" ELSE "leased",
              !.attempts = @ + 1,
              !.expires = time + lease]

Acked(j) == [j EXCEPT !.status = "completed"]

Nacked(j, time, delay) ==
    IF j.attempts >= j.max
    THEN [j EXCEPT !.status = "dead", !.expires = None]
    ELSE [j EXCEPT !.status = "ready", !.expires = None,
                   !.available = time + delay]
=============================================================================
