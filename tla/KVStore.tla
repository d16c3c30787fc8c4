------------------------------- MODULE KVStore -------------------------------
(***************************************************************************)
(* What ThingDB promises its callers (crates/thingdb/src/lib.rs, Database, *)
(* Keyspace and Batch): one map from keys to values that changes only when *)
(* batches are committed, and then by exactly those batches.  A group      *)
(* commit applies several batches, one after the other, in one step.       *)
(***************************************************************************)
EXTENDS Integers, Sequences

CONSTANTS Keys, Values, Absent, Tombstone, Batches, MaxGroup

VARIABLES
    kv,       \* what get() answers for every key
    commits   \* the batches committed so far

KVInit == kv = [k \in Keys |-> Absent] /\ commits = <<>>

(* The batch b, applied to the map m: puts and deletes of every key in it.  *)
After(m, b) ==
    [k \in Keys |-> IF b[k] = Absent THEN m[k]
                    ELSE IF b[k] = Tombstone THEN Absent ELSE b[k]]

(* The maps between two batches of a group are never seen. *)
CommitBatches ==
    \E n \in 1..MaxGroup : \E g \in [1..n -> Batches] :
        /\ commits' = commits \o g
        /\ \E between \in [0..n -> [Keys -> Values \cup {Absent}]] :
               /\ between[0] = kv
               /\ \A i \in 1..n : between[i] = After(between[i - 1], g[i])
               /\ kv' = between[n]

KVSpec == KVInit /\ [][CommitBatches]_<<kv, commits>>
=============================================================================
