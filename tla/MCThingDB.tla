------------------------------ MODULE MCThingDB ------------------------------
(***************************************************************************)
(* Instances of ThingDB for TLC: two keys, one or two values, and batches  *)
(* chosen so that updates, deletes and multi-key batches occur.            *)
(***************************************************************************)
EXTENDS ThingDB

CONSTANTS k1, k2, v1, v2

Put(k, v) == [EmptyMap EXCEPT ![k] = v]
Delete(k) == Put(k, Tombstone)

(* A put, an overwrite that also touches the other key, and a delete. *)
MixedBatches == {Put(k1, v1), Put(k1, v2), Delete(k1),
                 [k \in Keys |-> IF k = k1 THEN Tombstone ELSE v1]}

(* One batch per kind. *)
FewBatches == {Put(k1, v1), Delete(k1), Put(k2, v1)}

PutBatches == {Put(k1, v1), Put(k2, v1)}

SafeFaults == FaultPoints \ {"torn", "truncate", "walsync", "reload"}
NoFaults == {}
TornWrite == {"torn"}
FailedTruncate == {"sync", "truncate"}
FailedWalSync == {"sync", "walsync"}
FailedReload == {"reload"}
=============================================================================
