------------------------------ MODULE MCRecords ------------------------------
(***************************************************************************)
(* Instances of PersistentRecords for TLC: two objects of the indexed      *)
(* collection and one of another, two values of the unique field, and two  *)
(* streams, one of them the protected replication stream.                  *)
(***************************************************************************)
EXTENDS PersistentRecords

MCKeys == {<<1, 1>>, <<1, 2>>, <<2, 1>>}

MCBodies == {[f |-> "x", vec |-> TRUE], [f |-> "y", vec |-> FALSE],
             [f |-> Null, vec |-> FALSE], [f |-> Bad, vec |-> FALSE]}

MCLegacy == {Event(1, 1, 0), Event(1, 2, 1), Event(2, 1, 1)}
=============================================================================
