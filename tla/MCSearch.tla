------------------------------ MODULE MCSearch ------------------------------
(***************************************************************************)
(* An instance of SearchIndex for TLC: the later key is the better hit.    *)
(***************************************************************************)
EXTENDS SearchIndex

KeyRelevance == [k \in Keys |-> k]
=============================================================================
