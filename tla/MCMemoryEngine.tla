--------------------------- MODULE MCMemoryEngine ---------------------------
(***************************************************************************)
(* An instance of MemoryEngine for TLC.  x and y are the numbers 1 and 2,  *)
(* s is a string; the vector of <<2, 1>> has another dimension.            *)
(***************************************************************************)
EXTENDS MemoryEngine

MCKeys == {<<1, 1>>, <<1, 2>>, <<2, 1>>}
MCBodies == {[f |-> "x", vec |-> TRUE], [f |-> "y", vec |-> FALSE],
             [f |-> "s", vec |-> FALSE], [f |-> Null, vec |-> FALSE],
             [f |-> Bad, vec |-> FALSE]}
MCNumbers == [x |-> 1, y |-> 2]
MCSimilarity == [k \in MCKeys |-> IF k[1] = 1 THEN k[2] ELSE 0]

Is(op, than) == [op |-> op, than |-> than]
Pages(collections, filters, sorts, limits) ==
    [collections : collections, filters : filters, sort : sorts, asc : {FALSE},
     offset : {<<>>, <<1>>}, limit : limits]
MCLists ==
    Pages({<<>>, <<{1}>>}, {{}, {Is("$gte", "x"), Is("$in", {"x", "s"})}}, {<<>>},
          {<<>>, <<0>>, <<1>>})
    \cup Pages({<<{1, 2}>>}, {{Is("$lt", "y"), Is("$like", {"s"})}}, {<<>>}, {<<>>, <<1>>})
    \cup Pages({<<>>}, {{}}, {<<"version">>, <<"created_at">>}, {<<>>, <<1>>})
Totals(functions, filters, group) ==
    [function : functions, filters : filters, group : group]
MCAggregates ==
    Totals({"count", "avg", "min", "max"}, {{}}, {TRUE})
    \cup Totals({"sum", "min", "max"}, {{Is("eq", "x")}}, {FALSE})
Windows(width, labels) ==
    [function : {"count", "avg"}, filters : {{}}, width : {width},
     from : {<<>>, <<3>>}, to : {<<>>} \cup {<<l>> : l \in labels}]
MCSeries == Windows(2, {3}) \cup Windows(4, {-1, 3})
=============================================================================
