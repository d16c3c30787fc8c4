------------------------------- MODULE Queries -------------------------------
(***************************************************************************)
(* Lists, aggregates, time series, schemas and vector searches as the two  *)
(* engines compute them: crates/thingd/src/persistent.rs streams over its  *)
(* keyspaces, crates/thingd/src/in_memory.rs filters its collections.      *)
(* Pure operators over rows, the objects in key order:                     *)
(*     [key |-> <<collection, id>>, f |-> field, version |-> n,            *)
(*      created |-> instant].                                              *)
(* An option is <<>> for None and <<x>> for Some(x).  A value of the field *)
(* is a number, a string, null, or the body is no JSON.  Strings do not    *)
(* read as numbers.                                                        *)
(***************************************************************************)
EXTENDS Integers, Sequences, FiniteSets, SequencesExt

CONSTANTS
    Numbers,     \* the values that are numbers, and which
    Texts,       \* the values that are strings
    Similarity   \* key -> score of its vector, 0 for one of another dimension

Null == "null"
Bad == "not json"
MaxFloat == 1000    \* f64::MAX

ASSUME QueryConstants ==
    /\ DOMAIN Numbers \cap (Texts \cup {Null, Bad}) = {}
    /\ \A v \in DOMAIN Numbers : Numbers[v] \in 1..MaxFloat - 1

Given(option) == option # <<>>

-----------------------------------------------------------------------------
(* Filters. *)

(* value_compare: values of two types are compared as text, where a quote   *)
(* comes before the digits and null after them.                             *)
Weight(v) ==
    CASE v \in Texts -> 0
      [] v \in DOMAIN Numbers -> Numbers[v]
      [] OTHER -> MaxFloat

(* like_match: a pattern is the set of the strings it matches. *)
LikeMatch(v, pattern) == v \in pattern

Meets(v, c) ==
    CASE c.op = "eq"    -> v = c.than
      [] c.op = "$gt"   -> Weight(v) > Weight(c.than)
      [] c.op = "$gte"  -> Weight(v) >= Weight(c.than)
      [] c.op = "$lt"   -> Weight(v) < Weight(c.than)
      [] c.op = "$lte"  -> Weight(v) <= Weight(c.than)
      [] c.op = "$ne"   -> Weight(v) # Weight(c.than)
      [] c.op = "$in"   -> v \in c.than
      [] c.op = "$like" -> v \in Texts /\ LikeMatch(v, c.than)

(* matches_object_filters; matches_filter_memory is its part for "eq". *)
MatchesFilters(row, filters) == filters = {} \/ (row.f # Bad /\ \A c \in filters : Meets(row.f, c))

-----------------------------------------------------------------------------
(* list_objects with [collections, filters, sort, asc, offset, limit]. *)

Offset(q) == IF Given(q.offset) THEN q.offset[1] ELSE 0
Full(q, n) == Given(q.limit) /\ n >= q.limit[1]

Slice(q, rows) ==
    LET rest == SubSeq(rows, Offset(q) + 1, Len(rows))
    IN  IF Full(q, Len(rest)) THEN SubSeq(rest, 1, q.limit[1]) ELSE rest

(* A field of the body is named "$.f"; the code looks for ".f" in the body, *)
(* finds nothing, and all objects are equal.                                *)
SortKey(field, row) ==
    CASE field = "id" -> row.key[2]
      [] field = "collection" -> row.key[1]
      [] field = "version" -> row.version
      [] field = "created_at" -> row.created
      [] OTHER -> 0

(* sort_by is stable. *)
SortRows(q, rows) ==
    LET before(i, j) ==
            LET a == SortKey(q.sort, rows[i])
                b == SortKey(q.sort, rows[j])
            IN  IF a = b THEN i < j ELSE IF q.asc THEN a < b ELSE a > b
        order == SetToSortSeq(DOMAIN rows, before)
    IN  [i \in DOMAIN rows |-> rows[order[i]]]

InCollections(q, row) == Given(q.collections) => row.key[1] \in q.collections[1]
OneCollection(q) == Given(q.collections) /\ Cardinality(q.collections[1]) = 1

(* One turn of the streaming scan. *)
Take(q, acc, row) ==
    CASE acc.done \/ ~MatchesFilters(row, q.filters) -> acc
      [] acc.skipped < Offset(q) -> [acc EXCEPT !.skipped = @ + 1]
      [] OTHER -> [acc EXCEPT !.results = Append(@, row), !.done = Full(q, Len(acc.results) + 1)]

ScanObjects(q, rows) ==
    FoldLeft(LAMBDA acc, row : Take(q, acc, row),
             [skipped |-> 0, results |-> <<>>, done |-> FALSE], rows).results

(* The persistent engine: a page of the keyspace, a scan that stops early,  *)
(* or everything, sorted.                                                   *)
MutListObjects(q, all) ==
    LET rows == SelectSeq(all, LAMBDA r : InCollections(q, r))
        paged == OneCollection(q) /\ q.filters = {} /\ (Given(q.offset) \/ Given(q.limit))
    IN  CASE Given(q.sort) ->
                Slice(q, SortRows([q EXCEPT !.sort = q.sort[1]],
                                SelectSeq(rows, LAMBDA r : MatchesFilters(r, q.filters))))
          [] ~Given(q.sort) /\ paged -> Slice(q, rows)
          [] OTHER -> ScanObjects(q, rows)
ListObjects(q, all) ==
    LET rows == SelectSeq(all, LAMBDA r : InCollections(q, r))
        paged == OneCollection(q) /\ q.filters = {} /\ (Given(q.offset) \/ Given(q.limit))
    IN  CASE Given(q.sort) ->
                Slice(q, SortRows([q EXCEPT !.sort = q.sort[1]],
                                SelectSeq(rows, LAMBDA r : MatchesFilters(r, q.filters))))
          [] ~Given(q.sort) /\ q.limit = <<0>> -> <<>>
          [] ~Given(q.sort) /\ q.limit # <<0>> /\ paged -> Slice(q, rows)
          [] OTHER -> ScanObjects(q, rows)

(* The in-memory engine. *)
MemoryListObjects(q, all) ==
    LET rows == SelectSeq(all, LAMBDA r : InCollections(q, r) /\ MatchesFilters(r, q.filters))
    IN  Slice(q, IF Given(q.sort) THEN SortRows([q EXCEPT !.sort = q.sort[1]], rows) ELSE rows)

-----------------------------------------------------------------------------
(* aggregate with [function, filters, group].  A float is a fraction        *)
(* <<n, d>>; d = 0 is an infinity.                                          *)

SameFloat(a, b) == a[1] * b[2] = b[1] * a[2]
Plus(a, b) == <<a[1] * b[2] + b[1] * a[2], a[2] * b[2]>>

NumbersOf(rows) ==
    LET valued == SelectSeq(rows, LAMBDA r : r.f \in DOMAIN Numbers)
    IN  [i \in DOMAIN valued |-> Numbers[valued[i].f]]
Total(ns) == FoldLeft(LAMBDA a, b : a + b, 0, ns)

(* compute_aggregate; the smallest of nothing differs in the two engines. *)
Compute(fn, rows, nothing) ==
    LET ns == NumbersOf(rows)
    IN  CASE fn = "count" -> <<Len(rows), 1>>
          [] fn = "sum"   -> <<Total(ns), 1>>
          [] fn = "avg"   -> IF ns = <<>> THEN <<0, 1>> ELSE <<Total(ns), Len(ns)>>
          [] fn = "min"   -> IF ns = <<>> THEN nothing ELSE <<Min(ToSet(ns)), 1>>
          [] fn = "max"   -> IF ns = <<>> THEN <<-1, 0>> ELSE <<Max(ToSet(ns)), 1>>
ComputeAggregate(fn, rows) == Compute(fn, rows, <<MaxFloat, 1>>)
MemoryComputeAggregate(fn, rows) == Compute(fn, rows, <<1, 0>>)

(* extract_field_str: what an object is grouped by. *)
GroupKey(row) == IF row.f = Bad THEN "" ELSE row.f

(* The persistent engine sorts groups by value, the in-memory engine by     *)
(* key; here they are a set.                                                *)
Grouped(a, rows, Of(_)) ==
    LET keys == {GroupKey(rows[i]) : i \in DOMAIN rows}
        members(k) == SelectSeq(rows, LAMBDA r : GroupKey(r) = k)
    IN  IF ~a.group THEN [total |-> Of(rows), groups |-> {}]
        ELSE [total |-> FoldSet(LAMBDA k, t : Plus(t, Of(members(k))), <<0, 1>>, keys),
              groups |-> {[key |-> k, value |-> Of(members(k))] : k \in keys}]

InCollection(c, rows, filters) ==
    SelectSeq(rows, LAMBDA r : r.key[1] = c /\ MatchesFilters(r, filters))

Aggregate(c, a, rows) ==
    Grouped(a, InCollection(c, rows, a.filters), LAMBDA rs : ComputeAggregate(a.function, rs))
MemoryAggregate(c, a, rows) ==
    Grouped(a, InCollection(c, rows, a.filters), LAMBDA rs : MemoryComputeAggregate(a.function, rs))

-----------------------------------------------------------------------------
(* timeseries with [function, filters, width, from, to].  An instant is an  *)
(* even number; the label of a bucket, a prefix of its first instant, sorts *)
(* just before it.                                                          *)

BucketLabel(row, width) == (row.created \div width) * width - 1
Labels(rows, width) == {BucketLabel(rows[i], width) : i \in DOMAIN rows}
Labelled(rows, width, l) == SelectSeq(rows, LAMBDA r : BucketLabel(r, width) = l)

(* The bounds are compared with the label; an object without a number adds  *)
(* nothing, and a bucket without numbers does not appear.                   *)
TimeSeries(c, t, rows) ==
    LET kept == SelectSeq(InCollection(c, rows, t.filters), LAMBDA r :
                    /\ Given(t.from) => BucketLabel(r, t.width) >= t.from[1]
                    /\ Given(t.to) => BucketLabel(r, t.width) <= t.to[1])
        counted == IF t.function = "count" THEN kept
                   ELSE SelectSeq(kept, LAMBDA r : r.f \in DOMAIN Numbers)
    IN  {[label |-> l, value |-> ComputeAggregate(t.function, Labelled(counted, t.width, l))] :
            l \in Labels(counted, t.width)}

(* The bounds are compared with created_at, the upper one excluded. *)
MemoryTimeSeries(c, t, rows) ==
    LET kept == SelectSeq(InCollection(c, rows, t.filters), LAMBDA r :
                    /\ Given(t.from) => r.created >= t.from[1]
                    /\ Given(t.to) => r.created < t.to[1])
    IN  {[label |-> l, value |-> MemoryComputeAggregate(t.function, Labelled(kept, t.width, l)),
          numbers |-> NumbersOf(Labelled(kept, t.width, l))] : l \in Labels(kept, t.width)}

-----------------------------------------------------------------------------
(* schema: what type the sampled values of the field have, and whether one *)
(* may be null.                                                            *)

(* infer_json_type *)
TypeOf(v) == CASE v \in DOMAIN Numbers -> "number" [] v \in Texts -> "string" [] OTHER -> "null"

Sample(c, size, rows) ==
    SelectSeq(SubSeq(InCollection(c, rows, {}), 1, Min({size, Len(InCollection(c, rows, {}))})),
              LAMBDA r : r.f # Bad)

(* The persistent engine: two types make it a string, and nothing makes it  *)
(* nullable.  No field has no type.                                         *)
Schema(c, size, rows) ==
    [count |-> Len(InCollection(c, rows, {})), nullable |-> FALSE,
     type |-> FoldLeft(LAMBDA t, r : IF t = "unknown" THEN TypeOf(r.f)
                                     ELSE IF t # TypeOf(r.f) THEN "string" ELSE t,
                       "unknown", Sample(c, size, rows))]

(* The in-memory engine, infer_fields: the first value decides, another     *)
(* type that is not null makes it unknown.                                  *)
MemorySchema(c, size, rows) ==
    LET sample == Sample(c, size, rows)
    IN  [count |-> Len(InCollection(c, rows, {})),
         nullable |-> \E r \in ToSet(sample) : r.f = Null,
         type |-> IF sample = <<>> THEN "unknown"
                  ELSE FoldLeft(LAMBDA t, r : IF t # TypeOf(r.f) /\ r.f # Null THEN "unknown" ELSE t,
                                TypeOf(sample[1].f), sample)]

-----------------------------------------------------------------------------
(* vector_search over the keys that have a vector, with filters and top_k.  *)
(* The hits of equal score keep the order in which the vectors are visited. *)

Best(rows, k) ==
    LET before(i, j) ==
            LET a == Similarity[rows[i].key]
                b == Similarity[rows[j].key]
            IN  IF a = b THEN i < j ELSE a > b
        order == SetToSortSeq(DOMAIN rows, before)
        n == IF Given(k) /\ k[1] < Len(rows) THEN k[1] ELSE Len(rows)
    IN  [i \in 1..n |-> rows[order[i]].key]

Refused == <<"dimension">>
WithVector(c, vectors, rows, filters) ==
    SelectSeq(InCollection(c, rows, filters), LAMBDA r : r.key \in vectors)

(* The persistent engine compares dimensions before it looks for the object. *)
VectorSearch(c, vectors, filters, k, rows) ==
    IF \E v \in vectors : v[1] = c /\ Similarity[v] = 0 THEN Refused
    ELSE Best(WithVector(c, vectors, rows, filters), k)

MemoryVectorSearch(c, vectors, filters, k, rows) ==
    IF \E i \in DOMAIN rows : LET v == rows[i].key IN v[1] = c /\ v \in vectors /\ Similarity[v] = 0
    THEN Refused
    ELSE Best(WithVector(c, vectors, rows, filters), k)
=============================================================================
