---------------------------- MODULE MemoryEngine ----------------------------
(***************************************************************************)
(* The in-memory engine (crates/thingd/src/in_memory.rs): the queues of    *)
(* MemoryQueue beside objects, vectors, events and links in plain          *)
(* collections.  Nothing is persisted and every call runs under the engine *)
(* lock.  Batches are the loops of store.rs: the calls before a refused    *)
(* one stay.  A behaviour works on one of the stores (part).               *)
(***************************************************************************)
EXTENDS MemoryQueue, Queries

CONSTANTS
    Absent,     \* no object
    Keys,       \* object keys: <<collection, id>>
    Fields,     \* values of the unique field
    Bodies,     \* [f, vec]: the field, or another value for none; has it a vector
    Streams, Protected, Idems,   \* as in PersistentRecords; 0 is no key
    Refs, MaxLink,
    Lists, Aggregates, Series,   \* the questions of the query properties
    Parts,      \* the stores a run works on
    MaxOps      \* bound on the calls of a behaviour

Indexed == 1

ASSUME MemoryConstants ==
    /\ Protected \subseteq Streams /\ 0 \in Idems
    /\ Parts \subseteq {"queue", "objects", "events", "links"}
    /\ {MaxLink, MaxOps} \subseteq Nat
    /\ \A b \in Bodies : b.vec \in BOOLEAN
    /\ Absent \notin [f : {b.f : b \in Bodies}, vec : BOOLEAN, version : Nat,
                      created : Nat, kept : Nat]
    /\ Absent \notin [f : {b.f : b \in Bodies}, version : Nat]

VARIABLES
    part, ops,
    objects, vectors, index,   \* index: "none", "plain" or "unique"
    events, nextEvent, eventKeys,
    links, nextLink,
    answers    \* of the append just made

ovars == <<objects, vectors, index>>
evars == <<events, nextEvent, eventKeys>>
lvars == <<links, nextLink>>
engineVars == <<vars, part, ops, ovars, evars, lvars, answers>>

Call(p) == part = p /\ ops < MaxOps /\ ops' = ops + 1 /\ UNCHANGED <<vars, part>>

-----------------------------------------------------------------------------
(* Objects. *)
Valued(objs) == {k \in Keys : k[1] = Indexed /\ objs[k] # Absent /\ objs[k].f \in Fields}

(* validate_unique_indexes: a scan; a body that is no JSON passes. *)
MutValid(objs, k, b) ==
    index = "unique" /\ k[1] = Indexed /\ b.f \in Fields /\ objs[k] = Absent =>
        \A l \in Valued(objs) \ {k} : objs[l].f # b.f
Valid(objs, k, b) ==
    index = "unique" /\ k[1] = Indexed /\ b.f \in Fields =>
        \A l \in Valued(objs) \ {k} : objs[l].f # b.f

NextVersion(old) == IF old = Absent THEN 1 ELSE old.version + 1

(* now_iso_string of a call; instants are even. *)
Now == 2 * (ops + 1)

(* created_at is that of the last put, as no caller of put_object gives     *)
(* one; kept is the created_at the persistent engine has after the same     *)
(* calls, where an object that is replaced keeps it.                        *)
Stored(b, old) ==
    [f |-> b.f, vec |-> b.vec, version |-> NextVersion(old), created |-> Now,
     kept |-> IF old = Absent THEN Now ELSE old.kept]

(* put_object on [objects, vectors, ok] *)
Put(s, k, b) ==
    IF ~s.ok \/ ~Valid(s.objects, k, b) THEN [s EXCEPT !.ok = FALSE]
    ELSE [s EXCEPT !.objects[k] = Stored(b, s.objects[k]),
                   !.vectors = IF b.vec THEN @ \cup {k} ELSE @ \ {k}]

State == [objects |-> objects, vectors |-> vectors, ok |-> TRUE]
Becomes(s) == objects' = s.objects /\ vectors' = s.vectors
OnObjects == answers' = {} /\ UNCHANGED <<index, evars, lvars>>

PutObject(k, b, expected) ==
    /\ Call("objects") /\ OnObjects
    /\ expected # Absent =>
          IF expected = 0 THEN objects[k] = Absent
          ELSE objects[k] # Absent /\ objects[k].version = expected
    /\ Valid(objects, k, b)
    /\ Becomes(Put(State, k, b))

(* The version and the creation time of the source, 0 for one it leaves     *)
(* out; those that are tried.                                               *)
SourceMetadata == {<<0, 0>>, <<2, 0>>, <<2, 2>>}
Sourced(o, version, at) ==
    [o EXCEPT !.version = IF version > 0 THEN version ELSE @,
              !.created = IF at > 0 THEN at ELSE @, !.kept = IF at > 0 THEN at ELSE @]

PutWithSourceMetadata(k, b, version, at) ==
    LET s == Put(State, k, b)
    IN  /\ Call("objects") /\ OnObjects
        /\ s.ok
        /\ Becomes([s EXCEPT !.objects[k] = Sourced(@, version, at)])

PutObjectsBatch(seq) ==
    LET puts[i \in 0..Len(seq)] ==
            IF i = 0 THEN State ELSE Put(puts[i - 1], seq[i][1], seq[i][2])
    IN  /\ Call("objects") /\ OnObjects
        /\ Becomes(puts[Len(seq)])

DeleteObjects(S) ==
    /\ Call("objects") /\ OnObjects
    /\ objects' = [k \in Keys |-> IF k \in S THEN Absent ELSE objects[k]]
    /\ vectors' = vectors \ S

(* create_index_definition with validate_existing_unique_index, delete_index *)
SetIndex(def) ==
    /\ Call("objects") /\ answers' = {} /\ UNCHANGED <<objects, vectors, evars, lvars>>
    /\ def = "unique" => \A k, l \in Valued(objects) : k # l => objects[k].f # objects[l].f
    /\ index' = def

(* add_vector, remove_vector: the object need not exist. *)
SetVector(k, add) ==
    /\ Call("objects") /\ OnObjects
    /\ vectors' = IF add THEN vectors \cup {k} ELSE vectors \ {k}
    /\ UNCHANGED objects

-----------------------------------------------------------------------------
(* Events: one sequence for all streams, the order of the vector; the keys  *)
(* of removed events stay.                                                  *)
Event(s, n, i) == [stream |-> s, seq |-> n, idem |-> i]
Known(s, i) == {e \in events : i # 0 /\ e.seq = eventKeys[<<s, i>>]}

NextSequence == nextEvent + 1

AppendEvent(s, i) ==
    LET e == Event(s, NextSequence, i)
    IN  /\ Call("events") /\ UNCHANGED <<ovars, lvars>>
        /\ \/ /\ Known(s, i) # {}
              /\ answers' = {[stream |-> s, idem |-> i, got |-> x] : x \in Known(s, i)}
              /\ UNCHANGED evars
           \/ /\ Known(s, i) = {}
              /\ nextEvent' = e.seq
              /\ eventKeys' = IF i = 0 THEN eventKeys ELSE [eventKeys EXCEPT ![<<s, i>>] = e.seq]
              /\ events' = events \cup {e}
              /\ answers' = {[stream |-> s, idem |-> i, got |-> e]}

OnEvents == Call("events") /\ answers' = {} /\ UNCHANGED <<nextEvent, eventKeys, ovars, lvars>>

DeleteLastEvent(s) ==
    /\ OnEvents /\ s \notin Protected
    /\ \E e \in events :
          /\ e.stream = s /\ \A o \in events : o.stream = s => o.seq <= e.seq
          /\ events' = events \ {e}

DeleteStream(s) ==
    /\ OnEvents /\ s \notin Protected
    /\ events' = {e \in events : e.stream # s}

-----------------------------------------------------------------------------
(* Links. *)
Link(id, a, b) == [id |-> id, from |-> a, to |-> b]
OnLinks == Call("links") /\ answers' = {} /\ UNCHANGED <<ovars, evars>>

CreateLink(a, b) ==
    /\ OnLinks
    /\ nextLink' = nextLink + 1
    /\ links' = links \cup {Link(nextLink + 1, a, b)}

ImportLink(l) ==
    /\ OnLinks
    /\ \A o \in links : o.id # l.id
    /\ nextLink' = IF l.id > nextLink THEN l.id ELSE nextLink
    /\ links' = links \cup {l}

DeleteLink(l) ==
    /\ OnLinks
    /\ links' = links \ {l} /\ UNCHANGED nextLink

-----------------------------------------------------------------------------
EngineInit ==
    /\ Init
    /\ part \in Parts /\ ops = 0
    /\ objects = [k \in Keys |-> Absent] /\ vectors = {} /\ index = "none"
    /\ events = {} /\ nextEvent = 0 /\ eventKeys = [x \in Streams \X Idems |-> 0]
    /\ links = {} /\ nextLink = 0 /\ answers = {}

EngineNext ==
    \/ part = "queue" /\ Next /\ UNCHANGED <<part, ops, ovars, evars, lvars, answers>>
    \/ \E k \in Keys, b \in Bodies :
          \/ \E x \in 0..2 \cup {Absent} : PutObject(k, b, x)
          \/ \E x \in SourceMetadata : PutWithSourceMetadata(k, b, x[1], x[2])
    \/ \E seq \in (Keys \X Bodies) \X (Keys \X Bodies) : PutObjectsBatch(seq)
    \/ \E S \in SUBSET Keys : DeleteObjects(S)
    \/ \E def \in {"none", "plain", "unique"} : SetIndex(def)
    \/ \E k \in Keys, add \in BOOLEAN : SetVector(k, add)
    \/ \E s \in Streams, i \in Idems : AppendEvent(s, i)
    \/ \E s \in Streams : DeleteLastEvent(s) \/ DeleteStream(s)
    \/ \E a, b \in Refs : CreateLink(a, b) \/ \E id \in 0..MaxLink : ImportLink(Link(id, a, b))
    \/ \E l \in links : DeleteLink(l)

EngineSpec == EngineInit /\ [][EngineNext]_engineVars

(* The in-memory engine is a record store too: it keeps unique values       *)
(* apart, never answers a retry with another event and never reuses the     *)
(* sequence of a live event or the id of a live link.                       *)
Shown(o) == IF o = Absent THEN Absent ELSE [f |-> o.f, version |-> o.version]
Abstract == INSTANCE RecordStore WITH
    None <- Absent, objects <- [k \in Keys |-> Shown(objects[k])],
    unique <- (index = "unique"), reply <- answers
RefinesRecordStore == Abstract!RSpec

-----------------------------------------------------------------------------
(* The objects in the order of their keys, with one of the two times. *)
Rows(stamp) ==
    LET held == {k \in Keys : objects[k] # Absent}
        order == SetToSortSeq(held, LAMBDA a, b : a[1] < b[1] \/ (a[1] = b[1] /\ a[2] < b[2]))
    IN  [i \in DOMAIN order |-> [key |-> order[i], f |-> objects[order[i]].f,
                               version |-> objects[order[i]].version,
                               created |-> objects[order[i]][stamp]]]
KeysOf(rows) == [i \in DOMAIN rows |-> rows[i].key]
Collections == {k[1] : k \in Keys}

(* An object was put again, and the engines date it apart. *)
Rewritten == \E k \in Keys : objects[k] # Absent /\ objects[k].created # objects[k].kept

(* Whatever was put and deleted, a list gives the same objects in the same  *)
(* order from both engines: the page of the keyspace, the scan that stops   *)
(* early and the sort of the persistent engine answer every combination of  *)
(* collections, filters, order, offset and limit like the plain filter,     *)
(* sort and cut of the in-memory engine; by creation time only while no     *)
(* object was put again.                                                    *)
ListsAgree(stored, memory) ==
    \A q \in Lists :
        (Rewritten => q.sort # <<"created_at">>) =>
            KeysOf(ListObjects(q, stored)) = KeysOf(MemoryListObjects(q, memory))

(* Aggregates, time series, schemas and vector searches agree in the two    *)
(* engines up to what they are known to do apart: the minimum of nothing, a *)
(* bucket without numbers, the upper bound of a time series (its bucket     *)
(* included in one, cut at its first instant in the other), a time series   *)
(* with an object that was put again, fields of several types or with a     *)
(* null, and a vector of another dimension without an object.               *)
SummariesAgree(stored, memory) ==
    \A c \in Collections :
        /\ \A a \in Aggregates :
              LET rows == InCollection(c, stored, a.filters)
                  one == Aggregate(c, a, stored)
                  other == MemoryAggregate(c, a, memory)
              IN  (a.function = "min" => rows # <<>> /\ Len(NumbersOf(rows)) = Len(rows)) =>
                      SameFloat(one.total, other.total) /\ one.groups = other.groups
        /\ ~Rewritten => \A t \in Series :
              TimeSeries(c, t, stored) =
                  {[label |-> b.label, value |-> b.value] :
                      b \in {x \in MemoryTimeSeries(c, [t EXCEPT
                                !.to = IF Given(@) THEN <<@[1] + t.width>> ELSE @], memory) :
                            t.function = "count" \/ x.numbers # <<>>}}
        /\ LET types == {TypeOf(r.f) : r \in ToSet(Sample(c, 2, stored))}
           IN  Cardinality(types) = 1 /\ types # {"null"} =>
                   Schema(c, 2, stored) = MemorySchema(c, 2, memory)
        /\ (\A k \in vectors : objects[k] # Absent \/ Similarity[k] # 0) =>
              \A top \in {<<>>, <<1>>} :
                  VectorSearch(c, vectors, {}, top, stored) =
                      MemoryVectorSearch(c, vectors, {}, top, memory)

(* Every query has the same answer in both engines (ListsAgree and          *)
(* SummariesAgree), over every content the puts, batches, deletes and       *)
(* vector calls of the in-memory engine lead to, each engine with the       *)
(* creation times it gives those calls.                                     *)
QueriesAgree ==
    part = "objects" =>
        LET stored == Rows("kept")
            memory == Rows("created")
        IN  ListsAgree(stored, memory) /\ SummariesAgree(stored, memory)

(* docs/api-spec/data-model.md has "createdAt" as "Creation timestamp", and *)
(* the test persistent_object_created_at_preserved_on_update                *)
(* (persistent.rs:7497) says that an update keeps it: in both engines.      *)
CreatedAgrees == ~Rewritten
=============================================================================
