-------------------------- MODULE PersistentRecords --------------------------
(***************************************************************************)
(* Objects, unique indexes, vectors, events and links of the persistent    *)
(* engine (crates/thingd/src/persistent.rs).  Every operation runs under   *)
(* the engine lock and is one action; where it writes several ThingDB      *)
(* batches, an action of its own stops it between them (the process dies). *)
(* A failed batch changes nothing.                                         *)
(*                                                                         *)
(* One index is modelled, on one field of collection 1.  The stores share  *)
(* nothing but the process, so a behaviour works on one of them (part).    *)
(***************************************************************************)
EXTENDS Naturals, Sequences, FiniteSets, SequencesExt

CONSTANTS
    None,
    Keys,          \* object keys: <<collection, id>>, ordered as the keyspace is
    Fields,        \* values of the indexed field
    Bodies,        \* [f, vec]: field (or Null, or Bad for no JSON), has it a vector
    Streams,       \* event streams; the ones in Protected start with __thingd:
    Protected, ReplicationStream,
    Idems,         \* idempotency keys, numbers; 0 is the empty key
    PageSize,      \* EVENT_SCAN_PAGE_SIZE
    Legacy,        \* events of a store that has no event metadata yet
    Refs,          \* what links connect
    MaxLink,       \* largest id of a link; 0 stands for an id of another form
    Versions,      \* versions that callers and replication sources name
    Cursors,       \* checkpoints the replicas have reported
    Parts,         \* the stores a run works on
    Exposed,       \* which of the cases that break the contract a run allows (README):
                   \* "handover", "migration", "import"
    MaxBatch, MaxOps, MaxCrashes   \* bounds of a run: items of a batch, calls, crashes

Null == "null"
Bad == "not json"
Indexed == 1

ASSUME RecordConstants ==
    /\ Fields \cap {Null, Bad} = {}
    /\ None \notin [f : Fields \cup {Null, Bad}, vec : BOOLEAN, version : Nat]
    /\ None \notin [f : Fields \cup {Null, Bad}, version : Nat]
    /\ None \notin [max : Nat, keys : [Idems -> Nat]]
    /\ \A b \in Bodies : b.f \in Fields \cup {Null, Bad} /\ b.vec \in BOOLEAN
    /\ None \notin Nat
    /\ Streams \subseteq Nat /\ Protected \subseteq Streams /\ ReplicationStream \in Protected
    /\ 0 \in Idems /\ Idems \subseteq Nat /\ Versions \subseteq Nat /\ Cursors \subseteq Nat
    /\ IsFiniteSet(Legacy) /\ Legacy \subseteq [stream : Streams, seq : Nat \ {0}, idem : Idems]
    /\ \A e, o \in Legacy :
          e # o /\ e.stream = o.stream => e.seq # o.seq /\ (e.idem = 0 \/ e.idem # o.idem)
    /\ {PageSize} \subseteq Nat \ {0}
    /\ Parts \subseteq {"objects", "events", "links"}
    /\ Exposed \subseteq {"handover", "migration", "import"}
    /\ {MaxLink, MaxBatch, MaxOps, MaxCrashes} \subseteq Nat

VARIABLES
    part,      \* the store this behaviour works on
    up,        \* is the engine open
    objects,   \* keyspace objects: None or [f, vec, version]
    vectors,   \* keyspace vectors: the keys
    index,     \* keyspace indexes: "none", "plain" or "unique"
    cache,     \* unique_index_values, unique_index_cache_complete, index_definitions
    events,    \* keyspace events
    meta,      \* keyspace event_meta: None or [max, keys] of every stream
    seqs,      \* event_seq_counters (0: absent) and event_idempotency_keys (0: absent)
    reply,     \* answers of the append just made
    byId, from, to,   \* keyspaces links_by_id, links_from, links_to
    nextLink,  \* next_link_id
    direct,    \* keys whose vector was last set by add_vector or remove_vector
    torn,      \* has a crash cut a link operation
    ops, crashes

ovars == <<objects, vectors, index, cache, direct>>
evars == <<events, meta, seqs>>
lvars == <<byId, from, to, nextLink, torn>>
vars == <<part, up, ovars, evars, reply, lvars, ops, crashes>>

(* A call of an open engine; the other stores and the bounds. *)
Call(p) == part = p /\ up /\ ops < MaxOps /\ ops' = ops + 1 /\ UNCHANGED <<part, crashes>>
OnObjects == UNCHANGED <<evars, lvars>> /\ reply' = {}
OnEvents == UNCHANGED <<ovars, lvars>>
OnLinks == UNCHANGED <<ovars, evars>> /\ reply' = {}
Dies == crashes < MaxCrashes /\ crashes' = crashes + 1 /\ up' = FALSE

-----------------------------------------------------------------------------
(* Unique values. *)
NoValues == [v \in {} |-> <<>>]
Put(f, k, v) == [x \in DOMAIN f \cup {k} |-> IF x = k THEN v ELSE f[x]]
Minus(f, S) == [x \in DOMAIN f \ S |-> f[x]]

KeyLess(a, b) == a[1] < b[1] \/ (a[1] = b[1] /\ a[2] < b[2])
Valued(objs) == {k \in Keys : k[1] = Indexed /\ objs[k] # None /\ objs[k].f \in Fields}

(* build_unique_index_cache: the last key wins, and an object that is no    *)
(* JSON or a value that occurs twice makes the cache incomplete.            *)
Built(objs, def) ==
    LET holders(v) == {k \in Valued(objs) : objs[k].f = v}
        shown == {v \in Fields : holders(v) # {}}
    IN  IF def # "unique"
        THEN [values |-> NoValues, complete |-> TRUE, def |-> def]
        ELSE [values |-> [v \in shown |-> CHOOSE k \in holders(v) :
                                \A l \in holders(v) \ {k} : KeyLess(l, k)],
              complete |-> /\ \A k \in Keys : objs[k] # None => objs[k].f # Bad
                           /\ \A v \in shown : Cardinality(holders(v)) = 1,
              def |-> def]

HasUnique(k) == cache.def = "unique" /\ k[1] = Indexed

(* validate_unique_indexes *)
Valid(k, b) ==
    HasUnique(k) =>
        /\ b.f # Bad
        /\ b.f \in Fields =>
              IF cache.complete
              THEN b.f \in DOMAIN cache.values => cache.values[b.f] = k
              ELSE \A l \in Valued(objects) \ {k} : objects[l].f # b.f

(* update_unique_index_cache_for_object: the old value goes whoever has it. *)
MutUpdated(c, k, old, b) ==
    IF ~c.complete \/ c.def # "unique" \/ k[1] # Indexed THEN c
    ELSE LET added == IF b.f \in Fields THEN Put(c.values, b.f, k) ELSE c.values
         IN  [c EXCEPT !.values = added]
Updated(c, k, old, b) ==
    IF ~c.complete \/ c.def # "unique" \/ k[1] # Indexed THEN c
    ELSE LET kept == IF old = None THEN c.values ELSE Minus(c.values, {old.f})
         IN  [c EXCEPT !.values = IF b.f \in Fields THEN Put(kept, b.f, k) ELSE kept]

(* remove_unique_index_cache_for_object *)
Forgotten(c, S) ==
    IF ~c.complete THEN c
    ELSE [c EXCEPT !.values = Minus(@, {objects[k].f : k \in S \cap Valued(objects)})]

-----------------------------------------------------------------------------
(* Objects. *)
Stored(b, version) == [f |-> b.f, vec |-> b.vec, version |-> version]
NextVersion(old) == IF old = None THEN 1 ELSE old.version + 1

(* The batch of put_object: object and vector. *)
Write(k, b, version) ==
    /\ objects' = [objects EXCEPT ![k] = Stored(b, version)]
    /\ vectors' = IF b.vec THEN vectors \cup {k} ELSE vectors \ {k}
    /\ cache' = Updated(cache, k, objects[k], b)
    /\ direct' = direct \ {k}

(* put_object_with_options: expected is None, 0 for "absent" or a version;  *)
(* put_object when it is None.                                              *)
PutObject(k, b, expected) ==
    /\ Call("objects") /\ UNCHANGED <<up, index>> /\ OnObjects
    /\ expected # None =>
          IF expected = 0 THEN objects[k] = None
          ELSE objects[k] # None /\ objects[k].version = expected
    /\ Valid(k, b)
    /\ Write(k, b, NextVersion(objects[k]))

(* put_object_with_source_metadata: the version of the source is written by *)
(* a second batch.                                                          *)
PutWithSourceMetadata(k, b, version, expected) ==
    /\ Call("objects") /\ UNCHANGED <<up, index>> /\ OnObjects
    /\ expected # None => objects[k] # None /\ objects[k].version = expected
    /\ Valid(k, b)
    /\ Write(k, b, IF version > 0 THEN version ELSE NextVersion(objects[k]))

PutWithSourceMetadataDies(k, b) ==
    /\ part = "objects" /\ up /\ Dies /\ UNCHANGED <<part, ops, index>> /\ OnObjects
    /\ Valid(k, b)
    /\ Write(k, b, NextVersion(objects[k]))

(* put_objects_batch.  First the values that stored objects of the batch    *)
(* give up leave the virtual index, then each object claims its value; the  *)
(* cache is brought up to date object by object after the commit.           *)
Freed(seq) ==
    LET gone == {k \in {seq[i].key : i \in DOMAIN seq} \cap Valued(objects) :
                    objects[k].f \in DOMAIN cache.values /\ cache.values[objects[k].f] = k}
    IN  Minus(cache.values, {objects[k].f : k \in gone})

Prepare(acc, item) ==
    LET k == item.key
        b == item.body
        claims == HasUnique(k) /\ b.f \in Fields
        clash == claims /\ b.f \in DOMAIN acc.virtual /\ acc.virtual[b.f] # k
        old == acc.objects[k]
    IN  [ok |-> acc.ok /\ ~clash /\ (cache.complete \/ Valid(k, b)),
         virtual |-> IF claims THEN Put(acc.virtual, b.f, k) ELSE acc.virtual,
         objects |-> [acc.objects EXCEPT ![k] = Stored(b, NextVersion(old))],
         vectors |-> CASE b.vec -> acc.vectors \cup {k}
                       [] ~b.vec /\ old # None /\ old.vec -> acc.vectors \ {k}
                       [] OTHER -> acc.vectors,
         cache |-> Updated(acc.cache, k, old, b)]

(* Does an object of the batch take a value that a later one gives up?      *)
Hands(seq) ==
    \E i, j \in DOMAIN seq :
        /\ i < j /\ seq[i].key # seq[j].key /\ objects[seq[j].key] # None
        /\ seq[i].body.f = objects[seq[j].key].f /\ seq[i].body.f \in Fields

Prepared(seq) ==
    LET start == [ok |-> TRUE, virtual |-> Freed(seq), objects |-> objects,
                  vectors |-> vectors, cache |-> cache]
        acc[i \in 0..Len(seq)] == IF i = 0 THEN start ELSE Prepare(acc[i - 1], seq[i])
    IN  acc[Len(seq)]

PutObjectsBatch(seq) ==
    LET end == Prepared(seq)
    IN  /\ Call("objects") /\ UNCHANGED <<up, index>> /\ OnObjects
        /\ "handover" \in Exposed \/ ~Hands(seq)
        /\ end.ok
        /\ objects' = end.objects /\ vectors' = end.vectors /\ cache' = end.cache
        /\ direct' = direct \ {k \in Keys : (k \in vectors') = (end.objects[k] # None /\ end.objects[k].vec)}

(* delete_object and delete_objects_batch; a batch that finds nothing is    *)
(* not committed.                                                           *)
DeleteObjects(S, batch) ==
    LET found == {k \in S : objects[k] # None}
    IN  /\ Call("objects") /\ UNCHANGED <<up, index>> /\ OnObjects
        /\ ~batch => Cardinality(S) = 1
        /\ objects' = [k \in Keys |-> IF k \in S THEN None ELSE objects[k]]
        /\ vectors' = IF batch /\ found = {} THEN vectors ELSE vectors \ S
        /\ cache' = Forgotten(cache, found)
        /\ direct' = IF batch /\ found = {} THEN direct ELSE direct \ S

(* create_index_definition, delete_index: the cache is built again. *)
CreateIndex(def) ==
    /\ Call("objects") /\ UNCHANGED up /\ OnObjects
    /\ def = "unique" =>
          /\ \A k \in Keys : k[1] = Indexed /\ objects[k] # None => objects[k].f # Bad
          /\ \A k, l \in Valued(objects) : k # l => objects[k].f # objects[l].f
    /\ index' = def
    /\ cache' = Built(objects, def)
    /\ UNCHANGED <<objects, vectors, direct>>

DeleteIndex ==
    /\ Call("objects") /\ UNCHANGED up /\ OnObjects
    /\ index # "none"
    /\ index' = "none"
    /\ cache' = Built(objects, "none")
    /\ UNCHANGED <<objects, vectors, direct>>

(* add_vector, remove_vector *)
SetVector(k, add) ==
    /\ Call("objects") /\ UNCHANGED up /\ OnObjects
    /\ vectors' = IF add THEN vectors \cup {k} ELSE vectors \ {k}
    /\ direct' = direct \cup {k}
    /\ UNCHANGED <<objects, index, cache>>

-----------------------------------------------------------------------------
(* Events. *)
Event(s, n, i) == [stream |-> s, seq |-> n, idem |-> i]
Answer(s, i, e) == [stream |-> s, idem |-> i, got |-> e]
At(evs, s, n) == {e \in evs : e.stream = s /\ e.seq = n}
Insert(evs, new) == {e \in evs : At(new, e.stream, e.seq) = {}} \cup new

Unused == [max |-> [s \in Streams |-> 0], keys |-> [s \in Streams |-> [i \in Idems |-> 0]]]
MetaOf(q, s) == [max |-> q.max[s], keys |-> q.keys[s]]

(* advance_event_sequence, and the idempotency key that goes with it *)
Advance(q, s, i) ==
    [max |-> [q.max EXCEPT ![s] = @ + 1],
     keys |-> IF i = 0 THEN q.keys ELSE [q.keys EXCEPT ![s][i] = q.max[s] + 1]]

(* The idempotency keys of removed events go. *)
WithoutKeysOf(q, gone) ==
    [q EXCEPT !.keys = [s \in Streams |-> [i \in Idems |->
        IF At(gone, s, q.keys[s][i]) # {} THEN 0 ELSE q.keys[s][i]]]]

(* The live event an idempotency key names. *)
Existing(q, evs, s, i) == IF i = 0 THEN {} ELSE At(evs, s, q.keys[s][i])

AppendEvent(s, i) ==
    LET hit == Existing(seqs, events, s, i)
        next == Advance(seqs, s, i)
        e == Event(s, next.max[s], i)
    IN  /\ Call("events") /\ UNCHANGED up /\ OnEvents
        /\ \/ /\ hit # {}
              /\ reply' = {Answer(s, i, h) : h \in hit}
              /\ UNCHANGED evars
           \/ /\ hit = {}
              /\ events' = Insert(events, {e})
              /\ meta' = [meta EXCEPT ![s] = MetaOf(next, s)]
              /\ seqs' = next
              /\ reply' = {Answer(s, i, e)}

(* append_event fails.  When the commit does, counter and key are given     *)
(* back; when the event or its metadata cannot be encoded, the counter has  *)
(* advanced, and the key with it in the second case.                        *)
MutGivenBack(q, s, i) == [Advance(q, s, i) EXCEPT !.max = q.max]
GivenBack(q, s, i) == IF i = 0 THEN q ELSE [q EXCEPT !.keys[s][i] = 0]

AppendFails(s, i) ==
    /\ Call("events") /\ UNCHANGED up /\ OnEvents
    /\ Existing(seqs, events, s, i) = {}
    /\ \/ seqs' = GivenBack(seqs, s, i)
       \/ seqs' \in {Advance(seqs, s, 0), Advance(seqs, s, i)}
    /\ reply' = {} /\ UNCHANGED <<events, meta>>

(* append_events_batch: one batch for all; asks is a sequence of <<s, i>>.  *)
Ask(acc, ask) ==
    LET s == ask[1]
        i == ask[2]
        stored == Existing(acc.seqs, events, s, i)
        pending == Existing(acc.seqs, acc.new, s, i)
        hit == IF stored # {} THEN stored ELSE pending
        next == Advance(acc.seqs, s, i)
        e == Event(s, next.max[s], i)
    IN  IF hit # {} THEN [acc EXCEPT !.reply = @ \cup {Answer(s, i, h) : h \in hit}]
        ELSE [seqs |-> next, new |-> acc.new \cup {e}, reply |-> acc.reply \cup {Answer(s, i, e)}]

Asked(asks) ==
    LET start == [seqs |-> seqs, new |-> {}, reply |-> {}]
        acc[i \in 0..Len(asks)] == IF i = 0 THEN start ELSE Ask(acc[i - 1], asks[i])
    IN  acc[Len(asks)]

AppendEventsBatch(asks) ==
    LET end == Asked(asks)
        affected == {e.stream : e \in end.new}
    IN  /\ Call("events") /\ UNCHANGED up /\ OnEvents
        /\ events' = Insert(events, end.new)
        /\ meta' = [s \in Streams |-> IF s \in affected THEN MetaOf(end.seqs, s) ELSE meta[s]]
        /\ seqs' = end.seqs
        /\ reply' = end.reply

(* Events are removed, then their keys and the metadata of their streams.   *)
RemoveEvents(gone) ==
    LET next == WithoutKeysOf(seqs, gone)
        affected == {e.stream : e \in gone}
    IN  /\ Call("events") /\ UNCHANGED up /\ OnEvents
        /\ events' = events \ gone
        /\ seqs' = next
        /\ meta' = [s \in Streams |-> IF s \in affected THEN MetaOf(next, s) ELSE meta[s]]
        /\ reply' = {}

LastEvent(s) == {e \in events : e.stream = s /\ \A o \in events : o.stream = s => o.seq <= e.seq}

DeleteLastEvent(s) == s \notin Protected /\ LastEvent(s) # {} /\ RemoveEvents(LastEvent(s))

(* delete_stream forgets the counter and the keys of the stream. *)
Dropped(q, s) ==
    [max |-> [q.max EXCEPT ![s] = 0], keys |-> [q.keys EXCEPT ![s] = Unused.keys[s]]]

DeleteStream(s) ==
    /\ Call("events") /\ UNCHANGED up /\ OnEvents
    /\ s \notin Protected
    /\ events' = {e \in events : e.stream # s}
    /\ seqs' = Dropped(seqs, s)
    /\ meta' = [meta EXCEPT ![s] = None]
    /\ reply' = {}

(* retain: old events outside protected streams, and old changes the        *)
(* replicas are past (cursor).                                              *)
Eligible(cursor) ==
    {e \in events : e.stream \in Protected => e.stream = ReplicationStream /\ e.seq <= cursor}
Retain(S, cursor) == S # {} /\ S \subseteq Eligible(cursor) /\ RemoveEvents(S)

(* A removal stops part way, with an error or because the process dies.     *)
(* delete_stream removes the events one by one and the metadata last;       *)
(* delete_last_event and retain remove theirs at once and then write the    *)
(* metadata stream by stream (done: those written).                         *)
RemoveStops(gone) ==
    /\ OnEvents /\ events' = events \ gone /\ reply' = {}
    /\ \/ Call("events") /\ UNCHANGED up
       \/ part = "events" /\ up /\ Dies /\ UNCHANGED <<part, ops>>
    /\ \/ \E s \in Streams \ Protected :
             /\ gone \subseteq {e \in events : e.stream = s}
             /\ \/ UNCHANGED seqs
                \/ {e \in events : e.stream = s} \subseteq gone /\ seqs' = Dropped(seqs, s)
             /\ UNCHANGED meta
       \/ \E cursor \in Cursors, done \in SUBSET {e.stream : e \in gone} :
             /\ gone \subseteq Eligible(cursor)
             /\ seqs' = WithoutKeysOf(seqs, gone)
             /\ meta' = [s \in Streams |-> IF s \in done THEN MetaOf(seqs', s) ELSE meta[s]]

-----------------------------------------------------------------------------
(* list_events: pages of the keyspace after a key, filtered, up to a limit. *)
(* stream and limit may be None; hidden are the events older than `since`.  *)
EventLess(d, e) == d.stream < e.stream \/ (d.stream = e.stream /\ d.seq < e.seq)
Nth(S, n) == CHOOSE e \in S : Cardinality({d \in S : EventLess(d, e)}) = n - 1
InOrder(S) == [i \in 1..Cardinality(S) |-> Nth(S, i)]

PageLimit(limit, hidden) == IF hidden # {} \/ limit = None THEN PageSize ELSE Min({limit, PageSize})

MutLastPage(page, kept, size) == kept = <<>>
LastPage(page, kept, size) == Len(page) < size

ListEvents(stream, after, hidden, limit) ==
    LET range == {e \in events : stream # None => e.stream = stream /\ e.seq > after}
        total == Cardinality(range)
        size == PageLimit(limit, hidden)
        page(p) == [i \in 1..(Min({p + size, total}) - p) |-> Nth(range, p + i)]
        kept(p) == InOrder(ToSet(page(p)) \ hidden)
        scan[p \in 0..total] ==
            IF page(p) = <<>> THEN <<>>
            ELSE IF LastPage(page(p), kept(p), size) THEN kept(p)
            ELSE kept(p) \o scan[p + Len(page(p))]
    IN  IF limit = 0 THEN <<>>
        ELSE IF limit = None THEN scan[0]
        ELSE SubSeq(scan[0], 1, Min({limit, Len(scan[0])}))

-----------------------------------------------------------------------------
(* Links. *)
Link(id, a, b) == [id |-> id, from |-> a, to |-> b]
FromKey(l) == <<l.from, l.id>>
ToKey(l) == <<l.to, l.id>>
Named(id) == {l \in byId : l.id = id}

(* Three inserts, or three removes, one after the other: n of them happen.  *)
InsertLink(l, n) ==
    /\ byId' = (byId \ Named(l.id)) \cup {l}
    /\ from' = IF n > 1 THEN from \cup {FromKey(l)} ELSE from
    /\ to' = IF n > 2 THEN to \cup {ToKey(l)} ELSE to
    /\ torn' = (torn \/ n < 3)
RemoveLink(l, n) ==
    /\ byId' = byId \ {l}
    /\ from' = IF n > 1 THEN from \ {FromKey(l)} ELSE from
    /\ to' = IF n > 2 THEN to \ {ToKey(l)} ELSE to
    /\ torn' = (torn \/ n < 3)

(* A call that returns, with an error if a write failed (n < 3), or one the *)
(* process does not survive.                                                *)
LinkCall(n) ==
    /\ OnLinks
    /\ \/ Call("links") /\ UNCHANGED up
       \/ part = "links" /\ up /\ n < 3 /\ Dies /\ UNCHANGED <<part, ops>>

CreateLink(a, b, n) ==
    /\ LinkCall(n)
    /\ nextLink <= MaxLink
    /\ InsertLink(Link(nextLink, a, b), n)
    /\ nextLink' = nextLink + 1

(* import_link: the id is the caller's; one that is taken is left alone.    *)
Larger(a, b) == IF a > b THEN a ELSE b
ImportLink(l, n) ==
    /\ LinkCall(n)
    /\ n = 3 \/ ~up' \/ "import" \in Exposed
    /\ Named(l.id) = {}
    /\ InsertLink(l, n)
    /\ nextLink' = IF n = 3 /\ l.id > 0 THEN Larger(nextLink, l.id + 1) ELSE nextLink

DeleteLink(l, n) ==
    /\ LinkCall(n)
    /\ RemoveLink(l, n)
    /\ UNCHANGED nextLink

(* get_neighbors in both directions *)
Neighbors(ref) ==
    [out |-> {l \in byId : <<ref, l.id>> \in from}, in |-> {l \in byId : <<ref, l.id>> \in to}]

-----------------------------------------------------------------------------
(* What open_from_database reads back. *)
Migrates == \A s \in Streams : meta[s] = None

ReadSeqs ==
    IF Migrates
    THEN [max |-> [s \in Streams |-> Max({e.seq : e \in {d \in events : d.stream = s}} \cup {0})],
          keys |-> [s \in Streams |-> [i \in Idems |->
              Max({e.seq : e \in {d \in events : d.stream = s /\ i # 0 /\ d.idem = i}} \cup {0})]]]
    ELSE [max |-> [s \in Streams |-> IF meta[s] = None THEN 0 ELSE meta[s].max],
          keys |-> [s \in Streams |-> IF meta[s] = None THEN Unused.keys[s] ELSE meta[s].keys]]

(* Streams whose metadata the migration writes, one after the other. *)
Migrating == IF Migrates THEN {e.stream : e \in events} ELSE {}

ReadNextLink == Max({l.id : l \in byId} \cup {0}) + 1

Reopen ==
    /\ ~up /\ up' = TRUE
    /\ cache' = Built(objects, index)
    /\ seqs' = ReadSeqs
    /\ meta' = [s \in Streams |-> IF s \in Migrating THEN MetaOf(ReadSeqs, s) ELSE meta[s]]
    /\ nextLink' = ReadNextLink
    /\ reply' = {}
    /\ UNCHANGED <<part, objects, vectors, index, direct, events, byId, from, to, torn, ops, crashes>>

ReopenDies(S) ==
    /\ ~up /\ Dies
    /\ S \subseteq Migrating
    /\ S \in {{}, Migrating} \/ "migration" \in Exposed
    /\ meta' = [s \in Streams |-> IF s \in S THEN MetaOf(ReadSeqs, s) ELSE meta[s]]
    /\ reply' = {}
    /\ UNCHANGED <<part, ovars, events, seqs, lvars, ops>>

(* The process dies between two calls, or is closed: open rebuilds alike.   *)
Crash ==
    /\ up /\ Dies /\ reply' = {}
    /\ UNCHANGED <<part, ovars, evars, lvars, ops>>

-----------------------------------------------------------------------------
Init ==
    /\ part \in Parts /\ up = FALSE
    /\ objects = [k \in Keys |-> None] /\ vectors = {} /\ index = "none"
    /\ cache = Built(objects, index) /\ direct = {}
    /\ events \in IF part = "events" THEN {{}, Legacy} ELSE {{}}
    /\ meta = [s \in Streams |-> None] /\ seqs = Unused /\ reply = {}
    /\ byId = {} /\ from = {} /\ to = {} /\ nextLink = 1 /\ torn = FALSE
    /\ ops = 0 /\ crashes = 0

Items == [key : {k \in Keys : k[1] = Indexed}, body : Bodies]

ObjectNext ==
    \/ \E k \in Keys, b \in Bodies :
          \/ \E x \in Versions \cup {None} : PutObject(k, b, x)
          \/ \E v \in Versions : PutWithSourceMetadata(k, b, v, None)
          \/ PutWithSourceMetadataDies(k, b)
    \/ \E seq \in BoundedSeq(Items, MaxBatch) : PutObjectsBatch(seq)
    \/ \E S \in SUBSET Keys, batch \in BOOLEAN : DeleteObjects(S, batch)
    \/ \E def \in {"plain", "unique"} : CreateIndex(def)
    \/ DeleteIndex
    \/ \E k \in Keys, add \in BOOLEAN : SetVector(k, add)

EventNext ==
    \/ \E s \in Streams, i \in Idems : AppendEvent(s, i) \/ AppendFails(s, i)
    \/ \E asks \in BoundedSeq(Streams \X Idems, MaxBatch) : AppendEventsBatch(asks)
    \/ \E s \in Streams : DeleteLastEvent(s) \/ DeleteStream(s)
    \/ \E S \in SUBSET events : RemoveStops(S) \/ \E cursor \in Cursors : Retain(S, cursor)

LinkNext ==
    \E n \in 1..3 :
        \/ \E a, b \in Refs :
              CreateLink(a, b, n) \/ \E id \in 0..MaxLink : ImportLink(Link(id, a, b), n)
        \/ \E l \in byId : DeleteLink(l, n)

Next ==
    \/ ObjectNext \/ EventNext \/ LinkNext
    \/ Crash \/ Reopen
    \/ \E S \in SUBSET Streams : ReopenDies(S)

Spec == Init /\ [][Next]_vars

-----------------------------------------------------------------------------
(* The objects, events and links the engine shows are a record store: two   *)
(* objects never hold the same value of a unique field, an event is never   *)
(* overwritten, an idempotency key names one live event, retries after a    *)
(* failed append are answered with their own event, and link ids are never  *)
(* taken twice, through batches, failures, crashes and reopens.             *)
Shown(o) == IF o = None THEN None ELSE [f |-> o.f, version |-> o.version]
Abstract == INSTANCE RecordStore WITH
    objects <- [k \in Keys |-> Shown(objects[k])], unique <- (index = "unique"), links <- byId
RefinesRecordStore == Abstract!RSpec

(* While the cache of unique values is complete and no JSON is missing, it  *)
(* maps exactly the values that stored objects hold to their objects.       *)
CacheExact ==
    up /\ index = "unique" /\ cache.complete =>
        /\ cache.def = index
        /\ \A k \in Keys : k \in Valued(objects) <=>
              \E v \in DOMAIN cache.values : cache.values[v] = k /\ objects[k] # None /\ objects[k].f = v
        /\ DOMAIN cache.values = {objects[k].f : k \in Valued(objects)}

(* What is kept beside the objects follows them: a put is refused for, and  *)
(* only for, a value another object really has (CacheExact), and an object  *)
(* has a vector in the vector keyspace when, and only when, its body        *)
(* carries one, unless the caller set or removed it by hand.                *)
DerivedExact ==
    /\ CacheExact
    /\ part = "objects" =>
          \A k \in Keys \ direct : k \in vectors <=> objects[k] # None /\ objects[k].vec

(* list_events returns the events of the stream after the given sequence,   *)
(* not older than `since`, in order, the first `limit` of them, wherever    *)
(* the page boundaries fall.  Unless a link operation was cut short,        *)
(* get_neighbors finds every link of a reference, in both directions, and   *)
(* no other link.                                                           *)
ListingsExact ==
    /\ \A stream \in {1, None}, limit \in {2, 3, None}, hidden \in {{}, {e \in events : e.idem = 0}} :
          LET after == 1
              wanted == {e \in events \ hidden : stream # None => e.stream = stream /\ e.seq > after}
              n == IF limit = None THEN Cardinality(wanted) ELSE Min({limit, Cardinality(wanted)})
              got == ListEvents(stream, after, hidden, limit)
          IN  /\ Len(got) = n
              /\ \A i \in 1..n : got[i] \in wanted /\
                    Cardinality({e \in wanted : EventLess(e, got[i])}) = i - 1
    /\ ~torn => \A ref \in Refs :
          Neighbors(ref) = [out |-> {l \in byId : l.from = ref}, in |-> {l \in byId : l.to = ref}]
=============================================================================
