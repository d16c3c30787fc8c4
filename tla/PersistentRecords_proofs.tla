----------------------- MODULE PersistentRecords_proofs -----------------------
(***************************************************************************)
(* Proofs about module PersistentRecords: the caches, indexes, counters    *)
(* and vectors kept beside objects, events and links follow them, and the  *)
(* three stores implement RecordStore, and listings are exact, for any     *)
(* keys, fields, bodies, streams, idempotency keys, page sizes, batches of *)
(* any length, failures, crashes and reopens, as long as none of the       *)
(* Exposed cases occurs.                                                   *)
(***************************************************************************)
EXTENDS PersistentRecords, FiniteSetTheorems, FunctionTheorems, WellFoundedInduction, TLAPS

-----------------------------------------------------------------------------
(* Objects *)

FieldValue == Fields \cup {Null, Bad}
Record == [f : FieldValue, vec : BOOLEAN, version : Nat]

(* No two objects of the indexed collection hold the same value. *)
Distinct(objs) == \A k, l \in Valued(objs) : k # l => objs[k].f # objs[l].f

(* The values map exactly what the objects hold to their keys. *)
Exact(values, objs) ==
    /\ DOMAIN values = {objs[k].f : k \in Valued(objs)}
    /\ \A k \in Valued(objs) : values[objs[k].f] = k

CacheType(c) ==
    /\ c = [values |-> c.values, complete |-> c.complete, def |-> c.def]
    /\ c.complete \in BOOLEAN

(* What a cache of the objects has to be. *)
Caches(c, def, objs) ==
    /\ c.def = def
    /\ def = "unique" /\ c.complete => Exact(c.values, objs)

HasVector(o) == o # None /\ o.vec

VectorsFollow(vecs, objs) == \A k \in Keys \ direct : k \in vecs <=> HasVector(objs[k])

ObjectInv ==
    /\ objects \in [Keys -> Record \cup {None}] /\ index \in {"none", "plain", "unique"}
    /\ vectors \subseteq Keys
    /\ CacheType(cache)
    /\ VectorsFollow(vectors, objects)
    /\ index = "unique" => Distinct(objects)
    /\ up => Caches(cache, index, objects)

-----------------------------------------------------------------------------
(* Events *)

EventType == [stream : Streams, seq : Nat \ {0}, idem : Idems]
MetaType == [max : Nat, keys : [Idems -> Nat]]

(* Streams have one event per position and per idempotency key. *)
Separate(evs) ==
    \A e, o \in evs :
        e # o /\ e.stream = o.stream => e.seq # o.seq /\ (e.idem = 0 \/ e.idem # o.idem)

(* Counter and keys of stream s are up to date with its events: the next    *)
(* sequence is free, a live event is found under its key, and what is found *)
(* under a key has that key.                                                *)
Covers(m, evs, s) ==
    /\ \A e \in evs : e.stream = s =>
          /\ e.seq <= m.max
          /\ e.idem # 0 => m.keys[e.idem] = e.seq
          /\ \A i \in Idems \ {0} : m.keys[i] = e.seq => e.idem = i
    /\ \A i \in Idems : m.keys[i] <= m.max

SeqsType == [max : [Streams -> Nat], keys : [Streams -> [Idems -> Nat]]]

AllCovered(q, evs) == \A s \in Streams : Covers(MetaOf(q, s), evs, s)

EventInv ==
    /\ events \subseteq EventType /\ IsFiniteSet(events) /\ Separate(events)
    /\ seqs \in SeqsType
    /\ up => AllCovered(seqs, events)
    /\ meta \in [Streams -> MetaType \cup {None}]
    /\ \A s \in Streams : meta[s] # None => Covers(meta[s], events, s)
    /\ up \/ ~Migrates => \A e \in events : meta[e.stream] # None

-----------------------------------------------------------------------------
(* Links *)

LinkType == [id : 0..MaxLink, from : Refs, to : Refs]

LinkInv ==
    /\ byId \subseteq LinkType
    /\ nextLink \in Nat \ {0}
    /\ up => \A l \in byId : l.id < nextLink

RecInv == ObjectInv /\ EventInv /\ LinkInv

-----------------------------------------------------------------------------
(* Lemmas about the objects *)

Objects == [Keys -> Record \cup {None}]

(* No other object of the indexed collection has the value b claims for k. *)
Free(k, b, objs) ==
    k[1] = Indexed /\ b.f \in Fields => \A l \in Valued(objs) \ {k} : objs[l].f # b.f

(* A body stored is a record. *)
LEMMA StoredType ==
    ASSUME NEW b \in Bodies, NEW version \in Nat
    PROVE  /\ Stored(b, version) \in Record /\ Stored(b, version) # None
           /\ Stored(b, version).f = b.f /\ Stored(b, version).vec = b.vec
           /\ Stored(b, version).version = version /\ b.vec \in BOOLEAN
BY RecordConstants DEF Stored, Record, FieldValue

(* The next version is a number. *)
LEMMA NextVersionType ==
    ASSUME NEW o \in Record \cup {None}
    PROVE  NextVersion(o) \in Nat /\ (o # None => NextVersion(o) > o.version)
BY DEF NextVersion, Record

(* Which objects have a value after a put. *)
LEMMA ValuedAfter ==
    ASSUME NEW objs \in Objects, NEW k \in Keys, NEW o \in Record
    PROVE  \A l \in Keys :
             /\ l # k => (l \in Valued([objs EXCEPT ![k] = o]) <=> l \in Valued(objs))
             /\ l # k => [objs EXCEPT ![k] = o][l] = objs[l]
             /\ [objs EXCEPT ![k] = o][k] = o
             /\ k \in Valued([objs EXCEPT ![k] = o]) <=> k[1] = Indexed /\ o.f \in Fields
<1>1. o # None
  BY RecordConstants DEF Record, FieldValue
<1>2. \A l \in Keys : [objs EXCEPT ![k] = o][l] = IF l = k THEN o ELSE objs[l]
  BY DEF Objects
<1> QED
  BY <1>1, <1>2 DEF Valued

(* A put of a free value keeps the values apart. *)
LEMMA PutDistinct ==
    ASSUME NEW objs \in Objects, NEW k \in Keys, NEW b \in Bodies, NEW o \in Record, o.f = b.f,
           Distinct(objs), Free(k, b, objs)
    PROVE  Distinct([objs EXCEPT ![k] = o])
<1> DEFINE new == [objs EXCEPT ![k] = o]
<1> SUFFICES ASSUME NEW x \in Valued(new), NEW y \in Valued(new), x # y
             PROVE  new[x].f # new[y].f
  BY DEF Distinct
<1>0. x \in Keys /\ y \in Keys
  BY DEF Valued
<1>1. CASE x = k
  <2>1. y \in Valued(objs) /\ new[y] = objs[y] /\ new[x] = o /\ k[1] = Indexed /\ o.f \in Fields
    BY <1>0, <1>1, ValuedAfter
  <2> QED
    BY <1>1, <2>1 DEF Free
<1>2. CASE y = k
  <2>1. x \in Valued(objs) /\ new[x] = objs[x] /\ new[y] = o /\ k[1] = Indexed /\ o.f \in Fields
    BY <1>0, <1>2, ValuedAfter
  <2> QED
    BY <1>2, <2>1 DEF Free
<1>3. CASE x # k /\ y # k
  <2>1. x \in Valued(objs) /\ new[x] = objs[x] /\ y \in Valued(objs) /\ new[y] = objs[y]
    BY <1>0, <1>3, ValuedAfter
  <2> QED
    BY <2>1 DEF Distinct
<1> QED
  BY <1>1, <1>2, <1>3

(* update_unique_index_cache_for_object keeps an exact cache exact: the     *)
(* value it drops is the one the object itself had.                         *)
LEMMA UpdatedExact ==
    ASSUME NEW objs \in Objects, NEW k \in Keys, NEW b \in Bodies, NEW o \in Record, o.f = b.f,
           NEW c, CacheType(c), c.def = "unique", c.complete,
           Distinct(objs), Free(k, b, objs), Exact(c.values, objs)
    PROVE  Exact(Updated(c, k, objs[k], b).values, [objs EXCEPT ![k] = o])
<1> DEFINE new == [objs EXCEPT ![k] = o]
           values == Updated(c, k, objs[k], b).values
<1> SUFFICES Exact(values, new)
  OBVIOUS
<1>0. \A l \in Valued(objs) : l \in Keys /\ l[1] = Indexed /\ objs[l] # None /\ objs[l].f \in Fields
  BY DEF Valued
<1>1. CASE k[1] # Indexed
  <2>1. values = c.values
    BY <1>1 DEF Updated
  <2>2. Valued(new) = Valued(objs) /\ \A l \in Valued(objs) : new[l] = objs[l]
    <3>1. \A l \in Keys : l \in Valued(new) <=> l \in Valued(objs)
      BY <1>0, <1>1, ValuedAfter
    <3>2. \A l \in Valued(objs) : new[l] = objs[l]
      BY <1>0, <1>1, ValuedAfter
    <3> QED
      BY <3>1, <3>2 DEF Valued
  <2> HIDE DEF new, values
  <2>3. {new[l].f : l \in Valued(new)} = {objs[l].f : l \in Valued(objs)}
    BY <2>2
  <2> QED
    BY <2>1, <2>2, <2>3 DEF Exact
<1>2. CASE k[1] = Indexed
  <2> DEFINE kept == IF objs[k] = None THEN c.values ELSE Minus(c.values, {objs[k].f})
  <2>1. values = IF b.f \in Fields THEN Put(kept, b.f, k) ELSE kept
    BY <1>2 DEF Updated, CacheType
  <2>2. k \in Valued(objs) <=> objs[k] # None /\ objs[k].f \in Fields
    BY <1>2 DEF Valued
  <2>3. /\ DOMAIN kept = {objs[l].f : l \in Valued(objs) \ {k}}
        /\ \A l \in Valued(objs) \ {k} : kept[objs[l].f] = l
    <3>1. CASE objs[k] = None
      BY <2>2, <3>1 DEF Exact
    <3>2. CASE objs[k] # None
      <4>1. DOMAIN kept = DOMAIN c.values \ {objs[k].f} /\ \A v \in DOMAIN kept : kept[v] = c.values[v]
        BY <3>2 DEF Minus
      <4>2. \A l \in Valued(objs) \ {k} : objs[l].f # objs[k].f
        BY <1>0, <2>2, <3>2 DEF Distinct
      <4> HIDE DEF kept
      <4>3. DOMAIN kept = {objs[l].f : l \in Valued(objs) \ {k}}
        <5>1. ASSUME NEW v \in DOMAIN kept PROVE \E l \in Valued(objs) \ {k} : v = objs[l].f
          BY <4>1 DEF Exact
        <5>2. ASSUME NEW l \in Valued(objs) \ {k} PROVE objs[l].f \in DOMAIN kept
          BY <4>1, <4>2 DEF Exact
        <5> QED
          BY <5>1, <5>2
      <4> QED
        BY <4>1, <4>3 DEF Exact
    <3> QED
      BY <3>1, <3>2
  <2> HIDE DEF kept
  <2>4. \A l \in Keys : l # k => (l \in Valued(new) <=> l \in Valued(objs)) /\ new[l] = objs[l]
    BY ValuedAfter
  <2>5. new[k] = o /\ (k \in Valued(new) <=> b.f \in Fields)
    BY <1>2, ValuedAfter
  <2>6. Valued(new) \subseteq Keys /\ Valued(objs) \subseteq Keys
    BY DEF Valued
  <2>7. CASE b.f \in Fields
    <3>1. /\ DOMAIN values = DOMAIN kept \cup {b.f} /\ values[b.f] = k
          /\ \A v \in DOMAIN kept : v # b.f => values[v] = kept[v]
      BY <2>1, <2>7 DEF Put
    <3>2. Valued(new) = Valued(objs) \cup {k}
      BY <2>4, <2>5, <2>6, <2>7
    <3>3. \A l \in Valued(objs) \ {k} : objs[l].f # b.f
      BY <1>2, <2>7 DEF Free
    <3> HIDE DEF new, values
    <3>4. {new[l].f : l \in Valued(new)} = {objs[l].f : l \in Valued(objs) \ {k}} \cup {b.f}
      BY <2>4, <2>5, <2>6, <3>2
    <3>5. DOMAIN values = {new[l].f : l \in Valued(new)}
      BY <2>3, <3>1, <3>4
    <3>6. \A l \in Valued(new) : values[new[l].f] = l
      <4> SUFFICES ASSUME NEW l \in Valued(new) PROVE values[new[l].f] = l
        OBVIOUS
      <4>1. CASE l = k
        BY <2>5, <3>1, <4>1
      <4>2. CASE l # k
        BY <2>3, <2>4, <2>6, <3>1, <3>3, <4>2
      <4> QED
        BY <4>1, <4>2
    <3> QED
      BY <3>5, <3>6 DEF Exact
  <2>8. CASE b.f \notin Fields
    <3>1. values = kept
      BY <2>1, <2>8
    <3>2. Valued(new) = Valued(objs) \ {k}
      BY <2>4, <2>5, <2>6, <2>8
    <3> HIDE DEF new, values
    <3>3. {new[l].f : l \in Valued(new)} = {objs[l].f : l \in Valued(objs) \ {k}}
      BY <2>4, <2>6, <3>2
    <3>4. \A l \in Valued(new) : values[new[l].f] = l
      BY <2>3, <2>4, <2>6, <3>1, <3>2
    <3> QED
      BY <2>3, <3>1, <3>3, <3>4 DEF Exact
  <2> QED
    BY <2>7, <2>8
<1> QED
  BY <1>1, <1>2

(* A put of a free value keeps cache and objects together. *)
LEMMA UpdatedCaches ==
    ASSUME NEW objs \in Objects, NEW k \in Keys, NEW b \in Bodies, NEW o \in Record, o.f = b.f,
           NEW c, CacheType(c), NEW def, Caches(c, def, objs),
           def = "unique" => Distinct(objs) /\ Free(k, b, objs)
    PROVE  /\ CacheType(Updated(c, k, objs[k], b))
           /\ Caches(Updated(c, k, objs[k], b), def, [objs EXCEPT ![k] = o])
           /\ def = "unique" => Distinct([objs EXCEPT ![k] = o])
           /\ Updated(c, k, objs[k], b).complete = c.complete
<1> DEFINE u == Updated(c, k, objs[k], b)
<1>1. CacheType(u) /\ u.def = c.def /\ u.complete = c.complete
  <2>1. u = c \/ \E v : u = [c EXCEPT !.values = v]
    BY DEF Updated
  <2> QED
    BY <2>1 DEF CacheType
<1>2. def = "unique" /\ c.complete => Exact(u.values, [objs EXCEPT ![k] = o])
  BY UpdatedExact DEF Caches
<1>3. def = "unique" => Distinct([objs EXCEPT ![k] = o])
  BY PutDistinct
<1> QED
  BY <1>1, <1>2, <1>3 DEF Caches

(* validate_unique_indexes admits free values only, with a complete cache   *)
(* and without.                                                             *)
LEMMA ValidFree ==
    ASSUME Caches(cache, index, objects), index = "unique",
           NEW k \in Keys, NEW b \in Bodies, Valid(k, b)
    PROVE  Free(k, b, objects)
<1> SUFFICES ASSUME k[1] = Indexed, b.f \in Fields, NEW l \in Valued(objects) \ {k}, objects[l].f = b.f
             PROVE  FALSE
  BY DEF Free
<1>1. HasUnique(k)
  BY DEF HasUnique, Caches
<1>2. CASE cache.complete
  <2>1. b.f \in DOMAIN cache.values /\ cache.values[b.f] = l
    BY <1>2 DEF Caches, Exact
  <2> QED
    BY <1>1, <1>2, <2>1 DEF Valid
<1>3. CASE ~cache.complete
  BY <1>1, <1>3 DEF Valid
<1> QED
  BY <1>2, <1>3

(* What build_unique_index_cache builds is a cache of the objects. *)
LEMMA BuiltCaches ==
    ASSUME NEW objs \in Objects, NEW def, def = "unique" => Distinct(objs)
    PROVE  CacheType(Built(objs, def)) /\ Caches(Built(objs, def), def, objs)
<1>1. CASE def # "unique"
  BY <1>1 DEF Built, CacheType, Caches
<1>2. CASE def = "unique"
  <2> DEFINE holders(v) == {k \in Valued(objs) : objs[k].f = v}
             shown == {v \in Fields : holders(v) # {}}
             values == [v \in shown |-> CHOOSE k \in holders(v) :
                                \A l \in holders(v) \ {k} : KeyLess(l, k)]
             complete == /\ \A k \in Keys : objs[k] # None => objs[k].f # Bad
                         /\ \A v \in shown : Cardinality(holders(v)) = 1
             c == [values |-> values, complete |-> complete, def |-> def]
  <2>1. Built(objs, def) = c
    BY <1>2 DEF Built
  <2>2. complete \in BOOLEAN
    OBVIOUS
  <2>3. \A k \in Valued(objs) : objs[k].f \in Fields
    BY DEF Valued
  <2>4. shown = {objs[k].f : k \in Valued(objs)}
    BY <2>3
  <2>5. \A k \in Valued(objs) : holders(objs[k].f) = {k}
    BY <1>2 DEF Distinct
  <2>6. ASSUME NEW k \in Valued(objs) PROVE values[objs[k].f] = k
    <3>1. holders(objs[k].f) = {k} /\ objs[k].f \in shown
      BY <2>4, <2>5
    <3>2. values[objs[k].f] = CHOOSE x \in holders(objs[k].f) :
                                   \A l \in holders(objs[k].f) \ {x} : KeyLess(l, x)
      BY <3>1
    <3> HIDE DEF holders, shown, values
    <3> QED
      BY <3>1, <3>2
  <2>7. DOMAIN values = shown
    OBVIOUS
  <2>8. Exact(values, objs)
    <3> HIDE DEF values, shown
    <3> QED
      BY <2>4, <2>6, <2>7 DEF Exact
  <2> HIDE DEF values, complete
  <2> QED
    BY <2>1, <2>2, <2>8 DEF CacheType, Caches
<1> QED
  BY <1>1, <1>2

(* Forgetting the values of deleted objects keeps an exact cache exact. *)
LEMMA ForgottenExact ==
    ASSUME objects \in Objects, NEW S, Distinct(objects), Exact(cache.values, objects),
           CacheType(cache), cache.complete,
           NEW found, found = {k \in S : objects[k] # None},
           NEW new \in Objects, \A k \in Keys : new[k] = IF k \in S THEN None ELSE objects[k]
    PROVE  Exact(Forgotten(cache, found).values, new)
<1> DEFINE gone == {objects[k].f : k \in found \cap Valued(objects)}
           values == Minus(cache.values, gone)
<1>1. Forgotten(cache, found).values = values
  BY DEF Forgotten, CacheType
<1>2. \A k \in Valued(objects) : k \in Keys /\ objects[k] # None
  BY DEF Valued
<1>3. Valued(new) = Valued(objects) \ S /\ \A k \in Valued(new) : new[k] = objects[k]
  BY DEF Valued
<1>4. DOMAIN values = DOMAIN cache.values \ gone /\ \A v \in DOMAIN values : values[v] = cache.values[v]
  BY DEF Minus
<1>5. \A k \in Valued(objects) : objects[k].f \in gone <=> k \in S
  BY <1>2 DEF Distinct
<1> HIDE DEF gone, values
<1>6. ASSUME NEW v \in DOMAIN values PROVE \E k \in Valued(new) : v = new[k].f
  BY <1>3, <1>4, <1>5 DEF Exact
<1>7. ASSUME NEW k \in Valued(new) PROVE new[k].f \in DOMAIN values /\ values[new[k].f] = k
  BY <1>3, <1>4, <1>5 DEF Exact
<1>8. DOMAIN values = {new[k].f : k \in Valued(new)}
  <2>1. DOMAIN values \subseteq {new[k].f : k \in Valued(new)}
    BY <1>6
  <2>2. {new[k].f : k \in Valued(new)} \subseteq DOMAIN values
    BY <1>7
  <2> QED
    BY <2>1, <2>2
<1> QED
  BY <1>1, <1>7, <1>8 DEF Exact

(* A write of an object keeps all that belongs to the objects.              *)
LEMMA WriteKeeps ==
    ASSUME ObjectInv, up, UNCHANGED index,
           NEW k \in Keys, NEW b \in Bodies, NEW version \in Nat, Valid(k, b), Write(k, b, version)
    PROVE  ObjectInv' /\ objects' = [objects EXCEPT ![k] = Stored(b, version)]
<1> DEFINE o == Stored(b, version)
<1>1. o \in Record /\ o # None /\ o.f = b.f /\ o.vec = b.vec /\ b.vec \in BOOLEAN
  BY StoredType
<1>2. /\ objects' = [objects EXCEPT ![k] = o]
      /\ vectors' = IF b.vec THEN vectors \cup {k} ELSE vectors \ {k}
      /\ cache' = Updated(cache, k, objects[k], b)
      /\ direct' = direct \ {k}
  BY DEF Write
<1> HIDE DEF o
<1>3. objects \in Objects /\ objects' \in Objects
  BY <1>1, <1>2 DEF ObjectInv, Objects
<1>4. index = "unique" => Distinct(objects) /\ Free(k, b, objects)
  BY ValidFree DEF ObjectInv
<1>5. /\ CacheType(cache') /\ Caches(cache', index, objects')
      /\ index = "unique" => Distinct(objects')
  BY <1>1, <1>2, <1>3, <1>4, UpdatedCaches DEF ObjectInv
<1>6. \A l \in Keys \ direct' : l \in vectors' <=> HasVector(objects'[l])
  <2> SUFFICES ASSUME NEW l \in Keys \ direct' PROVE l \in vectors' <=> HasVector(objects'[l])
    OBVIOUS
  <2>1. CASE l = k
    <3>1. objects'[l] = o
      BY <1>2, <2>1 DEF ObjectInv
    <3>2. l \in vectors' <=> b.vec
      BY <1>2, <2>1
    <3> QED
      BY <1>1, <3>1, <3>2 DEF HasVector
  <2>2. CASE l # k
    <3>1. objects'[l] = objects[l]
      BY <1>2, <2>2 DEF ObjectInv
    <3>2. l \in vectors' <=> l \in vectors
      BY <1>2, <2>2
    <3>3. l \in Keys \ direct
      BY <1>2, <2>2
    <3>4. l \in vectors <=> HasVector(objects[l])
      BY <3>3 DEF ObjectInv, VectorsFollow
    <3> QED
      BY <3>1, <3>2, <3>4
  <2> QED
    BY <2>1, <2>2
<1>7. VectorsFollow(vectors, objects)'
  BY <1>6 DEF VectorsFollow
<1>8. objects' \in [Keys -> Record \cup {None}] /\ index' \in {"none", "plain", "unique"} /\ vectors' \subseteq Keys
  BY <1>2, <1>3 DEF ObjectInv, Objects
<1>9. objects' = [objects EXCEPT ![k] = Stored(b, version)]
  BY <1>2 DEF o
<1> QED
  BY <1>5, <1>7, <1>8, <1>9 DEF ObjectInv, CacheType, Distinct, Caches

-----------------------------------------------------------------------------
(* put_objects_batch *)

(* The keys of the first i objects of a batch. *)
BatchKeys(seq, i) == {seq[j].key : j \in 1..i}

(* The objects written and, with a complete cache, the ones outside the     *)
(* batch are in the virtual index under their values.                       *)
Claimed(acc, seq, i) ==
    \A l \in Valued(acc.objects) :
        l \in BatchKeys(seq, i) \/ (cache.complete /\ l \notin BatchKeys(seq, Len(seq))) =>
            acc.objects[l].f \in DOMAIN acc.virtual /\ acc.virtual[acc.objects[l].f] = l

(* No object is lost, and the version of one that changes grows. *)
Grown(objs) ==
    \A l \in Keys : objects[l] # None =>
        objs[l] # None /\ (objs[l] = objects[l] \/ objs[l].version > objects[l].version)

(* What preparing a batch has reached after i objects. *)
Good(acc, seq, i) ==
    /\ acc.objects \in Objects /\ acc.vectors \subseteq Keys
    /\ CacheType(acc.cache) /\ Caches(acc.cache, index, acc.objects)
    /\ index = "unique" => Distinct(acc.objects) /\ Claimed(acc, seq, i)
    /\ VectorsFollow(acc.vectors, acc.objects)
    /\ Grown(acc.objects)
    /\ \A l \in Keys \ BatchKeys(seq, i) : acc.objects[l] = objects[l]

(* The keys of one more object. *)
LEMMA BatchKeysNext ==
    ASSUME NEW seq, NEW i \in Nat
    PROVE  /\ \A l : l \in BatchKeys(seq, i + 1) <=> l \in BatchKeys(seq, i) \/ l = seq[i + 1].key
           /\ \A l : l \in BatchKeys(seq, i) <=> \E j \in 1..i : l = seq[j].key
           /\ BatchKeys(seq, 0) = {}
<1>1. 1..(i + 1) = (1..i) \cup {i + 1} /\ 1..0 = {}
  OBVIOUS
<1> QED
  BY <1>1 DEF BatchKeys

(* The objects of a batch. *)
LEMMA ItemType ==
    ASSUME NEW seq \in Seq(Items), NEW i \in 1..Len(seq)
    PROVE  /\ i \in DOMAIN seq /\ seq[i].key \in Keys /\ seq[i].key[1] = Indexed
           /\ seq[i].body \in Bodies
<1>1. i \in DOMAIN seq /\ seq[i] \in Items
  OBVIOUS
<1>2. \A x \in Items : x.key \in {k \in Keys : k[1] = Indexed} /\ x.body \in Bodies
  BY DEF Items
<1> QED
  BY <1>1, <1>2

(* The value that the next object of a batch claims is free. *)
LEMMA NextIsFree ==
    ASSUME ObjectInv, up, index = "unique", NEW seq \in Seq(Items), ~Hands(seq),
           NEW i \in Nat, i < Len(seq), NEW acc, Good(acc, seq, i),
           NEW k, k = seq[i + 1].key, NEW b, b = seq[i + 1].body,
           b.f \in Fields => (b.f \in DOMAIN acc.virtual => acc.virtual[b.f] = k),
           cache.complete \/ Valid(k, b)
    PROVE  Free(k, b, acc.objects)
<1> SUFFICES ASSUME k[1] = Indexed, b.f \in Fields,
                    NEW l \in Valued(acc.objects) \ {k}, acc.objects[l].f = b.f
             PROVE  FALSE
  BY DEF Free
<1>0. i + 1 \in DOMAIN seq /\ k \in Keys /\ b \in Bodies /\ l \in Keys
  <2>1. i + 1 \in 1..Len(seq)
    OBVIOUS
  <2> QED
    BY <2>1, ItemType DEF Valued
<1>1. CASE l \in BatchKeys(seq, i) \/ (cache.complete /\ l \notin BatchKeys(seq, Len(seq)))
  BY <1>1 DEF Good, Claimed
<1>2. CASE l \notin BatchKeys(seq, i) /\ ~cache.complete /\ l \notin BatchKeys(seq, Len(seq))
  <2>1. acc.objects[l] = objects[l] /\ l \in Valued(objects)
    BY <1>0, <1>2 DEF Good, Valued
  <2>2. Free(k, b, objects)
    BY <1>0, <1>2, ValidFree DEF ObjectInv
  <2> QED
    BY <2>1, <2>2 DEF Free
<1>3. CASE l \notin BatchKeys(seq, i) /\ l \in BatchKeys(seq, Len(seq))
  <2>1. acc.objects[l] = objects[l] /\ objects[l] # None
    BY <1>0, <1>3 DEF Good, Valued
  <2>2. PICK j \in 1..Len(seq) : l = seq[j].key
    BY <1>3 DEF BatchKeys
  <2>3. j \notin 1..i
    BY <1>3, <2>2 DEF BatchKeys
  <2>4. j # i + 1
    BY <2>2
  <2>5. i + 1 < j /\ j \in DOMAIN seq
    BY <2>2, <2>3, <2>4
  <2>6. seq[i + 1].key # seq[j].key /\ objects[seq[j].key] # None
        /\ seq[i + 1].body.f = objects[seq[j].key].f /\ seq[i + 1].body.f \in Fields
    BY <2>1, <2>2
  <2> QED
    BY <1>0, <2>5, <2>6 DEF Hands
<1> QED
  BY <1>1, <1>2, <1>3

(* Preparing one more object. *)
LEMMA PrepareKeeps ==
    ASSUME ObjectInv, up, NEW seq \in Seq(Items), ~Hands(seq),
           NEW i \in Nat, i < Len(seq), NEW acc, Good(acc, seq, i),
           NEW new, new = Prepare(acc, seq[i + 1]), new.ok
    PROVE  acc.ok /\ Good(new, seq, i + 1)
<1>0. PICK k, b : k = seq[i + 1].key /\ b = seq[i + 1].body
  OBVIOUS
<1>1. k \in Keys /\ k[1] = Indexed /\ b \in Bodies
  <2>1. i + 1 \in 1..Len(seq)
    OBVIOUS
  <2> QED
    BY <1>0, <2>1, ItemType
<1> DEFINE old == acc.objects[k]
           claims == HasUnique(k) /\ b.f \in Fields
           clash == claims /\ b.f \in DOMAIN acc.virtual /\ acc.virtual[b.f] # k
           o == Stored(b, NextVersion(old))
<1>2. /\ new.ok = (acc.ok /\ ~clash /\ (cache.complete \/ Valid(k, b)))
      /\ new.virtual = IF claims THEN Put(acc.virtual, b.f, k) ELSE acc.virtual
      /\ new.objects = [acc.objects EXCEPT ![k] = o]
      /\ new.vectors = CASE b.vec -> acc.vectors \cup {k}
                       [] ~b.vec /\ old # None /\ old.vec -> acc.vectors \ {k}
                       [] OTHER -> acc.vectors
      /\ new.cache = Updated(acc.cache, k, old, b)
  BY <1>0 DEF Prepare
<1>3. acc.ok /\ ~clash /\ (cache.complete \/ Valid(k, b))
  BY <1>2
<1>4. old \in Record \cup {None} /\ acc.objects \in Objects
  BY <1>1 DEF Good, Objects
<1>5. NextVersion(old) \in Nat /\ (old # None => NextVersion(old) > old.version)
  BY <1>4, NextVersionType
<1>6. /\ o \in Record /\ o # None /\ o.f = b.f /\ o.vec = b.vec /\ b.vec \in BOOLEAN
      /\ o.version = NextVersion(old)
  BY <1>1, <1>5, StoredType
<1>7. index = "unique" => claims = (b.f \in Fields)
  BY <1>1 DEF HasUnique, ObjectInv, Caches
<1>8. index = "unique" => Distinct(acc.objects) /\ Free(k, b, acc.objects)
  BY <1>0, <1>3, <1>7, NextIsFree DEF Good
<1> HIDE DEF o, claims
<1>9. new.objects \in Objects
  BY <1>1, <1>2, <1>4, <1>6 DEF Objects
<1>10. /\ CacheType(new.cache) /\ Caches(new.cache, index, new.objects)
       /\ index = "unique" => Distinct(new.objects)
  BY <1>1, <1>2, <1>4, <1>6, <1>8, UpdatedCaches DEF Good
<1>11. \A l \in Keys : new.objects[l] = IF l = k THEN o ELSE acc.objects[l]
  BY <1>1, <1>2, <1>4 DEF Objects
<1>12. Grown(new.objects)
  <2> SUFFICES ASSUME NEW l \in Keys, objects[l] # None
               PROVE  new.objects[l] # None /\ (new.objects[l] = objects[l] \/ new.objects[l].version > objects[l].version)
    BY DEF Grown
  <2>1. acc.objects[l] # None /\ (acc.objects[l] = objects[l] \/ acc.objects[l].version > objects[l].version)
    BY DEF Good, Grown
  <2>2. CASE l # k
    BY <1>11, <2>1, <2>2
  <2>3. CASE l = k
    <3>1. new.objects[l] = o /\ o.version > old.version /\ old = acc.objects[l]
      BY <1>5, <1>6, <1>11, <2>1, <2>3
    <3>2. old.version \in Nat /\ objects[l].version \in Nat /\ o.version \in Nat
      BY <1>4, <1>6, <2>1, <2>3 DEF ObjectInv, Record
    <3> HIDE DEF old
    <3> QED
      BY <1>6, <2>1, <3>1, <3>2
  <2> QED
    BY <2>2, <2>3
<1>13. \A l \in Keys \ BatchKeys(seq, i + 1) : new.objects[l] = objects[l]
  BY <1>0, <1>11, BatchKeysNext DEF Good
<1>14. VectorsFollow(new.vectors, new.objects)
  <2> SUFFICES ASSUME NEW l \in Keys \ direct PROVE l \in new.vectors <=> HasVector(new.objects[l])
    BY DEF VectorsFollow
  <2>1. l \in acc.vectors <=> HasVector(acc.objects[l])
    BY DEF Good, VectorsFollow
  <2>2. CASE l # k
    <3>1. l \in new.vectors <=> l \in acc.vectors
      BY <1>2, <2>2
    <3>2. new.objects[l] = acc.objects[l]
      BY <1>11, <2>2
    <3> QED
      BY <2>1, <3>1, <3>2
  <2>3. CASE l = k
    <3>1. HasVector(new.objects[l]) <=> b.vec
      BY <1>6, <1>11, <2>3 DEF HasVector
    <3>2. k \in acc.vectors <=> old # None /\ old.vec
      BY <2>1, <2>3 DEF HasVector
    <3>3. k \in new.vectors <=> b.vec
      <4> HIDE DEF old
      <4>1. CASE b.vec
        BY <1>2, <4>1
      <4>2. CASE ~b.vec /\ old # None /\ old.vec
        BY <1>2, <4>2
      <4>3. CASE ~b.vec /\ ~(old # None /\ old.vec)
        BY <1>2, <3>2, <4>3
      <4> QED
        BY <4>1, <4>2, <4>3
    <3> QED
      BY <2>3, <3>1, <3>3
  <2> QED
    BY <2>2, <2>3
<1>15. new.vectors \subseteq Keys
  <2>1. new.vectors \subseteq acc.vectors \cup {k}
    BY <1>2
  <2> QED
    BY <1>1, <2>1 DEF Good
<1>16. ASSUME index = "unique" PROVE Claimed(new, seq, i + 1)
  <2> SUFFICES ASSUME NEW l \in Valued(new.objects),
                      l \in BatchKeys(seq, i + 1) \/ (cache.complete /\ l \notin BatchKeys(seq, Len(seq)))
               PROVE  new.objects[l].f \in DOMAIN new.virtual /\ new.virtual[new.objects[l].f] = l
    BY DEF Claimed
  <2>0. l \in Keys /\ new.objects[l].f \in Fields
    BY DEF Valued
  <2>1. /\ b.f \in Fields => DOMAIN new.virtual = DOMAIN acc.virtual \cup {b.f} /\ new.virtual[b.f] = k
        /\ \A v \in DOMAIN acc.virtual : v \in DOMAIN new.virtual /\ new.virtual[v] = acc.virtual[v]
    <3>1. CASE b.f \in Fields
      <4>1. new.virtual = Put(acc.virtual, b.f, k)
        BY <1>2, <1>7, <1>16, <3>1
      <4>2. b.f \in DOMAIN acc.virtual => acc.virtual[b.f] = k
        BY <1>3, <1>7, <1>16, <3>1
      <4>3. DOMAIN new.virtual = DOMAIN acc.virtual \cup {b.f} /\ new.virtual[b.f] = k
            /\ \A v \in DOMAIN acc.virtual : v # b.f => new.virtual[v] = acc.virtual[v]
        BY <4>1 DEF Put
      <4> QED
        BY <4>2, <4>3
    <3>2. CASE b.f \notin Fields
      BY <1>2, <1>7, <1>16, <3>2
    <3> QED
      BY <3>1, <3>2
  <2>2. CASE l = k
    BY <1>6, <1>11, <2>0, <2>1, <2>2
  <2>3. CASE l # k
    <3>1. new.objects[l] = acc.objects[l] /\ l \in Valued(acc.objects)
      BY <1>11, <2>0, <2>3 DEF Valued
    <3>2. l \in BatchKeys(seq, i) \/ (cache.complete /\ l \notin BatchKeys(seq, Len(seq)))
      BY <1>0, <2>3, BatchKeysNext
    <3>3. acc.objects[l].f \in DOMAIN acc.virtual /\ acc.virtual[acc.objects[l].f] = l
      BY <1>16, <3>1, <3>2 DEF Good, Claimed
    <3> QED
      BY <2>1, <3>1, <3>3
  <2> QED
    BY <2>2, <2>3
<1> QED
  BY <1>3, <1>9, <1>10, <1>12, <1>13, <1>14, <1>15, <1>16 DEF Good

(* Every nonempty set of naturals has a least member. *)
LEMMA LeastNumber ==
    ASSUME NEW S \in SUBSET Nat, S # {}
    PROVE  \E m \in S : \A n \in S : m <= n
<1>1. PICK m \in S : \A n \in S : ~ (<<n, m>> \in OpToRel(<, Nat))
  <2>1. IsWellFoundedOn(OpToRel(<, Nat), Nat)
    BY NatLessThanWellFounded
  <2> QED
    BY <2>1, WFMin
<1>2. \A n \in S : ~(n < m)
  BY <1>1 DEF OpToRel
<1> QED
  BY <1>2

(* f follows the preparation of a batch through its first m objects. *)
Begun(seq) == [ok |-> TRUE, virtual |-> Freed(seq), objects |-> objects,
               vectors |-> vectors, cache |-> cache]
Prepares(f, seq, m) ==
    f = [i \in 0..m |-> IF i = 0 THEN Begun(seq) ELSE Prepare(f[i - 1], seq[i])]

(* The recursion of Prepared has a solution. *)
LEMMA PreparesExists ==
    ASSUME NEW seq, NEW n \in Nat
    PROVE  \E f : Prepares(f, seq, n)
<1> DEFINE T == {m \in Nat : ~ \E f : Prepares(f, seq, m)}
<1> SUFFICES ASSUME T # {} PROVE FALSE
  OBVIOUS
<1>1. PICK m \in T : \A x \in T : m <= x
  <2>1. T \in SUBSET Nat
    OBVIOUS
  <2> HIDE DEF T
  <2> QED
    BY <2>1, LeastNumber
<1>2. m # 0
  <2>1. Prepares([i \in 0..0 |-> Begun(seq)], seq, 0)
    BY DEF Prepares
  <2> QED
    BY <1>1, <2>1
<1>3. PICK g : Prepares(g, seq, m - 1)
  BY <1>1, <1>2
<1> DEFINE f == [i \in 0..m |-> IF i = m THEN Prepare(g[m - 1], seq[m]) ELSE g[i]]
<1>4. m \in Nat
  BY <1>1
<1>5. ASSUME NEW i \in 0..m
      PROVE  f[i] = IF i = 0 THEN Begun(seq) ELSE Prepare(f[i - 1], seq[i])
  <2>1. CASE i = m
    <3>1. f[m - 1] = g[m - 1] /\ f[m] = Prepare(g[m - 1], seq[m])
      BY <1>2, <1>4
    <3> QED
      BY <1>2, <2>1, <3>1
  <2>2. CASE i # m
    <3>1. i \in 0..(m - 1) /\ f[i] = g[i]
      BY <1>4, <2>2
    <3>2. g[i] = IF i = 0 THEN Begun(seq) ELSE Prepare(g[i - 1], seq[i])
      BY <1>3, <3>1 DEF Prepares
    <3>3. i # 0 => i - 1 \in 0..m /\ i - 1 # m
      BY <1>4, <2>2
    <3>4. i # 0 => f[i - 1] = g[i - 1]
      BY <3>3
    <3> HIDE DEF f
    <3> QED
      BY <3>1, <3>2, <3>4
  <2> QED
    BY <2>1, <2>2
<1>6. f = [i \in 0..m |-> f[i]]
  OBVIOUS
<1>7. Prepares(f, seq, m)
  <2> HIDE DEF f
  <2> QED
    BY <1>5, <1>6 DEF Prepares
<1> QED
  BY <1>1, <1>7

(* Prepared is the end of such a preparation. *)
LEMMA PreparedIs ==
    ASSUME NEW seq, Len(seq) \in Nat
    PROVE  \E f : Prepares(f, seq, Len(seq)) /\ Prepared(seq) = f[Len(seq)]
<1> DEFINE acc == CHOOSE f : Prepares(f, seq, Len(seq))
<1>1. Prepares(acc, seq, Len(seq))
  BY PreparesExists
<1>2. Prepared(seq) = acc[Len(seq)]
  BY DEF Prepared, Prepares, Begun
<1> QED
  BY <1>1, <1>2

(* What a preparation starts from: the virtual index holds the objects      *)
(* outside the batch.                                                       *)
LEMMA BegunGood ==
    ASSUME ObjectInv, up, NEW seq \in Seq(Items)
    PROVE  Good(Begun(seq), seq, 0)
<1>1. /\ Begun(seq).objects = objects /\ Begun(seq).vectors = vectors
      /\ Begun(seq).cache = cache /\ Begun(seq).virtual = Freed(seq)
  BY DEF Begun
<1>2. BatchKeys(seq, 0) = {}
  BY BatchKeysNext
<1>3. ASSUME index = "unique" PROVE Claimed(Begun(seq), seq, 0)
  <2> SUFFICES ASSUME NEW l \in Valued(objects), cache.complete, l \notin BatchKeys(seq, Len(seq))
               PROVE  objects[l].f \in DOMAIN Freed(seq) /\ Freed(seq)[objects[l].f] = l
    BY <1>1, <1>2 DEF Claimed
  <2>1. Exact(cache.values, objects) /\ Distinct(objects)
    BY <1>3 DEF ObjectInv, Caches
  <2>2. objects[l].f \in DOMAIN cache.values /\ cache.values[objects[l].f] = l
    BY <2>1 DEF Exact
  <2> DEFINE gone == {k \in {seq[i].key : i \in DOMAIN seq} \cap Valued(objects) :
                    objects[k].f \in DOMAIN cache.values /\ cache.values[objects[k].f] = k}
             out == {objects[k].f : k \in gone}
  <2>3. l \notin gone
    <3>1. \A i \in DOMAIN seq : l # seq[i].key
      BY DEF BatchKeys
    <3> QED
      BY <3>1
  <2>4. objects[l].f \notin out
    BY <2>1, <2>3 DEF Distinct
  <2>5. Freed(seq) = Minus(cache.values, out)
    BY DEF Freed
  <2> HIDE DEF out, gone
  <2> QED
    BY <2>2, <2>4, <2>5 DEF Minus
<1>4. Grown(objects)
  BY DEF Grown
<1> QED
  BY <1>1, <1>3, <1>4 DEF Good, ObjectInv, Objects

(* A batch that is accepted keeps all that belongs to the objects. *)
LEMMA PreparedGood ==
    ASSUME ObjectInv, up, NEW seq \in Seq(Items), ~Hands(seq), Prepared(seq).ok
    PROVE  Good(Prepared(seq), seq, Len(seq))
<1>0. Len(seq) \in Nat
  OBVIOUS
<1>1. PICK f : Prepares(f, seq, Len(seq)) /\ Prepared(seq) = f[Len(seq)]
  BY <1>0, PreparedIs
<1>2. \A i \in 0..Len(seq) : f[i] = IF i = 0 THEN Begun(seq) ELSE Prepare(f[i - 1], seq[i])
  BY <1>1 DEF Prepares
<1> DEFINE T == {i \in Nat : i <= Len(seq) /\ f[i].ok /\ ~Good(f[i], seq, i)}
<1> SUFFICES ASSUME T # {} PROVE FALSE
  BY <1>0, <1>1
<1>3. PICK m \in T : \A x \in T : m <= x
  <2>1. T \in SUBSET Nat
    OBVIOUS
  <2> HIDE DEF T
  <2> QED
    BY <2>1, LeastNumber
<1>4. m \in Nat /\ m <= Len(seq) /\ f[m].ok /\ ~Good(f[m], seq, m)
  BY <1>3
<1>5. m # 0
  <2> SUFFICES ASSUME m = 0 PROVE FALSE
    OBVIOUS
  <2>1. f[0] = Begun(seq)
    BY <1>0, <1>2
  <2> QED
    BY <1>4, <2>1, BegunGood
<1>6. PICK i \in Nat : m = i + 1 /\ i < Len(seq) /\ i \in 0..Len(seq) /\ m \in 0..Len(seq)
  BY <1>0, <1>4, <1>5
<1>7. f[m] = Prepare(f[i], seq[i + 1])
  BY <1>2, <1>6
<1>8. f[i].ok
  <2>1. Prepare(f[i], seq[i + 1]).ok => f[i].ok
    BY DEF Prepare
  <2> QED
    BY <1>4, <1>7, <2>1
<1>9. Good(f[i], seq, i)
  <2>1. i \notin T
    BY <1>3, <1>6
  <2> QED
    BY <1>6, <1>8, <2>1
<1>10. Good(f[m], seq, i + 1)
  BY <1>4, <1>6, <1>7, <1>9, PrepareKeeps
<1> QED
  BY <1>4, <1>6, <1>10

-----------------------------------------------------------------------------
(* The calls of the object store *)

(* Shown keeps None apart and keeps field and version. *)
LEMMA ShownKeeps ==
    ASSUME NEW o \in Record \cup {None}
    PROVE  /\ Shown(o) = None <=> o = None
           /\ o # None => Shown(o).f = o.f /\ Shown(o).version = o.version
<1>1. CASE o = None
  BY <1>1 DEF Shown
<1>2. CASE o # None
  <2>1. o \in Record
    BY <1>2
  <2>2. Shown(o) = [f |-> o.f, version |-> o.version]
    BY <1>2 DEF Shown
  <2>3. Shown(o) \in [f : Fields \cup {Null, Bad}, version : Nat]
    BY <2>1, <2>2 DEF Record, FieldValue
  <2>4. Shown(o) # None
    BY <2>3, RecordConstants
  <2> QED
    BY <1>2, <2>2, <2>4
<1> QED
  BY <1>1, <1>2

(* Objects that hold different values are shown so. *)
LEMMA ShownDistinct ==
    ASSUME NEW objs \in Objects, Distinct(objs)
    PROVE  Abstract!Distinct([k \in Keys |-> Shown(objs[k])])
<1> DEFINE sh == [k \in Keys |-> Shown(objs[k])]
<1>1. ASSUME NEW k \in Keys, NEW l \in Keys, k[1] = Indexed, l[1] = Indexed, sh[k] # None, sh[l] # None,
             k # l, sh[k].f \in Fields
      PROVE  sh[k].f # sh[l].f
  <2>1. objs[k] # None /\ objs[l] # None /\ sh[k].f = objs[k].f /\ sh[l].f = objs[l].f
    BY <1>1, ShownKeeps DEF Objects
  <2>2. k \in Valued(objs)
    BY <1>1, <2>1 DEF Valued
  <2>3. CASE objs[l].f \in Fields
    <3>1. l \in Valued(objs)
      BY <1>1, <2>1, <2>3 DEF Valued
    <3> QED
      BY <1>1, <2>1, <2>2, <3>1 DEF Distinct
  <2>4. CASE objs[l].f \notin Fields
    BY <1>1, <2>1, <2>4
  <2> QED
    BY <2>3, <2>4
<1> HIDE DEF sh
<1> QED
  BY <1>1 DEF Abstract!Distinct, Abstract!Indexed, Indexed, sh

(* Puts that lose nothing and raise the versions are puts of the record     *)
(* store.                                                                   *)
LEMMA GrownIsPut ==
    ASSUME ObjectInv, ObjectInv', Grown(objects'), OnObjects, UNCHANGED index
    PROVE  Abstract!RPut
<1> DEFINE sh == [k \in Keys |-> Shown(objects[k])]
           new == [k \in Keys |-> Shown(objects'[k])]
<1>1. objects \in Objects /\ objects' \in Objects
  BY DEF ObjectInv, Objects
<1>2. ASSUME NEW k \in Keys, sh[k] # None
      PROVE  new[k] # None /\ (new[k] # sh[k] => new[k].version > sh[k].version)
  <2>1. objects[k] # None /\ sh[k] = Shown(objects[k]) /\ new[k] = Shown(objects'[k])
    BY <1>1, <1>2, ShownKeeps DEF Objects
  <2>2. objects'[k] # None /\ (objects'[k] = objects[k] \/ objects'[k].version > objects[k].version)
    BY <2>1 DEF Grown
  <2>3. /\ new[k] # None /\ new[k].version = objects'[k].version
        /\ sh[k].version = objects[k].version
    BY <1>1, <2>1, <2>2, ShownKeeps DEF Objects
  <2> HIDE DEF sh, new
  <2> QED
    BY <2>1, <2>2, <2>3
<1>3. index = "unique" => Abstract!Distinct(new)
  <2> SUFFICES ASSUME index = "unique" PROVE Abstract!Distinct(new)
    OBVIOUS
  <2>1. Distinct(objects')
    BY DEF ObjectInv, Distinct, Valued
  <2> QED
    BY <1>1, <2>1, ShownDistinct
<1>4. reply' = {} /\ UNCHANGED <<events, byId>> /\ (index = "unique") = (index = "unique")'
  BY DEF OnObjects, evars, lvars
<1> HIDE DEF sh, new
<1> QED
  BY <1>2, <1>3, <1>4 DEF Abstract!RPut, sh, new

(* A put of one object sets its version. *)
LEMMA OnePutIsPut ==
    ASSUME ObjectInv, ObjectInv', OnObjects, UNCHANGED index, NEW k \in Keys,
           objects'[k] # None, \A l \in Keys \ {k} : objects'[l] = objects[l]
    PROVE  Abstract!RPutWithMetadata(k)
<1> DEFINE sh == [l \in Keys |-> Shown(objects[l])]
           new == [l \in Keys |-> Shown(objects'[l])]
<1>1. objects \in Objects /\ objects' \in Objects
  BY DEF ObjectInv, Objects
<1>2. new[k] # None /\ \A l \in Keys \ {k} : new[l] = sh[l]
  BY <1>1, ShownKeeps DEF Objects
<1>3. index = "unique" => Abstract!Distinct(new)
  <2> SUFFICES ASSUME index = "unique" PROVE Abstract!Distinct(new)
    OBVIOUS
  <2>1. Distinct(objects')
    BY DEF ObjectInv, Distinct, Valued
  <2> QED
    BY <1>1, <2>1, ShownDistinct
<1>4. reply' = {} /\ UNCHANGED <<events, byId>> /\ (index = "unique") = (index = "unique")'
  BY DEF OnObjects, evars, lvars
<1> HIDE DEF sh, new
<1> QED
  BY <1>2, <1>3, <1>4 DEF Abstract!RPutWithMetadata, sh, new

(* What a call of the object store promises: the invariant is kept, a step  *)
(* of the record store is made, the other stores are left alone.            *)
ObjectStep ==
    ObjectInv' /\ Abstract!RNext /\ UNCHANGED <<evars, lvars>> /\ (up' => up)

(* put_object, put_object_with_options *)
LEMMA PutObjectStep ==
    ASSUME ObjectInv, NEW k \in Keys, NEW b \in Bodies, NEW expected, PutObject(k, b, expected)
    PROVE  ObjectStep
<1> DEFINE old == objects[k]
           o == Stored(b, NextVersion(old))
<1>1. up /\ UNCHANGED <<up, index>> /\ OnObjects /\ Valid(k, b) /\ Write(k, b, NextVersion(old))
  BY DEF PutObject, Call
<1>2. old \in Record \cup {None} /\ objects \in Objects
  BY DEF ObjectInv, Objects
<1>3. NextVersion(old) \in Nat /\ (old # None => NextVersion(old) > old.version)
  BY <1>2, NextVersionType
<1>4. ObjectInv' /\ objects' = [objects EXCEPT ![k] = o]
  BY <1>1, <1>3, WriteKeeps
<1>5. o \in Record /\ o # None /\ o.version = NextVersion(old)
  BY <1>3, StoredType
<1>6. \A l \in Keys : /\ objects[l] # None => objects'[l] # None
                      /\ objects'[l] # objects[l] /\ objects[l] # None => objects'[l].version > objects[l].version
  <2> HIDE DEF o
  <2> QED
    BY <1>2, <1>3, <1>4, <1>5 DEF Objects
<1>7. Grown(objects')
  BY <1>6 DEF Grown
<1>8. Abstract!RPut
  BY <1>1, <1>4, <1>7, GrownIsPut
<1> QED
  BY <1>1, <1>4, <1>8 DEF ObjectStep, Abstract!RNext, OnObjects

(* put_object_with_source_metadata, whole or cut between its two batches *)
LEMMA PutWithSourceMetadataStep ==
    ASSUME ObjectInv, NEW k \in Keys, NEW b \in Bodies,
           \/ \E v \in Versions : PutWithSourceMetadata(k, b, v, None)
           \/ PutWithSourceMetadataDies(k, b)
    PROVE  ObjectStep
<1>1. NextVersion(objects[k]) \in Nat
  BY NextVersionType DEF ObjectInv
<1>2. PICK version \in Nat : up /\ UNCHANGED index /\ OnObjects /\ Valid(k, b) /\ Write(k, b, version)
  <2>1. CASE PutWithSourceMetadataDies(k, b)
    BY <1>1, <2>1 DEF PutWithSourceMetadataDies
  <2>2. ASSUME NEW v \in Versions, PutWithSourceMetadata(k, b, v, None)
        PROVE  \E version \in Nat : up /\ UNCHANGED index /\ OnObjects /\ Valid(k, b) /\ Write(k, b, version)
    <3>1. up /\ UNCHANGED index /\ OnObjects /\ Valid(k, b)
          /\ Write(k, b, IF v > 0 THEN v ELSE NextVersion(objects[k]))
      BY <2>2 DEF PutWithSourceMetadata, Call
    <3>2. (IF v > 0 THEN v ELSE NextVersion(objects[k])) \in Nat
      BY <1>1, RecordConstants
    <3> QED
      BY <3>1, <3>2
  <2> QED
    BY <2>1, <2>2
<1> DEFINE o == Stored(b, version)
<1>3. ObjectInv' /\ objects' = [objects EXCEPT ![k] = o]
  BY <1>2, WriteKeeps
<1>4. o # None
  BY StoredType
<1>5. objects'[k] # None /\ \A l \in Keys \ {k} : objects'[l] = objects[l]
  <2> HIDE DEF o
  <2> QED
    BY <1>3, <1>4 DEF ObjectInv
<1>6. Abstract!RPutWithMetadata(k)
  BY <1>2, <1>3, <1>5, OnePutIsPut
<1> QED
  BY <1>2, <1>3, <1>6 DEF ObjectStep, Abstract!RNext, OnObjects

(* put_objects_batch *)
LEMMA PutObjectsBatchStep ==
    ASSUME ObjectInv, NEW seq \in Seq(Items), PutObjectsBatch(seq), "handover" \notin Exposed
    PROVE  ObjectStep
<1> DEFINE end == Prepared(seq)
<1>1. /\ up /\ UNCHANGED <<up, index>> /\ OnObjects /\ ~Hands(seq) /\ end.ok
      /\ objects' = end.objects /\ vectors' = end.vectors /\ cache' = end.cache
      /\ direct' = direct \ {k \in Keys : (k \in vectors') = (end.objects[k] # None /\ end.objects[k].vec)}
  BY DEF PutObjectsBatch, Call
<1>2. Good(end, seq, Len(seq))
  BY <1>1, PreparedGood
<1> HIDE DEF end
<1>3. \A l \in Keys \ direct' : l \in vectors' <=> HasVector(objects'[l])
  <2> SUFFICES ASSUME NEW l \in Keys \ direct' PROVE l \in vectors' <=> HasVector(objects'[l])
    OBVIOUS
  <2>1. CASE l \notin direct
    BY <1>1, <1>2, <2>1 DEF Good, VectorsFollow
  <2>2. CASE (l \in vectors') = (end.objects[l] # None /\ end.objects[l].vec)
    BY <1>1, <2>2 DEF HasVector
  <2> QED
    BY <1>1, <2>1, <2>2
<1>4. VectorsFollow(vectors, objects)'
  BY <1>3 DEF VectorsFollow
<1>5. /\ objects' \in [Keys -> Record \cup {None}] /\ index' \in {"none", "plain", "unique"}
      /\ vectors' \subseteq Keys
  BY <1>1, <1>2 DEF ObjectInv, Good, Objects
<1>6. CacheType(cache') /\ Caches(cache', index', objects') /\ (index' = "unique" => Distinct(objects'))
  BY <1>1, <1>2 DEF Good
<1>7. ObjectInv'
  BY <1>4, <1>5, <1>6 DEF ObjectInv, CacheType, Caches, Distinct
<1>8. Grown(objects')
  BY <1>1, <1>2 DEF Good
<1>9. Abstract!RPut
  BY <1>1, <1>7, <1>8, GrownIsPut
<1> QED
  BY <1>1, <1>7, <1>9 DEF ObjectStep, Abstract!RNext, OnObjects

(* delete_object, delete_objects_batch *)
LEMMA DeleteObjectsStep ==
    ASSUME ObjectInv, NEW S \in SUBSET Keys, NEW batch \in BOOLEAN, DeleteObjects(S, batch)
    PROVE  ObjectStep
<1>0. PICK found : found = {k \in S : objects[k] # None}
  OBVIOUS
<1>1. /\ up /\ UNCHANGED <<up, index>> /\ OnObjects
      /\ objects' = [k \in Keys |-> IF k \in S THEN None ELSE objects[k]]
      /\ vectors' = IF batch /\ found = {} THEN vectors ELSE vectors \ S
      /\ cache' = Forgotten(cache, found)
      /\ direct' = IF batch /\ found = {} THEN direct ELSE direct \ S
  BY <1>0 DEF DeleteObjects, Call
<1>2. objects \in Objects /\ objects' \in Objects /\ vectors' \subseteq Keys
  BY <1>1 DEF ObjectInv, Objects
<1>3. \A k \in Keys : objects'[k] = IF k \in S THEN None ELSE objects[k]
  BY <1>1
<1>4. CacheType(cache') /\ cache'.def = cache.def /\ cache'.complete = cache.complete
  <2>1. cache' = cache \/ \E v : cache' = [cache EXCEPT !.values = v]
    BY <1>1 DEF Forgotten
  <2> QED
    BY <2>1 DEF ObjectInv, CacheType
<1>5. index = "unique" => Distinct(objects')
  BY <1>2, <1>3 DEF ObjectInv, Distinct, Valued
<1>6. index = "unique" /\ cache.complete => Exact(cache'.values, objects')
  BY <1>0, <1>1, <1>2, <1>3, ForgottenExact DEF ObjectInv, Caches
<1>7. Caches(cache', index', objects')
  BY <1>1, <1>4, <1>6 DEF ObjectInv, Caches
<1>8. \A l \in Keys \ direct' : l \in vectors' <=> HasVector(objects'[l])
  <2> SUFFICES ASSUME NEW l \in Keys \ direct' PROVE l \in vectors' <=> HasVector(objects'[l])
    OBVIOUS
  <2>1. CASE batch /\ found = {}
    <3>1. objects'[l] = objects[l]
      BY <1>0, <1>3, <2>1
    <3> QED
      BY <1>1, <2>1, <3>1 DEF ObjectInv, VectorsFollow
  <2>2. CASE ~(batch /\ found = {})
    <3>1. CASE l \in S
      BY <1>1, <1>3, <2>2, <3>1 DEF HasVector
    <3>2. CASE l \notin S
      <4>1. l \in Keys \ direct /\ objects'[l] = objects[l] /\ (l \in vectors' <=> l \in vectors)
        BY <1>1, <1>3, <2>2, <3>2
      <4>2. l \in vectors <=> HasVector(objects[l])
        BY <4>1 DEF ObjectInv, VectorsFollow
      <4> QED
        BY <4>1, <4>2
    <3> QED
      BY <3>1, <3>2
  <2> QED
    BY <2>1, <2>2
<1>9. VectorsFollow(vectors, objects)'
  BY <1>8 DEF VectorsFollow
<1>10. ObjectInv'
  BY <1>1, <1>2, <1>4, <1>5, <1>7, <1>9 DEF ObjectInv, CacheType, Caches, Distinct, Objects
<1>11. Abstract!RDelete(S)
  <2>1. reply' = {} /\ UNCHANGED <<events, byId>> /\ (index = "unique") = (index = "unique")'
    BY <1>1 DEF OnObjects, evars, lvars
  <2>2. \A k \in Keys : Shown(objects'[k]) = IF k \in S THEN None ELSE Shown(objects[k])
    BY <1>3 DEF Shown
  <2> QED
    BY <2>1, <2>2 DEF Abstract!RDelete
<1> QED
  BY <1>1, <1>10, <1>11 DEF ObjectStep, Abstract!RNext, OnObjects

(* create_index_definition, delete_index *)
LEMMA IndexStep ==
    ASSUME ObjectInv, DeleteIndex \/ \E def \in {"plain", "unique"} : CreateIndex(def)
    PROVE  ObjectStep
<1>1. PICK def \in {"none", "plain", "unique"} :
         /\ up /\ UNCHANGED up /\ OnObjects
         /\ def = "unique" => Distinct(objects)
         /\ index' = def /\ cache' = Built(objects, def)
         /\ UNCHANGED <<objects, vectors, direct>>
  BY DEF DeleteIndex, CreateIndex, Call, Distinct
<1>2. objects \in Objects
  BY DEF ObjectInv, Objects
<1>3. CacheType(cache') /\ Caches(cache', index', objects')
  BY <1>1, <1>2, BuiltCaches
<1>4. VectorsFollow(vectors, objects)'
  BY <1>1 DEF ObjectInv, VectorsFollow
<1>5. Distinct(objects') = Distinct(objects)
  BY <1>1
<1>6. ObjectInv'
  BY <1>1, <1>3, <1>4, <1>5 DEF ObjectInv, CacheType, Caches, Distinct
<1>7. Abstract!RIndex
  <2>1. reply' = {} /\ UNCHANGED <<events, byId, objects>> /\ (index = "unique")' \in BOOLEAN
    BY <1>1 DEF OnObjects, evars, lvars
  <2>2. (index = "unique")' => Abstract!Distinct([k \in Keys |-> Shown(objects[k])])
    BY <1>1, <1>2, ShownDistinct
  <2> QED
    BY <2>1, <2>2 DEF Abstract!RIndex
<1> QED
  BY <1>1, <1>6, <1>7 DEF ObjectStep, Abstract!RNext, OnObjects

(* add_vector, remove_vector *)
LEMMA SetVectorStep ==
    ASSUME ObjectInv, NEW k \in Keys, NEW add \in BOOLEAN, SetVector(k, add)
    PROVE  ObjectStep
<1>1. /\ up /\ UNCHANGED up /\ OnObjects /\ UNCHANGED <<objects, index, cache>>
      /\ vectors' = IF add THEN vectors \cup {k} ELSE vectors \ {k}
      /\ direct' = direct \cup {k}
  BY DEF SetVector, Call
<1>2. VectorsFollow(vectors, objects)'
  BY <1>1 DEF ObjectInv, VectorsFollow
<1>3. ObjectInv'
  BY <1>1, <1>2 DEF ObjectInv, CacheType, Caches, Distinct, Exact, Valued
<1>4. Abstract!ROther
  <2>1. reply' = {} /\ UNCHANGED <<events, byId, objects>> /\ (index = "unique") = (index = "unique")'
    BY <1>1 DEF OnObjects, evars, lvars
  <2> QED
    BY <2>1 DEF Abstract!ROther
<1> QED
  BY <1>1, <1>3, <1>4 DEF ObjectStep, Abstract!RNext, OnObjects

(* The object store. *)
LEMMA ObjectNextStep ==
    ASSUME ObjectInv, ObjectNext, "handover" \notin Exposed
    PROVE  ObjectStep
<1>1. ASSUME NEW k \in Keys, NEW b \in Bodies, NEW x \in Versions \cup {None}, PutObject(k, b, x)
      PROVE  ObjectStep
  BY <1>1, PutObjectStep
<1>2. ASSUME NEW k \in Keys, NEW b \in Bodies,
             \/ \E v \in Versions : PutWithSourceMetadata(k, b, v, None)
             \/ PutWithSourceMetadataDies(k, b)
      PROVE  ObjectStep
  BY <1>2, PutWithSourceMetadataStep
<1>3. ASSUME NEW seq \in BoundedSeq(Items, MaxBatch), PutObjectsBatch(seq)
      PROVE  ObjectStep
  <2>1. seq \in Seq(Items)
    BY RecordConstants DEF BoundedSeq, SeqOf
  <2> QED
    BY <1>3, <2>1, PutObjectsBatchStep
<1>4. ASSUME NEW S \in SUBSET Keys, NEW batch \in BOOLEAN, DeleteObjects(S, batch)
      PROVE  ObjectStep
  BY <1>4, DeleteObjectsStep
<1>5. ASSUME NEW k \in Keys, NEW add \in BOOLEAN, SetVector(k, add)
      PROVE  ObjectStep
  BY <1>5, SetVectorStep
<1> QED
  BY <1>1, <1>2, <1>3, <1>4, <1>5, IndexStep DEF ObjectNext

-----------------------------------------------------------------------------
(* Lemmas about the events *)

(* A bounded set of naturals has a greatest member, and Max is it. *)
LEMMA MaxBelow ==
    ASSUME NEW S \in SUBSET Nat, S # {}, NEW n \in Nat, \A x \in S : x <= n
    PROVE  Max(S) \in S /\ \A x \in S : Max(S) >= x
<1> DEFINE D == {m \in Nat : \E x \in S : m = n - x}
<1>1. D \in SUBSET Nat /\ D # {}
  <2>1. PICK x \in S : TRUE
    OBVIOUS
  <2>2. n - x \in D
    BY <2>1
  <2> QED
    BY <2>2
<1>2. PICK d \in D : \A e \in D : d <= e
  <2> HIDE DEF D
  <2> QED
    BY <1>1, LeastNumber
<1>3. PICK x \in S : d = n - x
  BY <1>2
<1>4. \A y \in S : x >= y
  <2> SUFFICES ASSUME NEW y \in S PROVE x >= y
    OBVIOUS
  <2>1. n - y \in D
    OBVIOUS
  <2>2. d <= n - y
    BY <1>2, <2>1
  <2> HIDE DEF D
  <2> QED
    BY <1>3, <2>2
<1> QED
  BY <1>4 DEF Max

(* The sequences of finitely many events are bounded. *)
LEMMA SequencesBounded ==
    ASSUME NEW evs \in SUBSET EventType, IsFiniteSet(evs)
    PROVE  \E n \in Nat : \A e \in evs : e.seq <= n
<1> DEFINE Sizes == {n \in Nat : \E T \in SUBSET evs :
                        Cardinality(T) = n /\ ~ \E m \in Nat : \A e \in T : e.seq <= m}
<1> SUFFICES ASSUME Sizes # {} PROVE FALSE
  BY FS_CardinalityType
<1>1. PICK n \in Sizes : \A o \in Sizes : n <= o
  <2>1. Sizes \in SUBSET Nat
    OBVIOUS
  <2> HIDE DEF Sizes
  <2> QED
    BY <2>1, LeastNumber
<1>2. PICK T \in SUBSET evs : Cardinality(T) = n /\ ~ \E m \in Nat : \A e \in T : e.seq <= m
  BY <1>1
<1>3. PICK x \in T : TRUE
  BY <1>2
<1>4. Cardinality(T \ {x}) = n - 1 /\ n - 1 \in Nat
  <2>1. IsFiniteSet(T)
    BY FS_Subset
  <2>2. IsFiniteSet(T \ {x}) /\ Cardinality(T \ {x}) = Cardinality(T) - 1
    BY <1>3, <2>1, FS_RemoveElement
  <2>3. Cardinality(T \ {x}) \in Nat
    BY <2>2, FS_CardinalityType
  <2> QED
    BY <1>1, <1>2, <2>2, <2>3
<1>5. n - 1 \notin Sizes
  BY <1>1, <1>4
<1>6. PICK m \in Nat : \A e \in T \ {x} : e.seq <= m
  BY <1>4, <1>5
<1>7. x.seq \in Nat /\ \A e \in T : e.seq \in Nat
  BY <1>3 DEF EventType
<1>8. \A e \in T : e.seq <= m + x.seq
  BY <1>6, <1>7
<1>9. m + x.seq \in Nat
  BY <1>6, <1>7
<1> QED
  BY <1>2, <1>8, <1>9

(* The largest sequence of some events, or 0. *)
LEMMA MaxOfEvents ==
    ASSUME NEW evs \in SUBSET EventType, IsFiniteSet(evs), NEW m, m = Max({e.seq : e \in evs} \cup {0})
    PROVE  /\ m \in Nat /\ (\A e \in evs : e.seq <= m)
           /\ m # 0 => \E e \in evs : e.seq = m
<1> DEFINE S == {e.seq : e \in evs} \cup {0}
<1>1. \A e \in evs : e.seq \in Nat
  BY DEF EventType
<1>2. PICK n \in Nat : \A e \in evs : e.seq <= n
  BY SequencesBounded
<1>3. S \in SUBSET Nat /\ S # {} /\ \A x \in S : x <= n
  BY <1>1, <1>2
<1>4. (\A e \in evs : e.seq \in S) /\ (\A x \in S : x = 0 \/ \E e \in evs : e.seq = x)
  OBVIOUS
<1> HIDE DEF S
<1>5. Max(S) \in S /\ \A x \in S : Max(S) >= x
  BY <1>3, MaxBelow
<1>6. m = Max(S)
  BY DEF S
<1> QED
  BY <1>1, <1>3, <1>4, <1>5, <1>6

(* Events that go leave counters and keys up to date. *)
LEMMA CoversLess ==
    ASSUME NEW m, NEW evs, NEW less, NEW s, Covers(m, evs, s),
           \A e \in less : e.stream = s => e \in evs
    PROVE  Covers(m, less, s)
BY DEF Covers

(* Counters and keys of a stream that are up to date with its events. *)
LEMMA CoversFacts ==
    ASSUME NEW q \in SeqsType, NEW evs, AllCovered(q, evs), NEW s \in Streams
    PROVE  /\ q.max[s] \in Nat /\ q.keys[s] \in [Idems -> Nat] /\ Covers(MetaOf(q, s), evs, s)
           /\ \A e \in evs : e.stream = s =>
                 /\ e.seq <= q.max[s]
                 /\ e.idem # 0 => q.keys[s][e.idem] = e.seq
                 /\ \A i \in Idems \ {0} : q.keys[s][i] = e.seq => e.idem = i
           /\ \A i \in Idems : q.keys[s][i] <= q.max[s]
<1>1. MetaOf(q, s).max = q.max[s] /\ MetaOf(q, s).keys = q.keys[s]
  BY DEF MetaOf
<1>2. Covers(MetaOf(q, s), evs, s)
  BY DEF AllCovered
<1>3. q.max[s] \in Nat /\ q.keys[s] \in [Idems -> Nat]
  BY DEF SeqsType
<1> QED
  BY <1>1, <1>2, <1>3 DEF Covers

(* The other way round. *)
LEMMA CoversBy ==
    ASSUME NEW q, NEW evs, NEW s,
           \A e \in evs : e.stream = s =>
                 /\ e.seq <= q.max[s]
                 /\ e.idem # 0 => q.keys[s][e.idem] = e.seq
                 /\ \A i \in Idems \ {0} : q.keys[s][i] = e.seq => e.idem = i,
           \A i \in Idems : q.keys[s][i] <= q.max[s]
    PROVE  Covers(MetaOf(q, s), evs, s)
<1>1. MetaOf(q, s).max = q.max[s] /\ MetaOf(q, s).keys = q.keys[s]
  BY DEF MetaOf
<1> QED
  BY <1>1 DEF Covers

(* Counters and keys of a stream make a metadata record. *)
LEMMA MetaOfType ==
    ASSUME NEW q \in SeqsType, NEW s \in Streams
    PROVE  MetaOf(q, s) \in MetaType /\ MetaOf(q, s) # None
<1>1. MetaOf(q, s) \in MetaType
  BY DEF MetaOf, MetaType, SeqsType
<1> QED
  BY <1>1, RecordConstants DEF MetaType

(* A key that names no live event is the key of none. *)
LEMMA ExistingFacts ==
    ASSUME NEW q \in SeqsType, NEW evs, AllCovered(q, evs), NEW s \in Streams, NEW i \in Idems
    PROVE  /\ Existing(q, evs, s, i) = {} /\ i # 0 => \A e \in evs : e.stream = s => e.idem # i
           /\ \A h \in Existing(q, evs, s, i) : h \in evs /\ h.stream = s /\ h.idem = i
<1>1. ASSUME Existing(q, evs, s, i) = {}, i # 0, NEW e \in evs, e.stream = s, e.idem = i
      PROVE  FALSE
  <2>1. q.keys[s][i] = e.seq
    BY <1>1, CoversFacts
  <2> QED
    BY <1>1, <2>1 DEF Existing, At
<1>2. ASSUME NEW h \in Existing(q, evs, s, i)
      PROVE  h \in evs /\ h.stream = s /\ h.idem = i
  <2>1. i # 0 /\ h \in evs /\ h.stream = s /\ h.seq = q.keys[s][i]
    BY <1>2 DEF Existing, At
  <2> QED
    BY <2>1, CoversFacts
<1> QED
  BY <1>1, <1>2

(* An append under a key that names no live event. *)
LEMMA AppendOne ==
    ASSUME NEW q \in SeqsType, NEW evs \in SUBSET EventType, Separate(evs), AllCovered(q, evs),
           NEW s \in Streams, NEW i \in Idems, Existing(q, evs, s, i) = {},
           NEW next, next = Advance(q, s, i), NEW e, e = Event(s, next.max[s], i)
    PROVE  /\ next \in SeqsType /\ e \in EventType
           /\ Separate(evs \cup {e}) /\ AllCovered(next, evs \cup {e})
           /\ \A o \in evs : o.stream = e.stream => o.seq < e.seq
<1>1. /\ q.max \in [Streams -> Nat] /\ q.keys \in [Streams -> [Idems -> Nat]]
      /\ next.max = [q.max EXCEPT ![s] = @ + 1]
      /\ next.keys = IF i = 0 THEN q.keys ELSE [q.keys EXCEPT ![s][i] = q.max[s] + 1]
      /\ next = [max |-> next.max, keys |-> next.keys]
  BY DEF Advance, SeqsType
<1>2. next.max \in [Streams -> Nat] /\ next.keys \in [Streams -> [Idems -> Nat]]
  <2>1. next.max \in [Streams -> Nat]
    BY <1>1
  <2>2. CASE i = 0
    BY <1>1, <2>1, <2>2
  <2>3. CASE i # 0
    <3>1. q.max[s] + 1 \in Nat /\ [q.keys[s] EXCEPT ![i] = q.max[s] + 1] \in [Idems -> Nat]
      BY <1>1
    <3>2. next.keys = [q.keys EXCEPT ![s] = [q.keys[s] EXCEPT ![i] = q.max[s] + 1]]
      BY <1>1, <2>3
    <3> QED
      BY <1>1, <2>1, <3>1, <3>2
  <2> QED
    BY <2>2, <2>3
<1>3. next \in SeqsType
  BY <1>1, <1>2 DEF SeqsType
<1>4. q.max[s] \in Nat /\ next.max[s] = q.max[s] + 1
  BY <1>1
<1>5. /\ e.stream = s /\ e.seq = q.max[s] + 1 /\ e.idem = i /\ e \in EventType
  BY <1>4 DEF Event, EventType
<1>6. \A o \in evs : o.stream = s => o.seq \in Nat /\ o.seq <= q.max[s] /\ o.seq # 0
  BY CoversFacts DEF EventType
<1>7. \A o \in evs : o.stream = e.stream => o.seq < e.seq
  BY <1>4, <1>5, <1>6
<1>8. i # 0 => \A o \in evs : o.stream = s => o.idem # i
  BY ExistingFacts
<1>9. Separate(evs \cup {e})
  <2> SUFFICES ASSUME NEW x \in evs \cup {e}, NEW y \in evs \cup {e}, x # y, x.stream = y.stream
               PROVE  x.seq # y.seq /\ (x.idem = 0 \/ x.idem # y.idem)
    BY DEF Separate
  <2>1. CASE x \in evs /\ y \in evs
    BY <2>1 DEF Separate
  <2>2. CASE x = e /\ y \in evs
    BY <1>4, <1>5, <1>6, <1>8, <2>2
  <2>3. CASE x \in evs /\ y = e
    BY <1>4, <1>5, <1>6, <1>8, <2>3
  <2> QED
    BY <2>1, <2>2, <2>3
<1>10. ASSUME NEW t \in Streams PROVE Covers(MetaOf(next, t), evs \cup {e}, t)
  <2>1. CASE t # s
    <3>1. next.max[t] = q.max[t] /\ next.keys[t] = q.keys[t]
      BY <1>1, <2>1
    <3>2. MetaOf(next, t) = MetaOf(q, t)
      BY <3>1 DEF MetaOf
    <3>3. \A o \in evs \cup {e} : o.stream = t => o \in evs
      BY <1>5, <2>1
    <3>4. Covers(MetaOf(q, t), evs, t)
      BY CoversFacts
    <3> QED
      BY <3>2, <3>3, <3>4, CoversLess
  <2>2. CASE t = s
    <3>1. \A j \in Idems : next.keys[s][j] = IF i # 0 /\ j = i THEN q.max[s] + 1 ELSE q.keys[s][j]
      BY <1>1
    <3>2. \A j \in Idems : q.keys[s][j] \in Nat /\ q.keys[s][j] <= q.max[s]
      BY CoversFacts
    <3>3. \A j \in Idems : next.keys[s][j] <= next.max[s]
      BY <1>4, <3>1, <3>2
    <3>4. ASSUME NEW o \in evs, o.stream = s
          PROVE  /\ o.seq <= next.max[s]
                 /\ o.idem # 0 => next.keys[s][o.idem] = o.seq
                 /\ \A j \in Idems \ {0} : next.keys[s][j] = o.seq => o.idem = j
      <4>1. o.seq \in Nat /\ o.seq <= q.max[s] /\ o.idem \in Idems
        BY <1>6, <3>4 DEF EventType
      <4>2. /\ o.idem # 0 => q.keys[s][o.idem] = o.seq
            /\ \A j \in Idems \ {0} : q.keys[s][j] = o.seq => o.idem = j
        BY <3>4, CoversFacts
      <4>3. o.idem # 0 => next.keys[s][o.idem] = o.seq
        BY <1>8, <3>1, <3>4, <4>1, <4>2
      <4>4. \A j \in Idems \ {0} : next.keys[s][j] = o.seq => o.idem = j
        BY <1>4, <3>1, <4>1, <4>2
      <4> QED
        BY <1>4, <4>1, <4>3, <4>4
    <3>5. /\ e.seq <= next.max[s]
          /\ e.idem # 0 => next.keys[s][e.idem] = e.seq
          /\ \A j \in Idems \ {0} : next.keys[s][j] = e.seq => e.idem = j
      BY <1>4, <1>5, <3>1, <3>2
    <3> QED
      BY <2>2, <3>3, <3>4, <3>5, CoversBy
  <2> QED
    BY <2>1, <2>2
<1> QED
  BY <1>3, <1>5, <1>7, <1>9, <1>10 DEF AllCovered

(* Events at positions of their own are inserted beside the others. *)
LEMMA InsertIsUnion ==
    ASSUME NEW evs, NEW new, Separate(evs \cup new)
    PROVE  Insert(evs, new) = evs \cup new
<1>1. ASSUME NEW e \in evs, At(new, e.stream, e.seq) # {} PROVE e \in new
  <2>1. PICK o \in new : o.stream = e.stream /\ o.seq = e.seq
    BY <1>1 DEF At
  <2>2. e = o
    BY <2>1 DEF Separate
  <2> QED
    BY <2>1, <2>2
<1> QED
  BY <1>1 DEF Insert

-----------------------------------------------------------------------------
(* The calls of the event log *)

(* What a call of the event log promises. *)
EventStep ==
    EventInv' /\ Abstract!RNext /\ UNCHANGED <<ovars, lvars>> /\ (up' => up)

(* The replies name events of the stream and key they were asked for. *)
Answered(replies, evs) ==
    \A r \in replies : r.got \in evs /\ r.got.stream = r.stream /\ r.got.idem = r.idem

(* New events after the old ones of their streams, each of them answered,   *)
(* are an append of the record store.                                       *)
LEMMA NewEventsAreAppend ==
    ASSUME OnEvents, NEW new, events' = events \cup new, Separate(events'),
           \A e \in new : \A o \in events : o.stream = e.stream => o.seq < e.seq,
           new \subseteq {r.got : r \in reply'}, Answered(reply', events')
    PROVE  Abstract!RAppend
<1>1. UNCHANGED <<objects, byId>> /\ (index = "unique") = (index = "unique")'
  BY DEF OnEvents, ovars, lvars
<1>2. /\ events \subseteq events' /\ events' \ events \subseteq new
      /\ \A e \in events' \ events : \A o \in events : o.stream = e.stream => o.seq < e.seq
  OBVIOUS
<1>3. events' \ events \subseteq {r.got : r \in reply'}
  BY <1>2
<1>4. \A r \in reply' : r.got \in events' /\ <<r.got.stream, r.got.idem>> = <<r.stream, r.idem>>
  BY DEF Answered
<1>5. \A e, o \in events' :
              e # o /\ e.stream = o.stream => e.seq # o.seq /\ (e.idem = 0 \/ e.idem # o.idem)
  BY DEF Separate
<1> QED
  BY <1>1, <1>2, <1>3, <1>4, <1>5 DEF Abstract!RAppend

(* What is read and written after new events: counters, keys and metadata   *)
(* of the streams that got one follow.                                      *)
LEMMA NewEventsKeep ==
    ASSUME EventInv, up, UNCHANGED up, NEW new, IsFiniteSet(new), new \subseteq EventType,
           events' = events \cup new, Separate(events'),
           seqs' \in SeqsType, AllCovered(seqs', events'),
           meta' = [s \in Streams |-> IF s \in {e.stream : e \in new} THEN MetaOf(seqs', s) ELSE meta[s]]
    PROVE  EventInv'
<1>1. events' \subseteq EventType /\ IsFiniteSet(events')
  BY FS_Union DEF EventInv
<1>2. meta \in [Streams -> MetaType \cup {None}]
  BY DEF EventInv
<1>3. \A s \in Streams : MetaOf(seqs', s) \in MetaType /\ MetaOf(seqs', s) # None
  BY MetaOfType
<1>4. meta' \in [Streams -> MetaType \cup {None}]
  BY <1>2, <1>3
<1>5. ASSUME NEW s \in Streams, meta'[s] # None PROVE Covers(meta'[s], events', s)
  <2>1. CASE s \in {e.stream : e \in new}
    <3>1. meta'[s] = MetaOf(seqs', s)
      BY <2>1
    <3> QED
      BY <3>1 DEF AllCovered
  <2>2. CASE s \notin {e.stream : e \in new}
    <3>1. meta'[s] = meta[s]
      BY <2>2
    <3>2. Covers(meta[s], events, s)
      BY <1>5, <3>1 DEF EventInv
    <3>3. \A e \in events' : e.stream = s => e \in events
      BY <2>2
    <3> QED
      BY <3>1, <3>2, <3>3, CoversLess
  <2> QED
    BY <2>1, <2>2
<1>6. ASSUME NEW e \in events' PROVE meta'[e.stream] # None
  <2>1. e.stream \in Streams
    BY <1>1 DEF EventType
  <2>2. CASE e.stream \in {o.stream : o \in new}
    BY <1>3, <2>1, <2>2
  <2>3. CASE e.stream \notin {o.stream : o \in new}
    <3>1. e \in events /\ meta'[e.stream] = meta[e.stream]
      BY <2>1, <2>3
    <3> QED
      BY <3>1 DEF EventInv
  <2> QED
    BY <2>2, <2>3
<1>7. Separate(events)' /\ AllCovered(seqs, events)'
  BY DEF Separate, AllCovered, Covers, MetaOf
<1>8. \A s \in Streams : meta'[s] # None => Covers(meta[s], events, s)'
  BY <1>5 DEF Covers
<1> QED
  BY <1>1, <1>4, <1>6, <1>7, <1>8 DEF EventInv

(* append_event *)
LEMMA AppendEventStep ==
    ASSUME EventInv, NEW s \in Streams, NEW i \in Idems, AppendEvent(s, i)
    PROVE  EventStep
<1>0. PICK hit, next, e : /\ hit = Existing(seqs, events, s, i) /\ next = Advance(seqs, s, i)
                          /\ e = Event(s, next.max[s], i)
  OBVIOUS
<1>1. up /\ UNCHANGED up /\ OnEvents
  BY DEF AppendEvent, Call
<1>2. \/ hit # {} /\ reply' = {Answer(s, i, h) : h \in hit} /\ UNCHANGED evars
      \/ /\ hit = {} /\ events' = Insert(events, {e})
         /\ meta' = [meta EXCEPT ![s] = MetaOf(next, s)]
         /\ seqs' = next /\ reply' = {Answer(s, i, e)}
  BY <1>0 DEF AppendEvent
<1>3. /\ seqs \in SeqsType /\ events \in SUBSET EventType /\ Separate(events)
      /\ AllCovered(seqs, events) /\ meta \in [Streams -> MetaType \cup {None}]
  BY <1>1 DEF EventInv
<1>4. CASE hit # {} /\ reply' = {Answer(s, i, h) : h \in hit} /\ UNCHANGED evars
  <2>1. \A h \in hit : h \in events /\ h.stream = s /\ h.idem = i
    BY <1>0, <1>3, ExistingFacts
  <2>2. \A r \in reply' : \E h \in hit : r.got = h /\ r.stream = s /\ r.idem = i
    BY <1>4 DEF Answer
  <2>3. Answered(reply', events')
    BY <1>4, <2>1, <2>2 DEF Answered, evars
  <2>4. events' = events \cup {} /\ Separate(events') /\ {} \subseteq {r.got : r \in reply'}
    BY <1>3, <1>4 DEF evars
  <2>5. Abstract!RAppend
    <3>1. PICK new : new = {}
      OBVIOUS
    <3>2. /\ events' = events \cup new /\ new \subseteq {r.got : r \in reply'}
          /\ \A x \in new : \A o \in events : o.stream = x.stream => o.seq < x.seq
      BY <2>4, <3>1
    <3> QED
      BY <1>1, <2>3, <2>4, <3>2, NewEventsAreAppend
  <2>6. EventInv'
    BY <1>1, <1>4 DEF EventInv, evars, Separate, AllCovered, Covers, MetaOf, Migrates
  <2> QED
    BY <1>1, <2>5, <2>6 DEF EventStep, Abstract!RNext, OnEvents
<1>5. CASE /\ hit = {} /\ events' = Insert(events, {e})
           /\ meta' = [meta EXCEPT ![s] = MetaOf(next, s)]
           /\ seqs' = next /\ reply' = {Answer(s, i, e)}
  <2>1. /\ next \in SeqsType /\ e \in EventType
        /\ Separate(events \cup {e}) /\ AllCovered(next, events \cup {e})
        /\ \A o \in events : o.stream = e.stream => o.seq < e.seq
    BY <1>0, <1>3, <1>5, AppendOne
  <2>2. events' = events \cup {e}
    BY <1>5, <2>1, InsertIsUnion
  <2>3. e.stream = s /\ e.idem = i
    BY <1>0 DEF Event
  <2>4. Answered(reply', events') /\ {e} \subseteq {r.got : r \in reply'}
    BY <1>5, <2>2, <2>3 DEF Answered, Answer
  <2>5. Abstract!RAppend
    <3>1. PICK new : new = {e}
      OBVIOUS
    <3>2. /\ events' = events \cup new /\ new \subseteq {r.got : r \in reply'}
          /\ \A x \in new : \A o \in events : o.stream = x.stream => o.seq < x.seq
      BY <2>1, <2>2, <2>4, <3>1
    <3>3. Separate(events')
      BY <2>1, <2>2
    <3> QED
      BY <1>1, <2>4, <3>2, <3>3, NewEventsAreAppend
  <2>6. meta' = [t \in Streams |-> IF t \in {x.stream : x \in {e}} THEN MetaOf(seqs', t) ELSE meta[t]]
    BY <1>3, <1>5, <2>3
  <2>7. IsFiniteSet({e}) /\ {e} \subseteq EventType
    BY <2>1, FS_Singleton
  <2>8. EventInv'
    BY <1>1, <1>5, <2>1, <2>2, <2>6, <2>7, NewEventsKeep
  <2> QED
    BY <1>1, <2>5, <2>8 DEF EventStep, Abstract!RNext, OnEvents
<1> QED
  BY <1>2, <1>4, <1>5

(* Counter and key advanced for an event that is not stored. *)
LEMMA AdvancedCovers ==
    ASSUME NEW q \in SeqsType, NEW evs \in SUBSET EventType, Separate(evs), AllCovered(q, evs),
           NEW s \in Streams, NEW i \in Idems, Existing(q, evs, s, i) = {}
    PROVE  Advance(q, s, i) \in SeqsType /\ AllCovered(Advance(q, s, i), evs)
<1>1. PICK next, e : next = Advance(q, s, i) /\ e = Event(s, next.max[s], i)
  OBVIOUS
<1>2. next \in SeqsType /\ AllCovered(next, evs \cup {e})
  BY <1>1, AppendOne
<1>3. \A t \in Streams : Covers(MetaOf(next, t), evs, t)
  BY <1>2, CoversLess DEF AllCovered
<1> QED
  BY <1>1, <1>2, <1>3 DEF AllCovered

(* append_event that fails *)
LEMMA AppendFailsStep ==
    ASSUME EventInv, NEW s \in Streams, NEW i \in Idems, AppendFails(s, i)
    PROVE  EventStep
<1>1. /\ up /\ UNCHANGED up /\ OnEvents /\ Existing(seqs, events, s, i) = {}
      /\ reply' = {} /\ UNCHANGED <<events, meta>>
      /\ \/ seqs' = GivenBack(seqs, s, i)
         \/ seqs' \in {Advance(seqs, s, 0), Advance(seqs, s, i)}
  BY DEF AppendFails, Call
<1>2. /\ seqs \in SeqsType /\ AllCovered(seqs, events) /\ events \in SUBSET EventType
      /\ Separate(events)
  BY <1>1 DEF EventInv
<1>3. seqs' \in SeqsType /\ AllCovered(seqs', events)
  <2>0. CASE seqs' \in {Advance(seqs, s, 0), Advance(seqs, s, i)}
    <3>1. 0 \in Idems /\ Existing(seqs, events, s, 0) = {}
      BY RecordConstants DEF Existing
    <3> QED
      BY <1>1, <1>2, <2>0, <3>1, AdvancedCovers
  <2>1. CASE seqs' = GivenBack(seqs, s, i) /\ i = 0
    BY <1>1, <1>2, <2>1 DEF GivenBack
  <2>2. CASE seqs' = GivenBack(seqs, s, i) /\ i # 0
    <3>1. /\ seqs.max \in [Streams -> Nat] /\ seqs.keys \in [Streams -> [Idems -> Nat]]
          /\ seqs = [max |-> seqs.max, keys |-> seqs.keys]
      BY <1>2 DEF SeqsType
    <3>2. [seqs.keys[s] EXCEPT ![i] = 0] \in [Idems -> Nat]
      BY <3>1
    <3>3. /\ seqs'.max = seqs.max /\ seqs'.keys = [seqs.keys EXCEPT ![s] = [seqs.keys[s] EXCEPT ![i] = 0]]
          /\ seqs' = [max |-> seqs'.max, keys |-> seqs'.keys]
      BY <1>1, <2>2, <3>1 DEF GivenBack
    <3>4. seqs' \in SeqsType
      BY <3>1, <3>2, <3>3 DEF SeqsType
    <3>5. ASSUME NEW t \in Streams PROVE Covers(MetaOf(seqs', t), events, t)
      <4>1. CASE t # s
        <5>1. MetaOf(seqs', t) = MetaOf(seqs, t)
          BY <3>1, <3>3, <4>1 DEF MetaOf
        <5> QED
          BY <1>2, <5>1 DEF AllCovered
      <4>2. CASE t = s
        <5>1. \A j \in Idems : seqs'.keys[s][j] = IF j = i THEN 0 ELSE seqs.keys[s][j]
          BY <3>1, <3>3
        <5>2. \A j \in Idems : seqs.keys[s][j] \in Nat /\ seqs.keys[s][j] <= seqs.max[s] /\ seqs.max[s] \in Nat
          BY <1>2, CoversFacts
        <5>3. \A j \in Idems : seqs'.keys[s][j] <= seqs'.max[s]
          BY <3>3, <5>1, <5>2
        <5>4. ASSUME NEW o \in events, o.stream = s
              PROVE  /\ o.seq <= seqs'.max[s]
                     /\ o.idem # 0 => seqs'.keys[s][o.idem] = o.seq
                     /\ \A j \in Idems \ {0} : seqs'.keys[s][j] = o.seq => o.idem = j
          <6>1. /\ o.seq <= seqs.max[s]
                /\ o.idem # 0 => seqs.keys[s][o.idem] = o.seq
                /\ \A j \in Idems \ {0} : seqs.keys[s][j] = o.seq => o.idem = j
            BY <1>2, <5>4, CoversFacts
          <6>2. o.seq # 0 /\ o.idem \in Idems
            BY <1>2 DEF EventType
          <6>3. o.idem # i
            BY <1>1, <1>2, <2>2, <5>4, ExistingFacts
          <6> QED
            BY <3>3, <5>1, <6>1, <6>2, <6>3
        <5> QED
          BY <4>2, <5>3, <5>4, CoversBy
      <4> QED
        BY <4>1, <4>2
    <3> QED
      BY <3>4, <3>5 DEF AllCovered
  <2> QED
    BY <1>1, <2>0, <2>1, <2>2
<1>4. EventInv'
  BY <1>1, <1>3 DEF EventInv, Separate, AllCovered, Covers, MetaOf, Migrates
<1>5. Abstract!ROther
  <2>1. UNCHANGED <<objects, events, byId>> /\ (index = "unique") = (index = "unique")'
    BY <1>1 DEF OnEvents, ovars, lvars
  <2> QED
    BY <1>1, <2>1 DEF Abstract!ROther
<1> QED
  BY <1>1, <1>4, <1>5 DEF EventStep, Abstract!RNext, OnEvents

(* f follows a batch of appends through its first m. *)
AskBegun == [seqs |-> seqs, new |-> {}, reply |-> {}]
Asks(f, asks, m) == f = [i \in 0..m |-> IF i = 0 THEN AskBegun ELSE Ask(f[i - 1], asks[i])]

(* The recursion of Asked has a solution. *)
LEMMA AsksExists ==
    ASSUME NEW asks, NEW n \in Nat
    PROVE  \E f : Asks(f, asks, n)
<1> DEFINE T == {m \in Nat : ~ \E f : Asks(f, asks, m)}
<1> SUFFICES ASSUME T # {} PROVE FALSE
  OBVIOUS
<1>1. PICK m \in T : \A x \in T : m <= x
  <2>1. T \in SUBSET Nat
    OBVIOUS
  <2> HIDE DEF T
  <2> QED
    BY <2>1, LeastNumber
<1>2. m # 0
  <2>1. Asks([i \in 0..0 |-> AskBegun], asks, 0)
    BY DEF Asks
  <2> QED
    BY <1>1, <2>1
<1>3. PICK g : Asks(g, asks, m - 1)
  BY <1>1, <1>2
<1> DEFINE f == [i \in 0..m |-> IF i = m THEN Ask(g[m - 1], asks[m]) ELSE g[i]]
<1>4. m \in Nat
  BY <1>1
<1>5. ASSUME NEW i \in 0..m
      PROVE  f[i] = IF i = 0 THEN AskBegun ELSE Ask(f[i - 1], asks[i])
  <2>1. CASE i = m
    <3>1. f[m - 1] = g[m - 1] /\ f[m] = Ask(g[m - 1], asks[m])
      BY <1>2, <1>4
    <3> QED
      BY <1>2, <2>1, <3>1
  <2>2. CASE i # m
    <3>1. i \in 0..(m - 1) /\ f[i] = g[i]
      BY <1>4, <2>2
    <3>2. g[i] = IF i = 0 THEN AskBegun ELSE Ask(g[i - 1], asks[i])
      BY <1>3, <3>1 DEF Asks
    <3>3. i # 0 => i - 1 \in 0..m /\ i - 1 # m
      BY <1>4, <2>2
    <3>4. i # 0 => f[i - 1] = g[i - 1]
      BY <3>3
    <3> HIDE DEF f
    <3> QED
      BY <3>1, <3>2, <3>4
  <2> QED
    BY <2>1, <2>2
<1>6. f = [i \in 0..m |-> f[i]]
  OBVIOUS
<1>7. Asks(f, asks, m)
  <2> HIDE DEF f
  <2> QED
    BY <1>5, <1>6 DEF Asks
<1> QED
  BY <1>1, <1>7

(* Asked is the end of such a batch. *)
LEMMA AskedIs ==
    ASSUME NEW asks, Len(asks) \in Nat
    PROVE  \E f : Asks(f, asks, Len(asks)) /\ Asked(asks) = f[Len(asks)]
<1> DEFINE acc == CHOOSE f : Asks(f, asks, Len(asks))
<1>1. Asks(acc, asks, Len(asks))
  BY AsksExists
<1>2. Asked(asks) = acc[Len(asks)]
  BY DEF Asked, Asks, AskBegun
<1> QED
  BY <1>1, <1>2

(* What a batch of appends has reached. *)
AskGood(acc) ==
    /\ acc = [seqs |-> acc.seqs, new |-> acc.new, reply |-> acc.reply]
    /\ acc.seqs \in SeqsType /\ acc.new \subseteq EventType /\ IsFiniteSet(acc.new)
    /\ Separate(events \cup acc.new) /\ AllCovered(acc.seqs, events \cup acc.new)
    /\ \A e \in acc.new : \A o \in events : o.stream = e.stream => o.seq < e.seq
    /\ acc.new \subseteq {r.got : r \in acc.reply}
    /\ Answered(acc.reply, events \cup acc.new)

(* One more append of a batch. *)
LEMMA AskKeeps ==
    ASSUME EventInv, NEW acc, AskGood(acc), NEW ask \in Streams \X Idems
    PROVE  AskGood(Ask(acc, ask))
<1>0. PICK s \in Streams, i \in Idems : ask = <<s, i>>
  OBVIOUS
<1> DEFINE stored == Existing(acc.seqs, events, s, i)
           pending == Existing(acc.seqs, acc.new, s, i)
           hit == IF stored # {} THEN stored ELSE pending
           evs == events \cup acc.new
<1>1. PICK next, e : next = Advance(acc.seqs, s, i) /\ e = Event(s, next.max[s], i)
  OBVIOUS
<1>2. Ask(acc, ask) = IF hit # {} THEN [acc EXCEPT !.reply = @ \cup {Answer(s, i, h) : h \in hit}]
                      ELSE [seqs |-> next, new |-> acc.new \cup {e}, reply |-> acc.reply \cup {Answer(s, i, e)}]
  BY <1>0, <1>1 DEF Ask
<1>3. Existing(acc.seqs, evs, s, i) = stored \cup pending
  BY DEF Existing, At
<1>4. /\ acc.seqs \in SeqsType /\ evs \in SUBSET EventType /\ Separate(evs) /\ AllCovered(acc.seqs, evs)
  BY DEF AskGood, EventInv
<1> HIDE DEF stored, pending, evs
<1>5. CASE hit # {}
  <2>0. PICK answers : answers = {Answer(s, i, h) : h \in hit}
    OBVIOUS
  <2>1. Ask(acc, ask) = [seqs |-> acc.seqs, new |-> acc.new, reply |-> acc.reply \cup answers]
    BY <1>2, <1>5, <2>0 DEF AskGood
  <2>2. \A h \in hit : h \in evs /\ h.stream = s /\ h.idem = i
    BY <1>3, <1>4, ExistingFacts
  <2>3. Answered(answers, evs)
    BY <2>0, <2>2 DEF Answered, Answer
  <2>4. Answered(acc.reply \cup answers, evs) /\ acc.new \subseteq {r.got : r \in acc.reply \cup answers}
    BY <2>3 DEF Answered, AskGood, evs
  <2> HIDE DEF hit
  <2> QED
    BY <1>4, <2>1, <2>4 DEF AskGood, evs
<1>6. CASE hit = {}
  <2>0. PICK new : new = acc.new \cup {e}
    OBVIOUS
  <2>1. Ask(acc, ask) = [seqs |-> next, new |-> new, reply |-> acc.reply \cup {Answer(s, i, e)}]
    BY <1>2, <1>6, <2>0
  <2>2. Existing(acc.seqs, evs, s, i) = {}
    BY <1>3, <1>6
  <2>3. /\ next \in SeqsType /\ e \in EventType
        /\ Separate(evs \cup {e}) /\ AllCovered(next, evs \cup {e})
        /\ \A o \in evs : o.stream = e.stream => o.seq < e.seq
    BY <1>1, <1>4, <2>2, AppendOne
  <2>4. evs \cup {e} = events \cup new
    BY <2>0 DEF evs
  <2>5. e.stream = s /\ e.idem = i
    BY <1>1 DEF Event
  <2>6. /\ Answered(acc.reply \cup {Answer(s, i, e)}, events \cup new)
        /\ new \subseteq {r.got : r \in acc.reply \cup {Answer(s, i, e)}}
    <3>1. Answer(s, i, e).got = e /\ Answer(s, i, e).stream = s /\ Answer(s, i, e).idem = i
      BY DEF Answer
    <3> QED
      BY <2>0, <2>5, <3>1 DEF AskGood, Answered
  <2>7. new \subseteq EventType /\ IsFiniteSet(new)
    BY <2>0, <2>3, FS_AddElement DEF AskGood
  <2>8. \A x \in new : \A o \in events : o.stream = x.stream => o.seq < x.seq
    BY <2>0, <2>3 DEF AskGood, evs
  <2>9. Separate(events \cup new) /\ AllCovered(next, events \cup new)
    BY <2>3, <2>4
  <2> HIDE DEF hit
  <2> QED
    BY <2>1, <2>3, <2>6, <2>7, <2>8, <2>9 DEF AskGood
<1> QED
  BY <1>5, <1>6

(* A whole batch of appends. *)
LEMMA AskedGood ==
    ASSUME EventInv, up, NEW asks \in Seq(Streams \X Idems)
    PROVE  AskGood(Asked(asks))
<1>0. Len(asks) \in Nat
  OBVIOUS
<1>1. PICK f : Asks(f, asks, Len(asks)) /\ Asked(asks) = f[Len(asks)]
  BY <1>0, AskedIs
<1>2. \A i \in 0..Len(asks) : f[i] = IF i = 0 THEN AskBegun ELSE Ask(f[i - 1], asks[i])
  BY <1>1 DEF Asks
<1> DEFINE T == {i \in Nat : i <= Len(asks) /\ ~AskGood(f[i])}
<1> SUFFICES ASSUME T # {} PROVE FALSE
  BY <1>0, <1>1
<1>3. PICK m \in T : \A x \in T : m <= x
  <2>1. T \in SUBSET Nat
    OBVIOUS
  <2> HIDE DEF T
  <2> QED
    BY <2>1, LeastNumber
<1>4. m \in Nat /\ m <= Len(asks) /\ ~AskGood(f[m])
  BY <1>3
<1>5. m # 0
  <2> SUFFICES ASSUME m = 0 PROVE FALSE
    OBVIOUS
  <2>1. f[0] = AskBegun
    BY <1>0, <1>2
  <2>2. PICK b : b = AskBegun /\ b = [seqs |-> seqs, new |-> {}, reply |-> {}]
    BY DEF AskBegun
  <2>3. b.seqs = seqs /\ b.new = {} /\ b.reply = {} /\ events \cup b.new = events
    BY <2>2
  <2>4. AskGood(b)
    BY <2>2, <2>3, FS_EmptySet DEF AskGood, EventInv, Answered
  <2> QED
    BY <1>4, <2>1, <2>2, <2>4
<1>6. PICK i \in Nat : m = i + 1 /\ i < Len(asks) /\ m \in 0..Len(asks) /\ m \in 1..Len(asks)
  BY <1>0, <1>4, <1>5
<1>7. f[m] = Ask(f[i], asks[m]) /\ asks[m] \in Streams \X Idems
  BY <1>2, <1>6
<1>8. AskGood(f[i])
  <2>1. i \notin T
    BY <1>3, <1>6
  <2> QED
    BY <1>6, <2>1
<1> QED
  BY <1>4, <1>7, <1>8, AskKeeps

(* append_events_batch *)
LEMMA AppendEventsBatchStep ==
    ASSUME EventInv, NEW asks \in Seq(Streams \X Idems), AppendEventsBatch(asks)
    PROVE  EventStep
<1>0. PICK end : end = Asked(asks)
  OBVIOUS
<1>1. /\ up /\ UNCHANGED up /\ OnEvents /\ events' = Insert(events, end.new)
      /\ meta' = [s \in Streams |-> IF s \in {e.stream : e \in end.new} THEN MetaOf(end.seqs, s) ELSE meta[s]]
      /\ seqs' = end.seqs /\ reply' = end.reply
  BY <1>0 DEF AppendEventsBatch, Call
<1>2. AskGood(end)
  BY <1>0, <1>1, AskedGood
<1>3. PICK new : new = end.new
  OBVIOUS
<1>4. events' = events \cup new
  BY <1>1, <1>2, <1>3, InsertIsUnion DEF AskGood
<1>5. /\ IsFiniteSet(new) /\ new \subseteq EventType /\ Separate(events')
      /\ seqs' \in SeqsType /\ AllCovered(seqs', events')
      /\ \A e \in new : \A o \in events : o.stream = e.stream => o.seq < e.seq
      /\ new \subseteq {r.got : r \in reply'} /\ Answered(reply', events')
  BY <1>1, <1>2, <1>3, <1>4 DEF AskGood
<1>6. meta' = [s \in Streams |-> IF s \in {e.stream : e \in new} THEN MetaOf(seqs', s) ELSE meta[s]]
  BY <1>1, <1>3
<1>7. EventInv'
  BY <1>1, <1>4, <1>5, <1>6, NewEventsKeep
<1>8. Abstract!RAppend
  BY <1>1, <1>4, <1>5, NewEventsAreAppend
<1> QED
  BY <1>1, <1>7, <1>8 DEF EventStep, Abstract!RNext, OnEvents

(* Removed events and their keys leave the others covered. *)
LEMMA RemovedCovered ==
    ASSUME NEW q \in SeqsType, NEW evs \in SUBSET EventType, Separate(evs), AllCovered(q, evs),
           NEW gone \in SUBSET evs, NEW next, next = WithoutKeysOf(q, gone)
    PROVE  next \in SeqsType /\ AllCovered(next, evs \ gone)
<1>1. /\ q.max \in [Streams -> Nat] /\ q.keys \in [Streams -> [Idems -> Nat]]
      /\ q = [max |-> q.max, keys |-> q.keys]
  BY DEF SeqsType
<1>2. /\ next.max = q.max
      /\ next.keys = [s \in Streams |-> [i \in Idems |->
              IF At(gone, s, q.keys[s][i]) # {} THEN 0 ELSE q.keys[s][i]]]
      /\ next = [max |-> next.max, keys |-> next.keys]
  BY <1>1 DEF WithoutKeysOf
<1>3. \A s \in Streams, i \in Idems : q.keys[s][i] \in Nat
  BY <1>1
<1>4. next \in SeqsType
  <2> DEFINE kept(s) == [i \in Idems |-> IF At(gone, s, q.keys[s][i]) # {} THEN 0 ELSE q.keys[s][i]]
  <2>1. \A s \in Streams : kept(s) \in [Idems -> Nat]
    BY <1>3
  <2>2. next.keys = [s \in Streams |-> kept(s)]
    BY <1>2
  <2> HIDE DEF kept
  <2>3. next.keys \in [Streams -> [Idems -> Nat]]
    BY <2>1, <2>2
  <2> QED
    BY <1>1, <1>2, <2>3 DEF SeqsType
<1>5. ASSUME NEW s \in Streams PROVE Covers(MetaOf(next, s), evs \ gone, s)
  <2>1. \A i \in Idems : next.keys[s][i] = IF At(gone, s, q.keys[s][i]) # {} THEN 0 ELSE q.keys[s][i]
    BY <1>2
  <2>2. \A i \in Idems : q.keys[s][i] \in Nat /\ q.keys[s][i] <= q.max[s] /\ q.max[s] \in Nat
    BY CoversFacts
  <2>3. \A i \in Idems : next.keys[s][i] <= next.max[s]
    BY <1>2, <2>1, <2>2
  <2>4. ASSUME NEW o \in evs \ gone, o.stream = s
        PROVE  /\ o.seq <= next.max[s]
               /\ o.idem # 0 => next.keys[s][o.idem] = o.seq
               /\ \A i \in Idems \ {0} : next.keys[s][i] = o.seq => o.idem = i
    <3>1. /\ o.seq <= q.max[s]
          /\ o.idem # 0 => q.keys[s][o.idem] = o.seq
          /\ \A i \in Idems \ {0} : q.keys[s][i] = o.seq => o.idem = i
      BY <2>4, CoversFacts
    <3>2. o.seq # 0 /\ o.idem \in Idems
      BY DEF EventType
    <3>3. At(gone, s, o.seq) = {}
      BY <2>4 DEF At, Separate
    <3> QED
      BY <1>2, <2>1, <3>1, <3>2, <3>3
  <2> QED
    BY <2>3, <2>4, CoversBy
<1> QED
  BY <1>4, <1>5 DEF AllCovered

(* Removing events is a step of the record store. *)
LEMMA LessEventsAreRemoved ==
    ASSUME OnEvents, reply' = {}, events' \subseteq events
    PROVE  Abstract!RRemoveEvents
<1>1. UNCHANGED <<objects, byId>> /\ (index = "unique") = (index = "unique")'
  BY DEF OnEvents, ovars, lvars
<1> QED
  BY <1>1 DEF Abstract!RRemoveEvents

(* delete_last_event and retain *)
LEMMA RemoveEventsStep ==
    ASSUME EventInv, NEW gone \in SUBSET events, RemoveEvents(gone)
    PROVE  EventStep
<1>0. PICK next, affected : next = WithoutKeysOf(seqs, gone) /\ affected = {e.stream : e \in gone}
  OBVIOUS
<1>1. /\ up /\ UNCHANGED up /\ OnEvents /\ events' = events \ gone /\ seqs' = next /\ reply' = {}
      /\ meta' = [s \in Streams |-> IF s \in affected THEN MetaOf(next, s) ELSE meta[s]]
  BY <1>0 DEF RemoveEvents, Call
<1>2. /\ seqs \in SeqsType /\ events \in SUBSET EventType /\ Separate(events)
      /\ AllCovered(seqs, events) /\ meta \in [Streams -> MetaType \cup {None}]
  BY <1>1 DEF EventInv
<1>3. next \in SeqsType /\ AllCovered(next, events')
  BY <1>0, <1>1, <1>2, RemovedCovered
<1>4. events' \subseteq EventType /\ IsFiniteSet(events') /\ Separate(events')
  BY <1>1, FS_Subset DEF EventInv, Separate
<1>5. \A s \in Streams : MetaOf(next, s) \in MetaType /\ MetaOf(next, s) # None
  BY <1>3, MetaOfType
<1>6. meta' \in [Streams -> MetaType \cup {None}]
  BY <1>1, <1>2, <1>5
<1>7. ASSUME NEW s \in Streams, meta'[s] # None PROVE Covers(meta'[s], events', s)
  <2>1. CASE s \in affected
    BY <1>1, <1>3, <2>1 DEF AllCovered
  <2>2. CASE s \notin affected
    <3>1. meta'[s] = meta[s]
      BY <1>1, <2>2
    <3>2. Covers(meta[s], events, s)
      BY <1>7, <3>1 DEF EventInv
    <3> QED
      BY <1>1, <3>1, <3>2, CoversLess
  <2> QED
    BY <2>1, <2>2
<1>8. ASSUME NEW e \in events' PROVE meta'[e.stream] # None
  <2>1. e.stream \in Streams /\ e \in events /\ meta[e.stream] # None
    BY <1>1, <1>4 DEF EventType, EventInv
  <2> QED
    BY <1>1, <1>5, <2>1
<1>9. Separate(events)' /\ AllCovered(seqs, events)'
  BY <1>1, <1>3, <1>4 DEF Separate, AllCovered, Covers, MetaOf
<1>10. \A s \in Streams : meta'[s] # None => Covers(meta[s], events, s)'
  BY <1>7 DEF Covers
<1>11. EventInv'
  BY <1>1, <1>3, <1>4, <1>6, <1>8, <1>9, <1>10 DEF EventInv
<1>12. Abstract!RRemoveEvents
  BY <1>1, LessEventsAreRemoved
<1> QED
  BY <1>1, <1>11, <1>12 DEF EventStep, Abstract!RNext, OnEvents

(* A stream without events: counter and keys may start again. *)
LEMMA DroppedCovers ==
    ASSUME NEW q \in SeqsType, NEW evs, AllCovered(q, evs), NEW s \in Streams,
           NEW less \in SUBSET evs, \A e \in less : e.stream # s
    PROVE  Dropped(q, s) \in SeqsType /\ AllCovered(Dropped(q, s), less)
<1>0. PICK next : next = Dropped(q, s)
  OBVIOUS
<1>1. Unused.keys[s] = [i \in Idems |-> 0]
  BY DEF Unused
<1>2. q.max \in [Streams -> Nat] /\ q.keys \in [Streams -> [Idems -> Nat]]
  BY DEF SeqsType
<1>3. /\ next.max = [q.max EXCEPT ![s] = 0] /\ next.keys = [q.keys EXCEPT ![s] = [i \in Idems |-> 0]]
      /\ next \in SeqsType
  BY <1>0, <1>1, <1>2 DEF Dropped, SeqsType
<1>4. ASSUME NEW t \in Streams PROVE Covers(MetaOf(next, t), less, t)
  <2>1. CASE t = s
    <3>1. \A i \in Idems : next.keys[s][i] <= next.max[s]
      BY <1>2, <1>3
    <3> QED
      BY <2>1, <3>1, CoversBy
  <2>2. CASE t # s
    <3>1. MetaOf(next, t) = MetaOf(q, t)
      BY <1>2, <1>3, <2>2 DEF MetaOf
    <3>2. Covers(MetaOf(q, t), evs, t)
      BY DEF AllCovered
    <3> QED
      BY <3>1, <3>2, CoversLess
  <2> QED
    BY <2>1, <2>2
<1> QED
  BY <1>0, <1>3, <1>4 DEF AllCovered

(* delete_stream *)
LEMMA DeleteStreamStep ==
    ASSUME EventInv, NEW s \in Streams, DeleteStream(s)
    PROVE  EventStep
<1>1. /\ up /\ UNCHANGED up /\ OnEvents /\ reply' = {}
      /\ events' = {e \in events : e.stream # s}
      /\ seqs' = Dropped(seqs, s)
      /\ meta' = [meta EXCEPT ![s] = None]
  BY DEF DeleteStream, Call
<1>2. /\ seqs \in SeqsType /\ events \in SUBSET EventType /\ Separate(events)
      /\ AllCovered(seqs, events) /\ meta \in [Streams -> MetaType \cup {None}]
  BY <1>1 DEF EventInv
<1>5. events' \in SUBSET events /\ \A e \in events' : e.stream # s
  BY <1>1
<1>6. seqs' \in SeqsType /\ AllCovered(seqs', events')
  BY <1>1, <1>2, <1>5, DroppedCovers
<1>7. events' \subseteq EventType /\ IsFiniteSet(events') /\ Separate(events')
  BY <1>1, FS_Subset DEF EventInv, Separate
<1>8. meta' \in [Streams -> MetaType \cup {None}]
  BY <1>1, <1>2
<1>9. \A t \in Streams : meta'[t] = IF t = s THEN None ELSE meta[t]
  BY <1>1, <1>2
<1>10. \A t \in Streams : meta'[t] # None => Covers(meta'[t], events', t)
  <2> SUFFICES ASSUME NEW t \in Streams, meta'[t] # None PROVE Covers(meta'[t], events', t)
    OBVIOUS
  <2>1. meta'[t] = meta[t] /\ Covers(meta[t], events, t)
    BY <1>9 DEF EventInv
  <2> QED
    BY <1>1, <2>1, CoversLess
<1>11. \A e \in events' : meta'[e.stream] # None
  <2> SUFFICES ASSUME NEW e \in events' PROVE meta'[e.stream] # None
    OBVIOUS
  <2>1. e \in events /\ e.stream # s /\ e.stream \in Streams
    BY <1>1, <1>7 DEF EventType
  <2> QED
    BY <1>1, <1>9, <2>1 DEF EventInv
<1>12. Separate(events)' /\ AllCovered(seqs, events)'
  BY <1>6, <1>7 DEF Separate, AllCovered, Covers, MetaOf
<1>13. \A t \in Streams : meta'[t] # None => Covers(meta[t], events, t)'
  BY <1>10 DEF Covers
<1>14. EventInv'
  BY <1>6, <1>7, <1>8, <1>11, <1>12, <1>13 DEF EventInv
<1>15. Abstract!RRemoveEvents
  BY <1>1, LessEventsAreRemoved
<1> QED
  BY <1>1, <1>14, <1>15 DEF EventStep, Abstract!RNext, OnEvents

(* A removal that stops part way *)
LEMMA RemoveStopsStep ==
    ASSUME EventInv, NEW gone \in SUBSET events, RemoveStops(gone)
    PROVE  EventStep
<1>1. up /\ OnEvents /\ reply' = {} /\ events' = events \ gone /\ (up' => up)
  BY DEF RemoveStops, Call
<1>2. /\ seqs \in SeqsType /\ events \in SUBSET EventType /\ Separate(events)
      /\ AllCovered(seqs, events) /\ meta \in [Streams -> MetaType \cup {None}]
  BY <1>1 DEF EventInv
<1>3. events' \subseteq EventType /\ IsFiniteSet(events') /\ Separate(events')
  BY <1>1, FS_Subset DEF EventInv, Separate
<1>4. \A t \in Streams : meta[t] # None => Covers(meta[t], events', t)
  BY <1>1, CoversLess DEF EventInv
<1>5. \A e \in events' : e.stream \in Streams /\ meta[e.stream] # None
  BY <1>1, <1>3 DEF EventInv, EventType
<1>6. /\ seqs' \in SeqsType /\ AllCovered(seqs', events')
      /\ \/ UNCHANGED meta
         \/ \E done : meta' = [s \in Streams |-> IF s \in done THEN MetaOf(seqs', s) ELSE meta[s]]
  <2>1. ASSUME NEW s \in Streams, UNCHANGED meta,
               \/ UNCHANGED seqs
               \/ {e \in events : e.stream = s} \subseteq gone /\ seqs' = Dropped(seqs, s)
        PROVE  seqs' \in SeqsType /\ AllCovered(seqs', events') /\ UNCHANGED meta
    <3>1. CASE UNCHANGED seqs
      BY <1>1, <1>2, <2>1, <3>1, CoversLess DEF AllCovered
    <3>2. CASE {e \in events : e.stream = s} \subseteq gone /\ seqs' = Dropped(seqs, s)
      <4>1. events' \in SUBSET events /\ \A e \in events' : e.stream # s
        BY <1>1, <3>2
      <4> QED
        BY <1>2, <2>1, <3>2, <4>1, DroppedCovers
    <3> QED
      BY <2>1, <3>1, <3>2
  <2>2. ASSUME NEW done, seqs' = WithoutKeysOf(seqs, gone),
               meta' = [s \in Streams |-> IF s \in done THEN MetaOf(seqs', s) ELSE meta[s]]
        PROVE  seqs' \in SeqsType /\ AllCovered(seqs', events')
    BY <1>1, <1>2, <2>2, RemovedCovered
  <2> QED
    BY <2>1, <2>2 DEF RemoveStops
<1>7. \A s \in Streams : MetaOf(seqs', s) \in MetaType /\ MetaOf(seqs', s) # None
  BY <1>6, MetaOfType
<1>8. /\ meta' \in [Streams -> MetaType \cup {None}]
      /\ \A t \in Streams : meta'[t] # None => Covers(meta'[t], events', t)
      /\ \A e \in events' : meta'[e.stream] # None
  <2>1. CASE UNCHANGED meta
    BY <1>2, <1>4, <1>5, <2>1
  <2>2. CASE ~ UNCHANGED meta
    <3>1. PICK done : meta' = [s \in Streams |-> IF s \in done THEN MetaOf(seqs', s) ELSE meta[s]]
      BY <1>6, <2>2
    <3>2. \A t \in Streams : meta'[t] = IF t \in done THEN MetaOf(seqs', t) ELSE meta[t]
      BY <3>1
    <3>3. meta' \in [Streams -> MetaType \cup {None}]
      BY <1>2, <1>7, <3>1
    <3>4. \A t \in Streams : meta'[t] # None => Covers(meta'[t], events', t)
      BY <1>4, <1>6, <3>2 DEF AllCovered
    <3>5. \A e \in events' : meta'[e.stream] # None
      BY <1>5, <1>7, <3>2
    <3> QED
      BY <3>3, <3>4, <3>5
  <2> QED
    BY <2>1, <2>2
<1>9. Separate(events)' /\ \A t \in Streams : meta'[t] # None => Covers(meta[t], events, t)'
  BY <1>3, <1>8 DEF Separate, Covers
<1>10. AllCovered(seqs, events)'
  BY <1>6 DEF AllCovered, Covers, MetaOf
<1>11. EventInv'
  BY <1>3, <1>6, <1>8, <1>9, <1>10 DEF EventInv
<1>12. Abstract!RRemoveEvents
  BY <1>1, LessEventsAreRemoved
<1> QED
  BY <1>1, <1>11, <1>12 DEF EventStep, Abstract!RNext, OnEvents

(* The event log. *)
LEMMA EventNextStep ==
    ASSUME EventInv, EventNext
    PROVE  EventStep
<1>1. ASSUME NEW s \in Streams, NEW i \in Idems, AppendEvent(s, i) \/ AppendFails(s, i)
      PROVE  EventStep
  BY <1>1, AppendEventStep, AppendFailsStep
<1>2. ASSUME NEW asks \in BoundedSeq(Streams \X Idems, MaxBatch), AppendEventsBatch(asks)
      PROVE  EventStep
  <2>1. asks \in Seq(Streams \X Idems)
    BY RecordConstants DEF BoundedSeq, SeqOf
  <2> QED
    BY <1>2, <2>1, AppendEventsBatchStep
<1>3. ASSUME NEW s \in Streams, DeleteLastEvent(s) \/ DeleteStream(s)
      PROVE  EventStep
  <2>1. CASE DeleteStream(s)
    BY <2>1, DeleteStreamStep
  <2>2. CASE DeleteLastEvent(s)
    <3>1. RemoveEvents(LastEvent(s))
      BY <2>2 DEF DeleteLastEvent
    <3>2. LastEvent(s) \in SUBSET events
      BY DEF LastEvent
    <3> QED
      BY <3>1, <3>2, RemoveEventsStep
  <2> QED
    BY <1>3, <2>1, <2>2
<1>4. ASSUME NEW S \in SUBSET events, RemoveStops(S) \/ \E cursor \in Cursors : Retain(S, cursor)
      PROVE  EventStep
  BY <1>4, RemoveStopsStep, RemoveEventsStep DEF Retain
<1> QED
  BY <1>1, <1>2, <1>3, <1>4 DEF EventNext

-----------------------------------------------------------------------------
(* The calls of the link store *)

(* What a call of the link store promises. *)
LinkStep ==
    LinkInv' /\ Abstract!RNext /\ UNCHANGED <<ovars, evars>> /\ (up' => up)

(* A link under an id that is free. *)
LEMMA NewLinkIsLink ==
    ASSUME OnLinks, NEW l, Named(l.id) = {}, byId' = (byId \ Named(l.id)) \cup {l}
    PROVE  Abstract!RLink
<1>1. UNCHANGED <<objects, events>> /\ reply' = {} /\ (index = "unique") = (index = "unique")'
  BY DEF OnLinks, ovars, evars
<1>2. byId' = byId \cup {l} /\ \A o \in byId : o.id # l.id
  BY DEF Named
<1> QED
  BY <1>1, <1>2 DEF Abstract!RLink

(* create_link *)
LEMMA CreateLinkStep ==
    ASSUME LinkInv, NEW n \in 1..3, NEW a \in Refs, NEW b \in Refs, CreateLink(a, b, n)
    PROVE  LinkStep
<1>0. PICK l : l = Link(nextLink, a, b)
  OBVIOUS
<1>1. /\ OnLinks /\ up /\ (up' => up) /\ nextLink <= MaxLink /\ nextLink' = nextLink + 1
      /\ byId' = (byId \ Named(l.id)) \cup {l}
  BY <1>0 DEF CreateLink, LinkCall, Call, InsertLink
<1>2. l.id = nextLink /\ l \in LinkType /\ nextLink \in Nat \ {0} /\ MaxLink \in Nat
  BY <1>0, <1>1, RecordConstants DEF Link, LinkType, LinkInv
<1>3. \A o \in byId : o.id < nextLink /\ o.id \in Nat
  BY <1>1, <1>2 DEF LinkInv, LinkType
<1>4. Named(l.id) = {}
  BY <1>2, <1>3 DEF Named
<1>5. byId' = byId \cup {l}
  BY <1>1, <1>4
<1>6. LinkInv'
  BY <1>1, <1>2, <1>3, <1>5 DEF LinkInv
<1>7. Abstract!RLink
  BY <1>1, <1>4, NewLinkIsLink
<1> QED
  BY <1>1, <1>6, <1>7 DEF LinkStep, Abstract!RNext, OnLinks

(* import_link *)
LEMMA ImportLinkStep ==
    ASSUME LinkInv, "import" \notin Exposed, NEW n \in 1..3, NEW l \in LinkType, ImportLink(l, n)
    PROVE  LinkStep
<1>1. /\ OnLinks /\ up /\ (up' => up) /\ (n = 3 \/ ~up') /\ Named(l.id) = {}
      /\ nextLink' = IF n = 3 /\ l.id > 0 THEN Larger(nextLink, l.id + 1) ELSE nextLink
      /\ byId' = (byId \ Named(l.id)) \cup {l}
  BY DEF ImportLink, LinkCall, Call, InsertLink
<1>2. l.id \in Nat /\ nextLink \in Nat \ {0} /\ MaxLink \in Nat
  BY RecordConstants DEF LinkType, LinkInv
<1>3. \A o \in byId : o.id < nextLink /\ o.id \in Nat
  BY <1>1, <1>2, RecordConstants DEF LinkInv, LinkType
<1>4. byId' = byId \cup {l}
  BY <1>1
<1>5. nextLink' \in Nat \ {0} /\ nextLink' >= nextLink /\ (n = 3 => l.id < nextLink')
  BY <1>1, <1>2 DEF Larger
<1>6. LinkInv'
  BY <1>1, <1>2, <1>3, <1>4, <1>5 DEF LinkInv
<1>7. Abstract!RLink
  BY <1>1, NewLinkIsLink
<1> QED
  BY <1>1, <1>6, <1>7 DEF LinkStep, Abstract!RNext, OnLinks

(* delete_link *)
LEMMA DeleteLinkStep ==
    ASSUME LinkInv, NEW n \in 1..3, NEW l \in byId, DeleteLink(l, n)
    PROVE  LinkStep
<1>1. OnLinks /\ up /\ (up' => up) /\ UNCHANGED nextLink /\ byId' = byId \ {l}
  BY DEF DeleteLink, LinkCall, Call, RemoveLink
<1>2. LinkInv'
  BY <1>1 DEF LinkInv
<1>3. Abstract!RUnlink
  <2>1. UNCHANGED <<objects, events>> /\ reply' = {} /\ (index = "unique") = (index = "unique")'
    BY <1>1 DEF OnLinks, ovars, evars
  <2> QED
    BY <1>1, <2>1 DEF Abstract!RUnlink
<1> QED
  BY <1>1, <1>2, <1>3 DEF LinkStep, Abstract!RNext, OnLinks

(* The link store. *)
LEMMA LinkNextStep ==
    ASSUME LinkInv, LinkNext, "import" \notin Exposed
    PROVE  LinkStep
<1>1. ASSUME NEW n \in 1..3, NEW a \in Refs, NEW b \in Refs, NEW id \in 0..MaxLink, ImportLink(Link(id, a, b), n)
      PROVE  LinkStep
  <2>1. Link(id, a, b) \in LinkType
    BY DEF Link, LinkType
  <2> QED
    BY <1>1, <2>1, ImportLinkStep
<1> QED
  BY <1>1, CreateLinkStep, DeleteLinkStep DEF LinkNext

-----------------------------------------------------------------------------
(* Opening *)

(* What open_from_database reads back covers the events, from the metadata  *)
(* and, in a store that has none yet, from the events themselves.           *)
LEMMA ReadCovers ==
    ASSUME EventInv
    PROVE  ReadSeqs \in SeqsType /\ AllCovered(ReadSeqs, events)
<1>0. /\ events \in SUBSET EventType /\ IsFiniteSet(events) /\ Separate(events)
      /\ meta \in [Streams -> MetaType \cup {None}]
  BY DEF EventInv
<1>1. CASE Migrates
  <2> DEFINE of(s) == {d \in events : d.stream = s}
             under(s, i) == {d \in events : d.stream = s /\ i # 0 /\ d.idem = i}
             top(s) == Max({e.seq : e \in of(s)} \cup {0})
             key(s, i) == Max({e.seq : e \in under(s, i)} \cup {0})
  <2>1. ReadSeqs = [max |-> [s \in Streams |-> top(s)], keys |-> [s \in Streams |-> [i \in Idems |-> key(s, i)]]]
    BY <1>1 DEF ReadSeqs
  <2>2. ASSUME NEW s PROVE top(s) \in Nat /\ \A e \in of(s) : e.seq <= top(s)
    <3>1. of(s) \in SUBSET EventType /\ IsFiniteSet(of(s))
      BY <1>0, FS_Subset
    <3>2. PICK m : m = top(s)
      OBVIOUS
    <3> HIDE DEF of
    <3> QED
      BY <3>1, <3>2, MaxOfEvents
  <2>3. ASSUME NEW s, NEW i
        PROVE  /\ key(s, i) \in Nat /\ \A e \in under(s, i) : e.seq <= key(s, i)
               /\ key(s, i) # 0 => \E e \in under(s, i) : e.seq = key(s, i)
    <3>1. under(s, i) \in SUBSET EventType /\ IsFiniteSet(under(s, i))
      BY <1>0, FS_Subset
    <3>2. PICK T, m : T = under(s, i) /\ m = key(s, i) /\ m = Max({e.seq : e \in T} \cup {0})
      OBVIOUS
    <3> HIDE DEF under, key
    <3>3. m \in Nat /\ (\A e \in T : e.seq <= m) /\ (m # 0 => \E e \in T : e.seq = m)
      BY <3>1, <3>2, MaxOfEvents
    <3> QED
      BY <3>2, <3>3
  <2>4. (\A s : \A e \in of(s) : e \in events /\ e.stream = s) /\ (\A e \in events : e \in of(e.stream))
    OBVIOUS
  <2>5. /\ \A s, i : \A e \in under(s, i) : e \in events /\ e.stream = s /\ e.idem = i /\ i # 0
        /\ \A e \in events : e.idem # 0 => e \in under(e.stream, e.idem)
    OBVIOUS
  <2> HIDE DEF of, under, top, key
  <2>6. /\ ReadSeqs.max = [s \in Streams |-> top(s)]
        /\ ReadSeqs.keys = [s \in Streams |-> [i \in Idems |-> key(s, i)]]
    BY <2>1
  <2>7. ReadSeqs \in SeqsType
    <3>1. \A s \in Streams : [i \in Idems |-> key(s, i)] \in [Idems -> Nat]
      BY <2>3
    <3> QED
      BY <2>1, <2>2, <3>1 DEF SeqsType
  <2>8. ASSUME NEW s \in Streams PROVE Covers(MetaOf(ReadSeqs, s), events, s)
    <3>1. ReadSeqs.max[s] = top(s) /\ \A i \in Idems : ReadSeqs.keys[s][i] = key(s, i)
      BY <2>6
    <3>2. ASSUME NEW i \in Idems PROVE key(s, i) <= top(s)
      <4>1. CASE key(s, i) = 0
        BY <2>2, <4>1
      <4>2. CASE key(s, i) # 0
        <5>1. PICK e \in under(s, i) : e.seq = key(s, i)
          BY <2>3, <4>2
        <5>2. e \in of(s)
          BY <2>4, <2>5
        <5> QED
          BY <2>2, <5>1, <5>2
      <4> QED
        BY <4>1, <4>2
    <3>3. ASSUME NEW e \in events, e.stream = s
          PROVE  /\ e.seq <= top(s)
                 /\ e.idem # 0 => key(s, e.idem) = e.seq
                 /\ \A i \in Idems \ {0} : key(s, i) = e.seq => e.idem = i
      <4>0. e.seq \in Nat /\ e.seq # 0 /\ e.idem \in Idems
        BY <1>0 DEF EventType
      <4>1. e.seq <= top(s)
        BY <2>2, <2>4, <3>3
      <4>2. ASSUME e.idem # 0 PROVE key(s, e.idem) = e.seq
        <5>1. e \in under(s, e.idem)
          BY <2>5, <3>3, <4>2
        <5>2. e.seq <= key(s, e.idem) /\ key(s, e.idem) \in Nat
          BY <2>3, <5>1
        <5>3. key(s, e.idem) # 0
          BY <4>0, <5>2
        <5>4. PICK o \in under(s, e.idem) : o.seq = key(s, e.idem)
          BY <2>3, <5>3
        <5>5. o = e
          BY <1>0, <2>5, <3>3, <4>2 DEF Separate
        <5> QED
          BY <5>4, <5>5
      <4>3. ASSUME NEW i \in Idems \ {0}, key(s, i) = e.seq PROVE e.idem = i
        <5>1. PICK o \in under(s, i) : o.seq = key(s, i)
          BY <2>3, <4>0, <4>3
        <5>2. o \in events /\ o.stream = s /\ o.idem = i
          BY <2>5
        <5>3. o = e
          BY <1>0, <3>3, <4>3, <5>1, <5>2 DEF Separate
        <5> QED
          BY <5>2, <5>3
      <4> QED
        BY <4>1, <4>2, <4>3
    <3>4. \A e \in events : e.idem \in Idems
      BY <1>0 DEF EventType
    <3>5. \A i \in Idems : ReadSeqs.keys[s][i] <= ReadSeqs.max[s]
      BY <3>1, <3>2
    <3>6. ASSUME NEW e \in events, e.stream = s
          PROVE  /\ e.seq <= ReadSeqs.max[s]
                 /\ e.idem # 0 => ReadSeqs.keys[s][e.idem] = e.seq
                 /\ \A i \in Idems \ {0} : ReadSeqs.keys[s][i] = e.seq => e.idem = i
      BY <3>1, <3>3, <3>4, <3>6
    <3> QED
      BY <3>5, <3>6, CoversBy
  <2> QED
    BY <2>7, <2>8 DEF AllCovered
<1>2. CASE ~Migrates
  <2>1. /\ ReadSeqs.max = [s \in Streams |-> IF meta[s] = None THEN 0 ELSE meta[s].max]
        /\ ReadSeqs.keys = [s \in Streams |-> IF meta[s] = None THEN Unused.keys[s] ELSE meta[s].keys]
        /\ ReadSeqs = [max |-> ReadSeqs.max, keys |-> ReadSeqs.keys]
    BY <1>2 DEF ReadSeqs
  <2>2. \A s \in Streams : Unused.keys[s] = [i \in Idems |-> 0]
    BY DEF Unused
  <2>3. ASSUME NEW s \in Streams
        PROVE  ReadSeqs.max[s] \in Nat /\ ReadSeqs.keys[s] \in [Idems -> Nat]
               /\ Covers(MetaOf(ReadSeqs, s), events, s)
    <3>1. CASE meta[s] = None
      <4>1. ReadSeqs.max[s] = 0 /\ ReadSeqs.keys[s] = [i \in Idems |-> 0]
        BY <2>1, <2>2, <3>1
      <4>2. \A e \in events : e.stream # s
        BY <1>2, <3>1 DEF EventInv
      <4>3. \A i \in Idems : ReadSeqs.keys[s][i] <= ReadSeqs.max[s]
        BY <4>1
      <4>4. Covers(MetaOf(ReadSeqs, s), events, s)
        BY <4>2, <4>3, CoversBy
      <4> QED
        BY <4>1, <4>4
    <3>2. CASE meta[s] # None
      <4>1. meta[s] \in MetaType /\ Covers(meta[s], events, s)
        BY <1>0, <3>2 DEF EventInv
      <4>2. ReadSeqs.max[s] = meta[s].max /\ ReadSeqs.keys[s] = meta[s].keys
        BY <2>1, <3>2
      <4>3. MetaOf(ReadSeqs, s) = meta[s]
        BY <4>1, <4>2 DEF MetaOf, MetaType
      <4> QED
        BY <4>1, <4>2, <4>3 DEF MetaType
    <3> QED
      BY <3>1, <3>2
  <2>4. ReadSeqs.max \in [Streams -> Nat] /\ ReadSeqs.keys \in [Streams -> [Idems -> Nat]]
    <3>1. ReadSeqs.max = [s \in Streams |-> ReadSeqs.max[s]] /\ ReadSeqs.keys = [s \in Streams |-> ReadSeqs.keys[s]]
      BY <2>1
    <3> QED
      BY <2>3, <3>1
  <2> QED
    BY <2>1, <2>3, <2>4 DEF SeqsType, AllCovered
<1> QED
  BY <1>1, <1>2

(* Metadata that opening writes. *)
LEMMA MigratedMeta ==
    ASSUME EventInv, NEW S \in SUBSET Streams, UNCHANGED events,
           S = Migrating \/ (S = {} /\ ~up'),
           meta' = [s \in Streams |-> IF s \in S THEN MetaOf(ReadSeqs, s) ELSE meta[s]]
    PROVE  /\ meta' \in [Streams -> MetaType \cup {None}]
           /\ \A s \in Streams : meta'[s] # None => Covers(meta'[s], events', s)
           /\ up' \/ ~Migrates' => \A e \in events' : meta'[e.stream] # None
<1>1. ReadSeqs \in SeqsType /\ AllCovered(ReadSeqs, events)
  BY ReadCovers
<1>2. \A s \in Streams : MetaOf(ReadSeqs, s) \in MetaType /\ MetaOf(ReadSeqs, s) # None
  BY <1>1, MetaOfType
<1>3. meta \in [Streams -> MetaType \cup {None}] /\ \A e \in events : e.stream \in Streams
  BY DEF EventInv, EventType
<1>4. meta' \in [Streams -> MetaType \cup {None}]
  BY <1>2, <1>3
<1>5. \A s \in Streams : meta'[s] # None => Covers(meta'[s], events', s)
  BY <1>1 DEF EventInv, AllCovered
<1>6. ASSUME up' \/ ~Migrates', NEW e \in events' PROVE meta'[e.stream] # None
  <2>1. e \in events /\ e.stream \in Streams
    BY <1>3
  <2>2. CASE ~Migrates
    <3>1. meta[e.stream] # None
      BY <2>1, <2>2 DEF EventInv
    <3> QED
      BY <1>2, <2>1, <3>1
  <2>3. CASE Migrates /\ S = Migrating
    <3>1. e.stream \in S
      BY <2>1, <2>3 DEF Migrating
    <3> QED
      BY <1>2, <2>1, <3>1
  <2>4. CASE Migrates /\ S = {} /\ ~up'
    <3>1. meta' = meta
      BY <1>3, <2>4
    <3>2. Migrates'
      BY <2>4, <3>1 DEF Migrates
    <3> QED
      BY <1>6, <2>4, <3>2
  <2> QED
    BY <2>2, <2>3, <2>4
<1> QED
  BY <1>4, <1>5, <1>6

(* A step that shows no change is a step of the record store. *)
LEMMA NothingShown ==
    ASSUME UNCHANGED <<objects, index, events, byId>>, reply' = {}
    PROVE  Abstract!RNext
<1>1. (index = "unique") = (index = "unique")'
  OBVIOUS
<1> QED
  BY <1>1 DEF Abstract!RNext, Abstract!ROther

(* A step that leaves the objects alone keeps what is said of them. *)
LEMMA ObjectsAlone ==
    ASSUME ObjectInv, UNCHANGED ovars, up' => up
    PROVE  ObjectInv'
<1>1. UNCHANGED <<objects, vectors, index, cache, direct>>
  BY DEF ovars
<1>2. VectorsFollow(vectors, objects)' /\ Distinct(objects') = Distinct(objects)
      /\ CacheType(cache') = CacheType(cache) /\ Caches(cache', index', objects') = Caches(cache, index, objects)
  BY <1>1 DEF ObjectInv, VectorsFollow
<1> QED
  BY <1>1, <1>2 DEF ObjectInv, Distinct, CacheType, Caches

(* The same for the events. *)
LEMMA EventsAlone ==
    ASSUME EventInv, UNCHANGED evars, up' => up
    PROVE  EventInv'
BY DEF EventInv, evars, Separate, AllCovered, Covers, MetaOf, Migrates

(* The same for the links. *)
LEMMA LinksAlone ==
    ASSUME LinkInv, UNCHANGED <<byId, nextLink>>, up' => up
    PROVE  LinkInv'
BY DEF LinkInv

(* open_from_database *)
LEMMA ReopenStep ==
    ASSUME RecInv, Reopen
    PROVE  RecInv' /\ Abstract!RNext
<1>1. /\ ~up /\ up' /\ cache' = Built(objects, index) /\ seqs' = ReadSeqs
      /\ meta' = [s \in Streams |-> IF s \in Migrating THEN MetaOf(ReadSeqs, s) ELSE meta[s]]
      /\ nextLink' = ReadNextLink /\ reply' = {}
      /\ UNCHANGED <<objects, vectors, index, direct, events, byId>>
  BY DEF Reopen
<1>2. ObjectInv'
  <2>1. objects \in Objects /\ (index = "unique" => Distinct(objects))
    BY DEF RecInv, ObjectInv, Objects
  <2>2. CacheType(cache') /\ Caches(cache', index', objects')
    BY <1>1, <2>1, BuiltCaches
  <2>3. VectorsFollow(vectors, objects)' /\ (index' = "unique" => Distinct(objects'))
    BY <1>1, <2>1 DEF RecInv, ObjectInv, VectorsFollow
  <2>4. /\ objects' \in [Keys -> Record \cup {None}] /\ index' \in {"none", "plain", "unique"}
        /\ vectors' \subseteq Keys
    BY <1>1 DEF RecInv, ObjectInv
  <2> QED
    BY <2>2, <2>3, <2>4 DEF ObjectInv, Distinct, CacheType, Caches
<1>3. EventInv'
  <2>1. EventInv
    BY DEF RecInv
  <2>2. PICK S : S = Migrating
    OBVIOUS
  <2>3. S \in SUBSET Streams
    BY <2>1, <2>2 DEF Migrating, EventInv, EventType
  <2>4. meta' = [s \in Streams |-> IF s \in S THEN MetaOf(ReadSeqs, s) ELSE meta[s]]
    BY <1>1, <2>2
  <2>5. /\ meta' \in [Streams -> MetaType \cup {None}]
        /\ \A s \in Streams : meta'[s] # None => Covers(meta'[s], events', s)
        /\ up' \/ ~Migrates' => \A e \in events' : meta'[e.stream] # None
    BY <1>1, <2>1, <2>2, <2>3, <2>4, MigratedMeta
  <2>6. seqs' \in SeqsType /\ AllCovered(seqs', events')
    BY <1>1, <2>1, ReadCovers
  <2>7. events' \subseteq EventType /\ IsFiniteSet(events') /\ Separate(events')
    BY <1>1, <2>1 DEF EventInv
  <2>8. Separate(events)' /\ AllCovered(seqs, events)'
        /\ \A s \in Streams : meta'[s] # None => Covers(meta[s], events, s)'
    BY <2>5, <2>6, <2>7 DEF Separate, AllCovered, Covers, MetaOf
  <2> QED
    BY <2>5, <2>6, <2>7, <2>8 DEF EventInv
<1>4. LinkInv'
  <2> DEFINE S == {l.id : l \in byId} \cup {0}
  <2>1. \A l \in byId : l.id \in 0..MaxLink /\ MaxLink \in Nat
    BY RecordConstants DEF RecInv, LinkInv, LinkType
  <2>2. S \in SUBSET Nat /\ S # {} /\ MaxLink \in Nat /\ \A x \in S : x <= MaxLink
    BY <2>1, RecordConstants
  <2>3. \A l \in byId : l.id \in S
    OBVIOUS
  <2>4. nextLink' = Max(S) + 1
    BY <1>1 DEF ReadNextLink
  <2> HIDE DEF S
  <2>5. Max(S) \in S /\ \A x \in S : Max(S) >= x
    BY <2>2, MaxBelow
  <2>6. PICK m : m = Max(S)
    OBVIOUS
  <2>7. m \in Nat /\ \A l \in byId : l.id \in Nat /\ l.id <= m
    BY <2>2, <2>3, <2>5, <2>6
  <2>8. nextLink' = m + 1
    BY <2>4, <2>6
  <2>9. nextLink' \in Nat \ {0} /\ \A l \in byId : l.id < nextLink'
    BY <2>7, <2>8
  <2> QED
    BY <1>1, <2>9 DEF RecInv, LinkInv
<1>5. Abstract!RNext
  BY <1>1, NothingShown
<1> QED
  BY <1>2, <1>3, <1>4, <1>5 DEF RecInv

(* A crash while opening migrates *)
LEMMA ReopenDiesStep ==
    ASSUME RecInv, "migration" \notin Exposed, NEW S \in SUBSET Streams, ReopenDies(S)
    PROVE  RecInv' /\ Abstract!RNext
<1>1. /\ ~up' /\ (S = Migrating \/ S = {}) /\ reply' = {}
      /\ meta' = [s \in Streams |-> IF s \in S THEN MetaOf(ReadSeqs, s) ELSE meta[s]]
      /\ UNCHANGED <<ovars, events, seqs, lvars>>
  BY DEF ReopenDies, Dies
<1>2. UNCHANGED <<objects, index, byId, nextLink>>
  BY <1>1 DEF ovars, lvars
<1>3. ObjectInv' /\ LinkInv'
  BY <1>1, <1>2, ObjectsAlone, LinksAlone DEF RecInv
<1>4. EventInv'
  <2>1. EventInv
    BY DEF RecInv
  <2>2. /\ meta' \in [Streams -> MetaType \cup {None}]
        /\ \A s \in Streams : meta'[s] # None => Covers(meta'[s], events', s)
        /\ up' \/ ~Migrates' => \A e \in events' : meta'[e.stream] # None
    BY <1>1, <2>1, MigratedMeta
  <2>3. seqs' \in SeqsType /\ events' \subseteq EventType /\ IsFiniteSet(events') /\ Separate(events')
    BY <1>1, <2>1 DEF EventInv
  <2>4. Separate(events)' /\ \A s \in Streams : meta'[s] # None => Covers(meta[s], events, s)'
    BY <2>2, <2>3 DEF Separate, Covers
  <2> QED
    BY <1>1, <2>2, <2>3, <2>4 DEF EventInv
<1>5. Abstract!RNext
  BY <1>1, <1>2, NothingShown
<1> QED
  BY <1>3, <1>4, <1>5 DEF RecInv

-----------------------------------------------------------------------------
(* The specification *)

(* The initial states: a new store, or one without event metadata. *)
LEMMA InitHolds ==
    ASSUME Init
    PROVE  RecInv /\ Abstract!RInit
<1>1. /\ up = FALSE /\ objects = [k \in Keys |-> None] /\ vectors = {} /\ index = "none"
      /\ cache = Built(objects, index) /\ direct = {}
      /\ events = {} \/ events = Legacy
      /\ meta = [s \in Streams |-> None] /\ seqs = Unused /\ reply = {} /\ byId = {} /\ nextLink = 1
  BY DEF Init
<1>2. ObjectInv
  <2>1. objects \in Objects
    BY <1>1 DEF Objects
  <2>2. CacheType(cache)
    BY <1>1, <2>1, BuiltCaches
  <2>3. VectorsFollow(vectors, objects)
    BY <1>1 DEF VectorsFollow, HasVector
  <2> QED
    BY <1>1, <2>1, <2>2, <2>3 DEF ObjectInv, Objects
<1>3. EventInv
  <2>1. events \subseteq EventType /\ IsFiniteSet(events) /\ Separate(events)
    BY <1>1, RecordConstants, FS_EmptySet DEF EventType, Separate
  <2>2. seqs \in SeqsType
    <3>1. [s \in Streams |-> [i \in Idems |-> 0]] \in [Streams -> [Idems -> Nat]]
      OBVIOUS
    <3> QED
      BY <1>1, <3>1 DEF Unused, SeqsType
  <2>3. Migrates
    BY <1>1 DEF Migrates
  <2> QED
    BY <1>1, <2>1, <2>2, <2>3 DEF EventInv
<1>4. LinkInv
  BY <1>1 DEF LinkInv
<1>5. Abstract!RInit
  <2>1. [k \in Keys |-> Shown(objects[k])] = [k \in Keys |-> None] /\ (index = "unique") = FALSE
    BY <1>1 DEF Shown
  <2>2. \A e, o \in events : e # o /\ e.stream = o.stream => e.seq # o.seq
    BY <1>3 DEF EventInv, Separate
  <2> QED
    BY <1>1, <2>1, <2>2 DEF Abstract!RInit
<1> QED
  BY <1>2, <1>3, <1>4, <1>5 DEF RecInv

(* Every step keeps the invariant and is a step of the record store. *)
LEMMA StepHolds ==
    ASSUME Exposed = {}, RecInv, [Next]_vars
    PROVE  RecInv' /\ [Abstract!RNext]_(Abstract!rvars)
<1>1. CASE ObjectNext
  <2>1. ObjectStep
    BY <1>1, ObjectNextStep DEF RecInv
  <2>2. UNCHANGED <<byId, nextLink>>
    BY <2>1 DEF ObjectStep, lvars
  <2> QED
    BY <2>1, <2>2, EventsAlone, LinksAlone DEF RecInv, ObjectStep
<1>2. CASE EventNext
  <2>1. EventStep
    BY <1>2, EventNextStep DEF RecInv
  <2>2. UNCHANGED <<byId, nextLink>>
    BY <2>1 DEF EventStep, lvars
  <2> QED
    BY <2>1, <2>2, ObjectsAlone, LinksAlone DEF RecInv, EventStep
<1>3. CASE LinkNext
  <2>1. LinkStep
    BY <1>3, LinkNextStep DEF RecInv
  <2> QED
    BY <2>1, ObjectsAlone, EventsAlone DEF RecInv, LinkStep
<1>4. CASE Crash
  <2>1. ~up' /\ reply' = {} /\ UNCHANGED <<ovars, evars, lvars>>
    BY <1>4 DEF Crash, Dies
  <2>2. UNCHANGED <<objects, index, events, byId, nextLink>>
    BY <2>1 DEF ovars, evars, lvars
  <2> QED
    BY <2>1, <2>2, ObjectsAlone, EventsAlone, LinksAlone, NothingShown DEF RecInv
<1>5. CASE Reopen
  BY <1>5, ReopenStep
<1>6. CASE \E S \in SUBSET Streams : ReopenDies(S)
  BY <1>6, ReopenDiesStep
<1>7. CASE UNCHANGED vars
  <2>1. UNCHANGED <<up, ovars, evars, lvars, reply>>
    BY <1>7 DEF vars
  <2>2. UNCHANGED <<objects, index, events, byId, nextLink, reply>>
    BY <2>1 DEF ovars, evars, lvars
  <2>3. UNCHANGED Abstract!rvars
    BY <2>2 DEF Abstract!rvars
  <2> QED
    BY <2>1, <2>2, <2>3, ObjectsAlone, EventsAlone, LinksAlone DEF RecInv
<1> QED
  BY <1>1, <1>2, <1>3, <1>4, <1>5, <1>6, <1>7 DEF Next

(* The inductive invariant holds always: unique values are kept apart, the  *)
(* cache, the vectors, the counters, keys and metadata of the streams and   *)
(* the next link id follow what is stored.                                  *)
THEOREM RecordInvariant ==
    ASSUME Exposed = {}
    PROVE  Spec => []RecInv
<1>1. Init => RecInv
  BY InitHolds
<1>2. RecInv /\ [Next]_vars => RecInv'
  BY StepHolds
<1> QED
  BY <1>1, <1>2, PTL DEF Spec

(* The unique-value cache that put_object, put_objects_batch, delete_object *)
(* and open maintain maps exactly the values held to their objects, and the *)
(* vector keyspace follows the objects, for any batch, failure and crash.   *)
THEOREM CachesFollowObjects ==
    ASSUME Exposed = {}
    PROVE  Spec => []DerivedExact
<1>1. ASSUME RecInv PROVE DerivedExact
  <2>1. ASSUME up, index = "unique", cache.complete
        PROVE  /\ cache.def = index
               /\ \A k \in Keys : k \in Valued(objects) <=>
                     \E v \in DOMAIN cache.values : cache.values[v] = k /\ objects[k] # None /\ objects[k].f = v
               /\ DOMAIN cache.values = {objects[k].f : k \in Valued(objects)}
    <3>1. cache.def = index /\ Exact(cache.values, objects)
      BY <1>1, <2>1 DEF RecInv, ObjectInv, Caches
    <3>2. ASSUME NEW k \in Valued(objects)
          PROVE  \E v \in DOMAIN cache.values : cache.values[v] = k /\ objects[k] # None /\ objects[k].f = v
      BY <3>1 DEF Exact, Valued
    <3>3. ASSUME NEW k \in Keys, NEW v \in DOMAIN cache.values, cache.values[v] = k, objects[k].f = v
          PROVE  k \in Valued(objects)
      <4>1. PICK l \in Valued(objects) : objects[l].f = v
        BY <3>1 DEF Exact
      <4>2. l = k
        BY <3>1, <3>3, <4>1 DEF Exact
      <4> QED
        BY <4>1, <4>2
    <3> QED
      BY <3>1, <3>2, <3>3 DEF Exact
  <2>2. CacheExact
    BY <2>1 DEF CacheExact
  <2>3. \A k \in Keys \ direct : k \in vectors <=> objects[k] # None /\ objects[k].vec
    BY <1>1 DEF RecInv, ObjectInv, VectorsFollow, HasVector
  <2> QED
    BY <2>2, <2>3 DEF DerivedExact
<1> QED
  BY <1>1, RecordInvariant, PTL

(* Objects, events and links are a record store: the engine refines         *)
(* RecordStore through batches, failed commits, crashes between two         *)
(* batches, reopens and the migration of old stores.                        *)
THEOREM ImplementsRecordStore ==
    ASSUME Exposed = {}
    PROVE  Spec => RefinesRecordStore
<1>1. Init => Abstract!RInit
  BY InitHolds
<1>2. RecInv /\ [Next]_vars => [Abstract!RNext]_(Abstract!rvars)
  BY StepHolds
<1> QED
  BY <1>1, <1>2, RecordInvariant, PTL DEF Spec, RefinesRecordStore, Abstract!RSpec

-----------------------------------------------------------------------------
(* Events in order *)

Positioned(S) == S \subseteq EventType /\ IsFiniteSet(S) /\ Separate(S)
Increases(s) == \A i, j \in DOMAIN s : i < j => EventLess(s[i], s[j])
Enumerates(s, S) ==
    s \in Seq(S) /\ Increases(s) /\ \A e \in S : \E i \in DOMAIN s : s[i] = e
Below(S, e) == {d \in S : EventLess(d, e)}

(* EventLess is a strict order. *)
LEMMA LessIsOrder ==
    /\ \A e \in EventType : ~EventLess(e, e)
    /\ \A c, d, e \in EventType : EventLess(c, d) /\ EventLess(d, e) => EventLess(c, e)
    /\ \A d, e \in EventType : ~(EventLess(d, e) /\ EventLess(e, d))
<1>1. \A e \in EventType : e.stream \in Nat /\ e.seq \in Nat
  BY RecordConstants DEF EventType
<1> QED
  BY <1>1 DEF EventLess

(* It orders the events of a store. *)
LEMMA LessIsTotal ==
    ASSUME NEW S, Positioned(S), NEW d \in S, NEW e \in S, d # e
    PROVE  EventLess(d, e) \/ EventLess(e, d)
<1>1. \A c \in S : c.stream \in Nat /\ c.seq \in Nat
  BY RecordConstants DEF EventType, Positioned
<1>2. d.stream = e.stream => d.seq # e.seq
  BY DEF Positioned, Separate
<1> QED
  BY <1>1, <1>2 DEF EventLess

(* A part of the events. *)
LEMMA PositionedPart ==
    ASSUME NEW S, Positioned(S), NEW T \in SUBSET S
    PROVE  Positioned(T)
<1>1. IsFiniteSet(T)
  BY FS_Subset DEF Positioned
<1> QED
  BY <1>1 DEF Positioned, Separate

(* A later event has more before it. *)
LEMMA BelowGrows ==
    ASSUME NEW S, Positioned(S), NEW d \in S, NEW e \in S, EventLess(d, e)
    PROVE  /\ Cardinality(Below(S, d)) \in Nat /\ Cardinality(Below(S, e)) \in Nat
           /\ Cardinality(Below(S, d)) < Cardinality(Below(S, e))
<1>1. \A c \in S : c \in EventType
  BY DEF Positioned
<1>2. PICK A, B : A = Below(S, d) /\ B = Below(S, e)
  OBVIOUS
<1>3. A \in SUBSET B
  BY <1>1, <1>2, LessIsOrder DEF Below
<1>4. d \in B /\ d \notin A
  BY <1>1, <1>2, LessIsOrder DEF Below
<1>5. B \in SUBSET S /\ IsFiniteSet(S)
  BY <1>2 DEF Below, Positioned
<1>6. IsFiniteSet(B)
  BY <1>5, FS_Subset
<1>7. IsFiniteSet(A) /\ Cardinality(A) <= Cardinality(B) /\ (Cardinality(A) = Cardinality(B) => A = B)
  BY <1>3, <1>6, FS_Subset
<1>8. Cardinality(A) \in Nat /\ Cardinality(B) \in Nat
  BY <1>6, <1>7, FS_CardinalityType
<1>9. A # B
  BY <1>4
<1>10. Cardinality(A) < Cardinality(B)
  BY <1>7, <1>8, <1>9
<1> QED
  BY <1>2, <1>8, <1>10

(* Fewer than all are before an event. *)
LEMMA BelowBounded ==
    ASSUME NEW S, Positioned(S), NEW e \in S
    PROVE  Cardinality(Below(S, e)) + 1 \in 1..Cardinality(S) /\ Cardinality(Below(S, e)) \in Nat
<1>1. e \in EventType /\ IsFiniteSet(S)
  BY DEF Positioned
<1>2. PICK A, W : A = Below(S, e) /\ W = S \ {e}
  OBVIOUS
<1>3. A \in SUBSET W
  BY <1>1, <1>2, LessIsOrder DEF Below
<1>4. IsFiniteSet(W) /\ Cardinality(W) = Cardinality(S) - 1
  BY <1>1, <1>2, FS_RemoveElement
<1>5. IsFiniteSet(A) /\ Cardinality(A) <= Cardinality(W)
  BY <1>3, <1>4, FS_Subset
<1>6. Cardinality(A) \in Nat /\ Cardinality(S) \in Nat
  BY <1>1, <1>5, FS_CardinalityType
<1>7. Cardinality(A) + 1 \in 1..Cardinality(S)
  BY <1>4, <1>5, <1>6
<1> QED
  BY <1>2, <1>6, <1>7

(* The events can be put in order. *)
LEMMA OrderExists ==
    ASSUME NEW S, Positioned(S)
    PROVE  \E s \in [1..Cardinality(S) -> S] : Increases(s)
<1>1. PICK n \in Nat : n = Cardinality(S)
  BY FS_CardinalityType DEF Positioned
<1>2. PICK r : r = [e \in S |-> Cardinality(Below(S, e)) + 1]
  OBVIOUS
<1>3. \A e \in S : r[e] \in 1..n
  BY <1>1, <1>2, BelowBounded
<1>4. ASSUME NEW d \in S, NEW e \in S, EventLess(d, e) PROVE r[d] < r[e]
  <2>1. PICK a, b : a = Cardinality(Below(S, d)) /\ b = Cardinality(Below(S, e))
    OBVIOUS
  <2>2. a \in Nat /\ b \in Nat /\ a < b
    BY <1>4, <2>1, BelowGrows
  <2>3. r[d] = a + 1 /\ r[e] = b + 1
    BY <1>2, <2>1
  <2> QED
    BY <2>2, <2>3
<1>5. \A d, e \in S : r[d] = r[e] => d = e
  <2>1. SUFFICES ASSUME NEW d \in S, NEW e \in S, r[d] = r[e], d # e PROVE FALSE
    OBVIOUS
  <2>2. EventLess(d, e) \/ EventLess(e, d)
    BY <2>1, LessIsTotal
  <2>3. r[d] < r[e] \/ r[e] < r[d]
    BY <1>4, <2>2
  <2>4. r[d] \in Nat
    BY <1>3, <1>1
  <2> QED
    BY <2>1, <2>3, <2>4
<1>6. r \in Injection(S, 1..n)
  <2>1. r \in [S -> 1..n]
    BY <1>2, <1>3
  <2> QED
    BY <2>1, <1>5 DEF Injection, IsInjective
<1>7. IsFiniteSet(1..n) /\ Cardinality(1..n) = n
  BY FS_Interval
<1>8. r \in Surjection(S, 1..n)
  BY <1>1, <1>6, <1>7, FS_Injection
<1>9. \A i \in 1..n : \E e \in S : r[e] = i
  BY <1>8 DEF Surjection
<1>10. PICK s : s = [i \in 1..n |-> CHOOSE e \in S : r[e] = i]
  OBVIOUS
<1>11. \A i \in 1..n : s[i] \in S /\ r[s[i]] = i
  BY <1>9, <1>10
<1>12. s \in [1..n -> S] /\ DOMAIN s = 1..n
  BY <1>10, <1>11
<1>13. ASSUME NEW i \in 1..n, NEW j \in 1..n, i < j PROVE EventLess(s[i], s[j])
  <2>1. s[i] # s[j] /\ ~EventLess(s[j], s[i])
    <3>1. r[s[i]] = i /\ r[s[j]] = j /\ s[i] \in S /\ s[j] \in S
      BY <1>11
    <3>2. EventLess(s[j], s[i]) => j < i
      BY <1>4, <3>1
    <3> QED
      BY <1>13, <3>1, <3>2
  <2> QED
    BY <1>11, <2>1, LessIsTotal
<1>14. Increases(s)
  BY <1>12, <1>13 DEF Increases
<1> QED
  BY <1>1, <1>12, <1>14

(* The i-th of the events in order has i - 1 before it. *)
LEMMA EnumeratedRank ==
    ASSUME NEW S, Positioned(S), NEW s, Enumerates(s, S)
    PROVE  /\ Len(s) = Cardinality(S) /\ Len(s) \in Nat /\ DOMAIN s = 1..Len(s)
           /\ \A i \in 1..Len(s) : s[i] \in S /\ Cardinality(Below(S, s[i])) = i - 1
<1>1. PICK n \in Nat : n = Len(s)
  BY DEF Enumerates
<1>2. s \in [1..n -> S] /\ DOMAIN s = 1..n
  BY <1>1 DEF Enumerates
<1>3. \A i, j \in 1..n : i < j => EventLess(s[i], s[j])
  BY <1>2 DEF Enumerates, Increases
<1>4. \A i \in 1..n : s[i] \in EventType
  BY <1>2 DEF Positioned
<1>5. \A i, j \in 1..n : s[i] = s[j] => i = j
  <2>1. SUFFICES ASSUME NEW i \in 1..n, NEW j \in 1..n, s[i] = s[j], i # j PROVE FALSE
    OBVIOUS
  <2>2. EventLess(s[i], s[j]) \/ EventLess(s[j], s[i])
    BY <1>3, <2>1
  <2> QED
    BY <1>4, <2>1, <2>2, LessIsOrder
<1>6. \A e \in S : \E i \in 1..n : s[i] = e
  BY <1>2 DEF Enumerates
<1>7. s \in Bijection(1..n, S)
  BY <1>2, <1>5, <1>6 DEF Bijection, Injection, Surjection, IsInjective
<1>8. Cardinality(S) = n
  <2>1. ExistsBijection(1..n, S)
    BY <1>7 DEF ExistsBijection
  <2> QED
    BY <2>1, FS_CountingElements
<1>9. ASSUME NEW i \in 1..n PROVE Cardinality(Below(S, s[i])) = i - 1
  <2>1. PICK m \in Nat : m = i - 1
    OBVIOUS
  <2>2. PICK B : B = Below(S, s[i])
    OBVIOUS
  <2>3. PICK f : f = [j \in 1..m |-> s[j]]
    OBVIOUS
  <2>4. \A j \in 1..m : f[j] = s[j] /\ j \in 1..n /\ j < i
    BY <2>1, <2>3
  <2>5. \A j \in 1..m : f[j] \in B
    BY <1>2, <1>3, <2>2, <2>4 DEF Below
  <2>6. ASSUME NEW d \in B PROVE \E j \in 1..m : f[j] = d
    <3>1. d \in S /\ EventLess(d, s[i])
      BY <2>2 DEF Below
    <3>2. PICK j \in 1..n : s[j] = d
      BY <1>6, <3>1
    <3>3. ~(i < j) /\ i # j
      <4>1. i < j => EventLess(s[i], s[j])
        BY <1>3
      <4> QED
        BY <1>4, <3>1, <3>2, <4>1, LessIsOrder
    <3>4. j \in 1..m
      BY <2>1, <3>3
    <3> QED
      BY <2>4, <3>2, <3>4
  <2>7. \A j, k \in 1..m : f[j] = f[k] => j = k
    BY <1>5, <2>4
  <2>8. f \in [1..m -> B]
    BY <2>3, <2>5
  <2>9. f \in Bijection(1..m, B)
    BY <2>6, <2>7, <2>8 DEF Bijection, Injection, Surjection, IsInjective
  <2>10. ExistsBijection(1..m, B)
    BY <2>9 DEF ExistsBijection
  <2>11. Cardinality(B) = m
    BY <2>10, FS_CountingElements
  <2> QED
    BY <2>1, <2>2, <2>11
<1> QED
  BY <1>1, <1>2, <1>8, <1>9

(* There is one order. *)
LEMMA EnumeratedOnce ==
    ASSUME NEW S, Positioned(S), NEW s, Enumerates(s, S), NEW t, Enumerates(t, S)
    PROVE  s = t
<1>1. PICK n \in Nat : n = Cardinality(S)
  BY FS_CardinalityType DEF Positioned
<1>2. /\ DOMAIN s = 1..n
      /\ \A i \in 1..n : s[i] \in S /\ Cardinality(Below(S, s[i])) = i - 1
  BY <1>1, EnumeratedRank
<1>3. /\ DOMAIN t = 1..n
      /\ \A i \in 1..n : t[i] \in S /\ Cardinality(Below(S, t[i])) = i - 1
  BY <1>1, EnumeratedRank
<1>4. ASSUME NEW i \in 1..n, s[i] # t[i] PROVE FALSE
  <2>1. EventLess(s[i], t[i]) \/ EventLess(t[i], s[i])
    BY <1>2, <1>3, <1>4, LessIsTotal
  <2>2. PICK a, b : a = Cardinality(Below(S, s[i])) /\ b = Cardinality(Below(S, t[i]))
    OBVIOUS
  <2>3. a \in Nat /\ b \in Nat /\ (a < b \/ b < a)
    BY <1>2, <1>3, <2>1, <2>2, BelowGrows
  <2> QED
    BY <1>2, <1>3, <2>2, <2>3
<1>5. \A i \in 1..n : s[i] = t[i]
  BY <1>4
<1>6. s = [i \in 1..n |-> s[i]] /\ t = [i \in 1..n |-> t[i]]
  <2>1. s \in Seq(S) /\ t \in Seq(S)
    BY DEF Enumerates
  <2> QED
    BY <1>2, <1>3, <2>1
<1> QED
  BY <1>5, <1>6

(* InOrder has every event, each at its rank. *)
LEMMA InOrderEnumerates ==
    ASSUME NEW S, Positioned(S)
    PROVE  Enumerates(InOrder(S), S)
<1>1. PICK n \in Nat : n = Cardinality(S) /\ IsFiniteSet(S)
  BY FS_CardinalityType DEF Positioned
<1>2. PICK s \in [1..n -> S] : Increases(s)
  BY <1>1, OrderExists
<1>3. s \in [1..n -> S] /\ Increases(s)
  BY <1>2
<1>4. s \in Seq(S) /\ DOMAIN s = 1..n /\ Len(s) = n
  BY <1>3
<1>5. \A i, j \in 1..n : s[i] = s[j] => i = j
  <2>1. SUFFICES ASSUME NEW i \in 1..n, NEW j \in 1..n, s[i] = s[j], i # j PROVE FALSE
    OBVIOUS
  <2>2. EventLess(s[i], s[j]) \/ EventLess(s[j], s[i])
    <3>1. i < j \/ j < i
      BY <2>1
    <3> QED
      BY <1>3, <1>4, <3>1 DEF Increases
  <2>3. s[i] \in EventType
    BY <1>3 DEF Positioned
  <2> QED
    BY <2>1, <2>2, <2>3, LessIsOrder
<1>6. s \in Injection(1..n, S)
  BY <1>3, <1>5 DEF Injection, IsInjective
<1>7. Cardinality(1..n) = n
  BY FS_Interval
<1>8. s \in Surjection(1..n, S)
  BY <1>1, <1>6, <1>7, FS_Injection
<1>9. \A e \in S : \E i \in 1..n : s[i] = e
  BY <1>8 DEF Surjection
<1>10. Enumerates(s, S)
  BY <1>3, <1>4, <1>9 DEF Enumerates
<1>11. \A i \in 1..n : s[i] \in S /\ Cardinality(Below(S, s[i])) = i - 1
  BY <1>4, <1>10, EnumeratedRank
<1>12. ASSUME NEW i \in 1..n PROVE Nth(S, i) = s[i]
  <2>1. \A e \in S : Cardinality(Below(S, e)) = i - 1 => e = s[i]
    <3>1. SUFFICES ASSUME NEW e \in S, Cardinality(Below(S, e)) = i - 1 PROVE e = s[i]
      OBVIOUS
    <3>2. PICK j \in 1..n : s[j] = e
      BY <1>9
    <3>3. Cardinality(Below(S, e)) = j - 1
      BY <1>11, <3>2
    <3>4. j = i
      BY <3>1, <3>3
    <3> QED
      BY <3>2, <3>4
  <2>2. s[i] \in S /\ Cardinality(Below(S, s[i])) = i - 1
    BY <1>11
  <2> QED
    BY <2>1, <2>2 DEF Nth, Below
<1>13. InOrder(S) = s
  BY <1>1, <1>3, <1>12 DEF InOrder
<1> QED
  BY <1>10, <1>13

(* Earlier events, then later ones. *)
LEMMA EnumeratedConcat ==
    ASSUME NEW A, NEW B, NEW s, Enumerates(s, A), NEW t, Enumerates(t, B),
           \A d \in A : \A e \in B : EventLess(d, e)
    PROVE  Enumerates(s \o t, A \cup B)
<1>1. PICK m \in Nat : m = Len(s)
  BY DEF Enumerates
<1>2. PICK n \in Nat : n = Len(t)
  BY DEF Enumerates
<1>3. s \in Seq(A) /\ t \in Seq(B) /\ s \in Seq(A \cup B) /\ t \in Seq(A \cup B)
  BY DEF Enumerates
<1>4. DOMAIN s = 1..m /\ DOMAIN t = 1..n /\ (\A i \in 1..m : s[i] \in A) /\ \A i \in 1..n : t[i] \in B
  BY <1>1, <1>2, <1>3
<1>5. PICK u : u = s \o t
  OBVIOUS
<1>6. /\ u \in Seq(A \cup B) /\ Len(u) = m + n /\ DOMAIN u = 1..(m + n)
      /\ \A i \in 1..(m + n) : u[i] = IF i <= m THEN s[i] ELSE t[i - m]
  BY <1>1, <1>2, <1>3, <1>5
<1>7. ASSUME NEW i \in 1..(m + n), NEW j \in 1..(m + n), i < j PROVE EventLess(u[i], u[j])
  <2>1. CASE j <= m
    <3>1. u[i] = s[i] /\ u[j] = s[j] /\ i \in DOMAIN s /\ j \in DOMAIN s
      BY <1>4, <1>6, <1>7, <2>1
    <3> QED
      BY <1>7, <3>1 DEF Enumerates, Increases
  <2>2. CASE i <= m /\ j > m
    <3>1. u[i] = s[i] /\ u[j] = t[j - m] /\ i \in 1..m /\ j - m \in 1..n
      BY <1>6, <2>2
    <3> QED
      BY <1>4, <3>1
  <2>3. CASE i > m
    <3>1. u[i] = t[i - m] /\ u[j] = t[j - m] /\ i - m \in DOMAIN t /\ j - m \in DOMAIN t /\ i - m < j - m
      BY <1>4, <1>6, <1>7, <2>3
    <3> QED
      BY <3>1 DEF Enumerates, Increases
  <2> QED
    BY <1>7, <2>1, <2>2, <2>3
<1>8. ASSUME NEW e \in A \cup B PROVE \E i \in 1..(m + n) : u[i] = e
  <2>1. CASE e \in A
    <3>1. PICK i \in 1..m : s[i] = e
      BY <1>4, <2>1 DEF Enumerates
    <3>2. i \in 1..(m + n) /\ u[i] = e
      BY <1>6, <3>1
    <3> QED
      BY <3>2
  <2>2. CASE e \in B
    <3>1. PICK i \in 1..n : t[i] = e
      BY <1>4, <2>2 DEF Enumerates
    <3>2. i + m \in 1..(m + n) /\ ~(i + m <= m) /\ (i + m) - m = i
      OBVIOUS
    <3>3. u[i + m] = e
      BY <1>6, <3>1, <3>2
    <3> QED
      BY <3>2, <3>3
  <2> QED
    BY <2>1, <2>2
<1>9. Enumerates(u, A \cup B)
  BY <1>6, <1>7, <1>8 DEF Enumerates, Increases
<1> QED
  BY <1>5, <1>9

-----------------------------------------------------------------------------
(* Pages of events *)

PageAt(R, size, p) ==
    [i \in 1..(Min({p + size, Cardinality(R)}) - p) |-> Nth(R, p + i)]
KeptAt(R, size, hidden, p) == InOrder(ToSet(PageAt(R, size, p)) \ hidden)

(* f is what the pages from each position on yield. *)
Scans(f, R, size, hidden) ==
    f = [p \in 0..Cardinality(R) |->
            IF PageAt(R, size, p) = <<>> THEN <<>>
            ELSE IF LastPage(PageAt(R, size, p), KeptAt(R, size, hidden, p), size)
                 THEN KeptAt(R, size, hidden, p)
                 ELSE KeptAt(R, size, hidden, p) \o f[p + Len(PageAt(R, size, p))]]

(* The events past position p. *)
Later(E, p) == {E[i] : i \in (p + 1)..Len(E)}

(* The smaller of two numbers. *)
LEMMA MinOfTwo ==
    ASSUME NEW a \in Nat, NEW b \in Nat
    PROVE  Min({a, b}) = IF a < b THEN a ELSE b
<1>1. PICK c : c = IF a < b THEN a ELSE b
  OBVIOUS
<1>2. c \in {a, b} /\ \A x \in {a, b} : c <= x
  BY <1>1
<1>3. \A d \in {a, b} : (\A x \in {a, b} : d <= x) => d = c
  BY <1>1
<1>4. Min({a, b}) = c
  BY <1>2, <1>3 DEF Min
<1> QED
  BY <1>1, <1>4

(* The page from position p ends at m. *)
Reaches(E, R, size, p, m) ==
    /\ m = p + Len(PageAt(R, size, p))
    /\ p <= m /\ (p = m <=> p = Len(E))
    /\ PageAt(R, size, p) = <<>> <=> p = Len(E)
    /\ Len(PageAt(R, size, p)) < size => m = Len(E)
    /\ ToSet(PageAt(R, size, p)) = {E[i] : i \in (p + 1)..m}

(* The order has the n-th event at position n. *)
LEMMA EnumeratedNth ==
    ASSUME NEW R, Positioned(R), NEW E, Enumerates(E, R)
    PROVE  Len(E) = Cardinality(R) /\ \A i \in 1..Len(E) : Nth(R, i) = E[i]
<1>1. E = InOrder(R)
  BY InOrderEnumerates, EnumeratedOnce
<1>2. Len(E) = Cardinality(R)
  BY EnumeratedRank
<1> QED
  BY <1>1, <1>2 DEF InOrder

(* A page is what lies between two positions. *)
LEMMA PageIs ==
    ASSUME NEW R, Positioned(R), NEW E, Enumerates(E, R), NEW size \in Nat \ {0},
           NEW p \in 0..Len(E)
    PROVE  \E m \in 0..Len(E) : Reaches(E, R, size, p, m)
<1>1. PICK n \in Nat : n = Len(E)
  BY DEF Enumerates
<1>2. E \in Seq(R) /\ DOMAIN E = 1..n
  BY <1>1 DEF Enumerates
<1>3. PICK m : m = IF p + size < n THEN p + size ELSE n
  OBVIOUS
<1>4. m \in 0..n /\ p <= m /\ (p = m <=> p = n) /\ p \in Nat /\ m \in Nat
  BY <1>1, <1>3
<1>5. Min({p + size, n}) = m
  BY <1>1, <1>3, <1>4, MinOfTwo
<1>6. PICK s : s = PageAt(R, size, p)
  OBVIOUS
<1>a. n = Cardinality(R) /\ \A i \in 1..n : Nth(R, i) = E[i]
  BY <1>1, EnumeratedNth
<1>7. s = [i \in 1..(m - p) |-> Nth(R, p + i)]
  BY <1>a, <1>5, <1>6 DEF PageAt
<1>8. /\ Len(s) = m - p /\ DOMAIN s = 1..(m - p)
      /\ \A i \in 1..(m - p) : s[i] = E[p + i]
      /\ s \in Seq(R)
  <2>1. \A i \in 1..(m - p) : p + i \in 1..n
    BY <1>4
  <2>2. ASSUME NEW i \in 1..(m - p) PROVE s[i] = E[p + i] /\ E[p + i] \in R
    <3>1. p + i \in 1..n /\ s[i] = Nth(R, p + i)
      BY <1>7, <2>1
    <3>2. \A j \in 1..n : E[j] \in R
      BY <1>2
    <3> QED
      BY <1>a, <3>1, <3>2
  <2>3. m - p \in Nat /\ DOMAIN s = 1..(m - p)
    BY <1>4, <1>7
  <2>4. s \in [1..(m - p) -> R]
    BY <1>7, <2>2
  <2> QED
    BY <2>2, <2>3, <2>4
<1>9. s = <<>> <=> p = n
  BY <1>4, <1>8
<1>10. Len(s) < size => m = n
  BY <1>1, <1>3, <1>4, <1>8
<1>11. ToSet(s) = {E[i] : i \in (p + 1)..m}
  <2>1. ASSUME NEW i \in DOMAIN s PROVE s[i] \in {E[j] : j \in (p + 1)..m}
    <3>1. p + i \in (p + 1)..m /\ s[i] = E[p + i]
      BY <1>4, <1>8
    <3> QED
      BY <3>1
  <2>2. ASSUME NEW j \in (p + 1)..m PROVE \E i \in DOMAIN s : s[i] = E[j]
    <3>1. j - p \in 1..(m - p) /\ p + (j - p) = j
      BY <1>4
    <3> QED
      BY <1>8, <3>1
  <2> QED
    BY <2>1, <2>2 DEF ToSet
<1>12. m = p + Len(s)
  BY <1>4, <1>8
<1> QED
  BY <1>1, <1>4, <1>6, <1>9, <1>10, <1>11, <1>12 DEF Reaches

SplitsAt(E, hidden, p, m, A) ==
    /\ Later(E, p) \ hidden = (A \ hidden) \cup (Later(E, m) \ hidden)
    /\ \A d \in A \ hidden : \A e \in Later(E, m) \ hidden : EventLess(d, e)
    /\ Positioned(A \ hidden) /\ Positioned(Later(E, m) \ hidden)
    /\ Later(E, Len(E)) = {}

(* The rest after p is the rest of a page and the rest after the page. *)
LEMMA LaterSplits ==
    ASSUME NEW R, NEW E, NEW hidden, NEW A, NEW p \in 0..Len(E), NEW m \in 0..Len(E),
           Positioned(R), Enumerates(E, R), p <= m, A = {E[i] : i \in (p + 1)..m}
    PROVE  SplitsAt(E, hidden, p, m, A)
<1>1. PICK n \in Nat : n = Len(E)
  BY DEF Enumerates
<1>2. DOMAIN E = 1..n /\ \A i \in 1..n : E[i] \in R
  BY <1>1 DEF Enumerates
<1>3. p \in Nat /\ m \in Nat /\ p <= m /\ m <= n
  BY <1>1
<1>4. \A i : i \in (p + 1)..n <=> i \in (p + 1)..m \/ i \in (m + 1)..n
  BY <1>3
<1>5. Later(E, p) = A \cup Later(E, m)
  BY <1>1, <1>4 DEF Later
<1>6. ASSUME NEW i \in (p + 1)..m, NEW j \in (m + 1)..n PROVE EventLess(E[i], E[j])
  <2>1. i \in 1..n /\ j \in 1..n /\ i < j
    BY <1>3
  <2> QED
    BY <1>2, <2>1 DEF Enumerates, Increases
<1>7. \A d \in A : \A e \in Later(E, m) : EventLess(d, e)
  BY <1>1, <1>6 DEF Later
<1>8. \A i \in (p + 1)..n : i \in 1..n
  BY <1>3
<1>9. Later(E, p) \subseteq R
  BY <1>1, <1>2, <1>8 DEF Later
<1>10. A \ hidden \in SUBSET R /\ Later(E, m) \ hidden \in SUBSET R
  BY <1>5, <1>9
<1>11. Positioned(A \ hidden) /\ Positioned(Later(E, m) \ hidden)
  BY <1>10, PositionedPart
<1>12. (n + 1)..n = {}
  OBVIOUS
<1>13. Later(E, Len(E)) = {}
  BY <1>1, <1>12 DEF Later
<1> QED
  BY <1>5, <1>7, <1>11, <1>13 DEF SplitsAt

(* Nothing, in order. *)
LEMMA NothingInOrder ==
    ASSUME NEW s
    PROVE  Enumerates(<<>>, {}) /\ (Enumerates(s, {}) => s = <<>>)
<1>1. Positioned({})
  BY FS_EmptySet DEF Positioned, Separate
<1>2. Enumerates(<<>>, {})
  BY DEF Enumerates, Increases
<1> QED
  BY <1>1, <1>2, EnumeratedOnce

(* One page more. *)
LEMMA OnePage ==
    ASSUME NEW R, NEW E, NEW size \in Nat \ {0}, NEW hidden, NEW p \in 0..Len(E), NEW page, NEW kept,
           Positioned(R), Enumerates(E, R), page = PageAt(R, size, p),
           kept = KeptAt(R, size, hidden, p)
    PROVE  /\ p + Len(page) \in 0..Len(E)
           /\ page = <<>> => Later(E, p) \ hidden = {}
           /\ page # <<>> => p < p + Len(page)
           /\ LastPage(page, kept, size) => Enumerates(kept, Later(E, p) \ hidden)
           /\ \A t : Enumerates(t, Later(E, p + Len(page)) \ hidden)
                        => Enumerates(kept \o t, Later(E, p) \ hidden)
<1>0. PICK m \in 0..Len(E) : Reaches(E, R, size, p, m)
  BY PageIs
<1>1. /\ m = p + Len(page)
      /\ p <= m /\ (p = m <=> p = Len(E))
      /\ page = <<>> <=> p = Len(E)
      /\ Len(page) < size => m = Len(E)
      /\ ToSet(page) = {E[i] : i \in (p + 1)..m}
  BY <1>0 DEF Reaches
<1>2. PICK A : A = {E[i] : i \in (p + 1)..m}
  OBVIOUS
<1>3. /\ Later(E, p) \ hidden = (A \ hidden) \cup (Later(E, m) \ hidden)
      /\ \A d \in A \ hidden : \A e \in Later(E, m) \ hidden : EventLess(d, e)
      /\ Positioned(A \ hidden) /\ Later(E, Len(E)) = {}
  <2>1. m \in 0..Len(E) /\ p <= m /\ A = {E[i] : i \in (p + 1)..m}
    BY <1>1, <1>2
  <2>2. SplitsAt(E, hidden, p, m, A)
    BY <2>1, LaterSplits
  <2> QED
    BY <2>2 DEF SplitsAt
<1>4. Enumerates(kept, A \ hidden)
  BY <1>1, <1>2, <1>3, InOrderEnumerates DEF KeptAt
<1>5. page = <<>> => Later(E, p) \ hidden = {}
  BY <1>1, <1>3
<1>6. page # <<>> => p < m
  <2>1. Len(E) \in Nat
    BY DEF Enumerates
  <2> QED
    BY <1>1, <2>1
<1>7. LastPage(page, kept, size) => Enumerates(kept, Later(E, p) \ hidden)
  BY <1>1, <1>3, <1>4 DEF LastPage
<1>8. ASSUME NEW t, Enumerates(t, Later(E, m) \ hidden)
      PROVE  Enumerates(kept \o t, Later(E, p) \ hidden)
  BY <1>3, <1>4, <1>8, EnumeratedConcat
<1> QED
  BY <1>1, <1>5, <1>6, <1>7, <1>8

(* The recursion of list_events has a solution: the rest, in order. *)
LEMMA ScanExists ==
    ASSUME NEW R, Positioned(R), NEW E, Enumerates(E, R), NEW size \in Nat \ {0}, NEW hidden
    PROVE  \E f : Scans(f, R, size, hidden)
<1>1. PICK f : f = [p \in 0..Len(E) |-> InOrder(Later(E, p) \ hidden)]
  OBVIOUS
<1>2. ASSUME NEW p \in 0..Len(E)
      PROVE  Positioned(Later(E, p) \ hidden) /\ Enumerates(f[p], Later(E, p) \ hidden)
  <2>1. p <= p /\ {E[i] : i \in (p + 1)..p} = {E[i] : i \in (p + 1)..p}
    BY DEF Enumerates
  <2>2. SplitsAt(E, hidden, p, p, {E[i] : i \in (p + 1)..p})
    BY <2>1, LaterSplits
  <2>3. Positioned(Later(E, p) \ hidden)
    BY <2>2 DEF SplitsAt
  <2>4. f[p] = InOrder(Later(E, p) \ hidden)
    BY <1>1
  <2> QED
    BY <2>3, <2>4, InOrderEnumerates
<1>3. ASSUME NEW p \in 0..Len(E)
      PROVE  f[p] = IF PageAt(R, size, p) = <<>> THEN <<>>
                    ELSE IF LastPage(PageAt(R, size, p), KeptAt(R, size, hidden, p), size)
                         THEN KeptAt(R, size, hidden, p)
                         ELSE KeptAt(R, size, hidden, p) \o f[p + Len(PageAt(R, size, p))]
  <2>1. PICK page, kept : page = PageAt(R, size, p) /\ kept = KeptAt(R, size, hidden, p)
    OBVIOUS
  <2>2. /\ p + Len(page) \in 0..Len(E)
        /\ page = <<>> => Later(E, p) \ hidden = {}
        /\ LastPage(page, kept, size) => Enumerates(kept, Later(E, p) \ hidden)
        /\ \A t : Enumerates(t, Later(E, p + Len(page)) \ hidden)
                     => Enumerates(kept \o t, Later(E, p) \ hidden)
    BY <2>1, OnePage
  <2>3. CASE page = <<>>
    <3>1. f[p] = <<>>
      BY <1>2, <2>2, <2>3, NothingInOrder
    <3> QED
      BY <2>1, <2>3, <3>1
  <2>4. CASE page # <<>> /\ LastPage(page, kept, size)
    <3>1. f[p] = kept
      BY <1>2, <2>2, <2>4, EnumeratedOnce
    <3> QED
      BY <2>1, <2>4, <3>1
  <2>5. CASE page # <<>> /\ ~LastPage(page, kept, size)
    <3>1. PICK t : t = f[p + Len(page)]
      OBVIOUS
    <3>2. Enumerates(t, Later(E, p + Len(page)) \ hidden)
      BY <1>2, <2>2, <3>1
    <3>3. Enumerates(kept \o t, Later(E, p) \ hidden)
      BY <2>2, <3>2
    <3>4. f[p] = kept \o t
      BY <1>2, <3>3, EnumeratedOnce
    <3> QED
      BY <2>1, <2>5, <3>1, <3>4
  <2> QED
    BY <2>3, <2>4, <2>5
<1>4. f = [p \in 0..Len(E) |-> f[p]]
  BY <1>1
<1>5. Scans(f, R, size, hidden)
  <2>1. Len(E) = Cardinality(R)
    BY EnumeratedNth
  <2> QED
    BY <1>3, <1>4, <2>1 DEF Scans
<1> QED
  BY <1>5

Misses(f, E, hidden, p) == ~Enumerates(f[p], Later(E, p) \ hidden)

(* What the pages from a position on yield is the rest, in order. *)
LEMMA ScanIsRest ==
    ASSUME NEW R, Positioned(R), NEW E, Enumerates(E, R), NEW size \in Nat \ {0}, NEW hidden,
           NEW f, Scans(f, R, size, hidden), NEW q \in 0..Len(E)
    PROVE  Enumerates(f[q], Later(E, q) \ hidden)
<1>0. PICK n \in Nat : n = Len(E)
  BY DEF Enumerates
<1>1. PICK X : X = {x \in Nat : x <= n /\ Misses(f, E, hidden, n - x)}
  OBVIOUS
<1>2. ASSUME X # {} PROVE FALSE
  <2>1. PICK x \in X : \A y \in X : x <= y
    <3>1. X \in SUBSET Nat
      BY <1>1
    <3> QED
      BY <1>2, <3>1, LeastNumber
  <2>2. x \in Nat /\ x <= n /\ Misses(f, E, hidden, n - x)
    BY <1>1, <2>1
  <2>3. PICK p \in 0..n : p = n - x
    BY <2>2
  <2>4. ~Enumerates(f[p], Later(E, p) \ hidden) /\ p \in 0..Len(E)
    BY <1>0, <2>2, <2>3 DEF Misses
  <2>5. PICK page, kept : page = PageAt(R, size, p) /\ kept = KeptAt(R, size, hidden, p)
    OBVIOUS
  <2>6. /\ p + Len(page) \in 0..Len(E)
        /\ page = <<>> => Later(E, p) \ hidden = {}
        /\ page # <<>> => p < p + Len(page)
        /\ LastPage(page, kept, size) => Enumerates(kept, Later(E, p) \ hidden)
        /\ \A t : Enumerates(t, Later(E, p + Len(page)) \ hidden)
                     => Enumerates(kept \o t, Later(E, p) \ hidden)
    <3>1. p \in 0..Len(E)
      BY <2>4
    <3> QED
      BY <2>5, <3>1, OnePage
  <2>7. f[p] = IF page = <<>> THEN <<>>
               ELSE IF LastPage(page, kept, size) THEN kept ELSE kept \o f[p + Len(page)]
    <3>1. Len(E) = Cardinality(R)
      BY EnumeratedNth
    <3> QED
      BY <2>4, <2>5, <3>1 DEF Scans
  <2>8. CASE page = <<>>
    <3>1. f[p] = <<>> /\ Later(E, p) \ hidden = {}
      BY <2>6, <2>7, <2>8
    <3> QED
      BY <2>4, <3>1, NothingInOrder
  <2>9. CASE page # <<>> /\ LastPage(page, kept, size)
    BY <2>4, <2>6, <2>7, <2>9
  <2>10. CASE page # <<>> /\ ~LastPage(page, kept, size)
    <3>1. PICK m \in 0..n : m = p + Len(page)
      BY <1>0, <2>6
    <3>2. p < m
      BY <2>6, <2>10, <3>1
    <3>3. n - m \in Nat
      <4>1. m \in 0..n
        OBVIOUS
      <4> QED
        BY <4>1
    <3>3a. PICK y \in Nat : y = n - m
      BY <3>3
    <3>4. y < x /\ y <= n /\ n - y = m
      <4>1. x \in Nat /\ x <= n
        BY <2>2
      <4> QED
        BY <4>1, <1>0, <2>3, <3>1, <3>2, <3>3a
    <3>5. y \notin X
      BY <2>1, <2>2, <3>3a, <3>4
    <3>5a. ~Misses(f, E, hidden, n - y)
      BY <1>1, <3>3a, <3>4, <3>5
    <3>6. Enumerates(f[m], Later(E, m) \ hidden)
      BY <3>4, <3>5a DEF Misses
    <3>7. Enumerates(kept \o f[m], Later(E, p) \ hidden)
      BY <2>6, <3>1, <3>6
    <3> QED
      BY <2>4, <2>7, <2>10, <3>1, <3>7
  <2> QED
    BY <2>8, <2>9, <2>10
<1>3a. q \in 0..n
  BY <1>0
<1>3b. n - q \in Nat
  BY <1>3a
<1>3. PICK z \in Nat : z = n - q
  BY <1>3b
<1>4. z <= n /\ n - z = q
  BY <1>3a, <1>3
<1>5. z \notin X
  BY <1>2
<1>6. ~Misses(f, E, hidden, n - z)
  BY <1>1, <1>3, <1>4, <1>5
<1> QED
  BY <1>4, <1>6 DEF Misses

Lists(got, wanted, limit) ==
    LET n == IF limit = None THEN Cardinality(wanted) ELSE Min({limit, Cardinality(wanted)})
    IN  /\ Len(got) = n
        /\ \A i \in 1..n : got[i] \in wanted /\
              Cardinality({e \in wanted : EventLess(e, got[i])}) = i - 1

ScanOf(R, size, hidden) == CHOOSE f : Scans(f, R, size, hidden)
AskedFor(stream, after) == {e \in events : stream # None => e.stream = stream /\ e.seq > after}
FirstOf(scan, limit) ==
    IF limit = None THEN scan[0] ELSE SubSeq(scan[0], 1, Min({limit, Len(scan[0])}))

(* list_events, through these names. *)
LEMMA ListEventsIs ==
    ASSUME NEW stream, NEW after, NEW hidden, NEW limit, limit # 0
    PROVE  ListEvents(stream, after, hidden, limit)
              = FirstOf(ScanOf(AskedFor(stream, after), PageLimit(limit, hidden), hidden), limit)
BY DEF ListEvents, FirstOf, ScanOf, AskedFor, Scans, PageAt, KeptAt

(* list_events answers the first `limit` of the events asked for. *)
LEMMA ListEventsFirst ==
    ASSUME Positioned(events), NEW stream, NEW after, NEW hidden, NEW limit \in Nat \cup {None},
           NEW wanted, wanted = {e \in events \ hidden : stream # None => e.stream = stream /\ e.seq > after},
           NEW got, got = ListEvents(stream, after, hidden, limit)
    PROVE  Lists(got, wanted, limit)
<1>1. PICK R : R = {e \in events : stream # None => e.stream = stream /\ e.seq > after}
  OBVIOUS
<1>2. Positioned(R) /\ R \ hidden = wanted
  <2>1. R \in SUBSET events
    BY <1>1
  <2> QED
    BY <1>1, <2>1, PositionedPart
<1>3. PICK E : E = InOrder(R)
  OBVIOUS
<1>4. Enumerates(E, R)
  BY <1>2, <1>3, InOrderEnumerates
<1>5. PICK size : size = PageLimit(limit, hidden)
  OBVIOUS
<1>6. CASE limit = 0
  <2>1. limit # None /\ got = <<>>
    BY <1>6, RecordConstants DEF ListEvents
  <2>2. Positioned(wanted)
    BY <1>2, PositionedPart
  <2>3. Cardinality(wanted) \in Nat
    BY <2>2, FS_CardinalityType DEF Positioned
  <2>4. Min({0, Cardinality(wanted)}) = 0
    BY <2>3, MinOfTwo
  <2> QED
    <3>1. Len(got) = 0 /\ 1..0 = {}
      BY <2>1
    <3> QED
      BY <1>6, <2>1, <2>4, <3>1 DEF Lists
<1>7. CASE limit # 0
  <2>1. size \in Nat \ {0}
    <3>1. PageSize \in Nat \ {0}
      BY RecordConstants
    <3>2. limit # None => Min({limit, PageSize}) = IF limit < PageSize THEN limit ELSE PageSize
      BY <3>1, MinOfTwo
    <3> QED
      BY <1>5, <1>7, <3>1, <3>2 DEF PageLimit
  <2>2. PICK scan : scan = ScanOf(R, size, hidden)
    OBVIOUS
  <2>3. Scans(scan, R, size, hidden)
    BY <1>2, <1>4, <2>1, <2>2, ScanExists DEF ScanOf
  <2>4. got = IF limit = None THEN scan[0]
              ELSE SubSeq(scan[0], 1, Min({limit, Len(scan[0])}))
    <3>1. R = AskedFor(stream, after)
      BY <1>1 DEF AskedFor
    <3>2. got = FirstOf(scan, limit)
      BY <1>3, <1>5, <1>7, <2>2, <3>1, ListEventsIs
    <3> QED
      BY <3>2 DEF FirstOf
  <2>5. Len(E) \in Nat /\ DOMAIN E = 1..Len(E) /\ 0 \in 0..Len(E)
    BY <1>4 DEF Enumerates
  <2>6. PICK s : s = scan[0]
    OBVIOUS
  <2>7. Enumerates(s, wanted)
    <3>1. Enumerates(s, Later(E, 0) \ hidden)
      BY <1>2, <1>4, <2>1, <2>3, <2>5, <2>6, ScanIsRest
    <3>2. Later(E, 0) = R
      <4>1. Later(E, 0) = {E[i] : i \in 1..Len(E)}
        BY DEF Later
      <4>2. \A i \in 1..Len(E) : E[i] \in R
        BY <1>4, <2>5 DEF Enumerates
      <4>3. \A e \in R : \E i \in 1..Len(E) : E[i] = e
        BY <1>4, <2>5 DEF Enumerates
      <4> QED
        BY <4>1, <4>2, <4>3
    <3> QED
      BY <1>2, <3>1, <3>2
  <2>8. Positioned(wanted)
    BY <1>2, PositionedPart
  <2>9. /\ Len(s) = Cardinality(wanted) /\ Len(s) \in Nat
        /\ \A i \in 1..Len(s) : s[i] \in wanted /\ Cardinality(Below(wanted, s[i])) = i - 1
    BY <2>7, <2>8, EnumeratedRank
  <2>10. CASE limit = None
    <3>1. got = s
      BY <2>4, <2>6, <2>10
    <3> QED
      BY <2>9, <2>10, <3>1 DEF Lists, Below
  <2>11. CASE limit # None
    <3>1. PICK n : n = IF limit < Len(s) THEN limit ELSE Len(s)
      OBVIOUS
    <3>2. n \in 0..Len(s) /\ Min({limit, Len(s)}) = n
      <4>1. limit \in Nat /\ Len(s) \in Nat
        BY <2>9, <2>11
      <4>2. Min({limit, Len(s)}) = IF limit < Len(s) THEN limit ELSE Len(s)
        BY <4>1, MinOfTwo
      <4> QED
        BY <3>1, <4>1, <4>2
    <3>3. got = SubSeq(s, 1, n) /\ s \in Seq(wanted)
      BY <2>4, <2>6, <2>7, <2>11, <3>2 DEF Enumerates
    <3>4. Len(got) = n /\ \A i \in 1..n : got[i] = s[i]
      BY <2>9, <3>2, <3>3
    <3>5. \A i \in 1..n : i \in 1..Len(s)
      BY <2>9, <3>2
    <3>6. n = Min({limit, Cardinality(wanted)})
      BY <2>9, <3>2
    <3>7. Len(got) = n /\ \A i \in 1..n : got[i] \in wanted /\ Cardinality(Below(wanted, got[i])) = i - 1
      BY <2>9, <3>4, <3>5
    <3> QED
      BY <2>11, <3>6, <3>7 DEF Lists, Below
  <2> QED
    BY <2>10, <2>11
<1> QED
  BY <1>6, <1>7

-----------------------------------------------------------------------------
(* Links in both directions *)

(* An id names one link, and the keyspaces links_from and links_to hold     *)
(* the keys of the links, unless a call was cut short.                      *)
LinksKept ==
    /\ \A l, o \in byId : l.id = o.id => l = o
    /\ ~torn => from = {FromKey(l) : l \in byId} /\ to = {ToKey(l) : l \in byId}

(* A link under an id that is free is inserted. *)
LEMMA InsertKeepsLinks ==
    ASSUME LinksKept, NEW l, NEW n \in 1..3, \A o \in byId : o.id # l.id, InsertLink(l, n)
    PROVE  LinksKept'
<1>1. /\ byId' = byId \cup {l} /\ torn' = (torn \/ n < 3)
      /\ from' = IF n > 1 THEN from \cup {FromKey(l)} ELSE from
      /\ to' = IF n > 2 THEN to \cup {ToKey(l)} ELSE to
  BY DEF InsertLink, Named
<1>2. \A k, o \in byId' : k.id = o.id => k = o
  BY <1>1 DEF LinksKept
<1>3. ASSUME ~torn'
      PROVE  from' = {FromKey(o) : o \in byId'} /\ to' = {ToKey(o) : o \in byId'}
  <2>0. ~torn /\ ~(n < 3)
    BY <1>1, <1>3, Zenon
  <2>1. ~torn /\ n = 3
    BY <2>0
  <2>2. from' = from \cup {FromKey(l)} /\ to' = to \cup {ToKey(l)}
    BY <1>1, <2>1
  <2>3. from = {FromKey(o) : o \in byId} /\ to = {ToKey(o) : o \in byId}
    BY <2>1 DEF LinksKept
  <2> QED
    BY <1>1, <2>2, <2>3
<1> QED
  BY <1>2, <1>3 DEF LinksKept, FromKey, ToKey

(* A link is removed. *)
LEMMA RemoveKeepsLinks ==
    ASSUME LinksKept, NEW l \in byId, NEW n \in 1..3, RemoveLink(l, n)
    PROVE  LinksKept'
<1>1. /\ byId' = byId \ {l} /\ torn' = (torn \/ n < 3)
      /\ from' = IF n > 1 THEN from \ {FromKey(l)} ELSE from
      /\ to' = IF n > 2 THEN to \ {ToKey(l)} ELSE to
  BY DEF RemoveLink
<1>2. \A k, o \in byId' : k.id = o.id => k = o
  BY <1>1 DEF LinksKept
<1>3. ASSUME ~torn'
      PROVE  from' = {FromKey(o) : o \in byId'} /\ to' = {ToKey(o) : o \in byId'}
  <2>0. ~torn /\ ~(n < 3)
    BY <1>1, <1>3, Zenon
  <2>1. ~torn /\ n = 3
    BY <2>0
  <2>2. from' = from \ {FromKey(l)} /\ to' = to \ {ToKey(l)}
    BY <1>1, <2>1
  <2>3. from = {FromKey(o) : o \in byId} /\ to = {ToKey(o) : o \in byId}
    BY <2>1 DEF LinksKept
  <2>4. \A o \in byId : o # l => FromKey(o) # FromKey(l) /\ ToKey(o) # ToKey(l)
    BY DEF LinksKept, FromKey, ToKey
  <2> QED
    BY <1>1, <2>2, <2>3, <2>4
<1> QED
  BY <1>2, <1>3 DEF LinksKept, FromKey, ToKey

(* Every step keeps the links in both directions. *)
LEMMA StepKeepsLinks ==
    ASSUME Exposed = {}, RecInv, LinksKept, [Next]_vars
    PROVE  LinksKept'
<1>1. CASE UNCHANGED <<byId, from, to, torn>>
  BY <1>1 DEF LinksKept, FromKey, ToKey
<1>2. CASE LinkNext
  <2>1. ASSUME NEW n \in 1..3, NEW a \in Refs, NEW b \in Refs, CreateLink(a, b, n)
        PROVE  LinksKept'
    <3>1. PICK l : l = Link(nextLink, a, b)
      OBVIOUS
    <3>2. up /\ InsertLink(l, n) /\ l.id = nextLink
      BY <2>1, <3>1 DEF CreateLink, LinkCall, Call, Link
    <3>3. \A o \in byId : o.id < nextLink /\ o.id \in Nat /\ nextLink \in Nat
      BY <3>2, RecordConstants DEF RecInv, LinkInv, LinkType
    <3>4. \A o \in byId : o.id # l.id
      BY <3>2, <3>3
    <3> QED
      BY <3>2, <3>4, InsertKeepsLinks
  <2>2. ASSUME NEW n \in 1..3, NEW l, ImportLink(l, n)
        PROVE  LinksKept'
    <3>1. InsertLink(l, n) /\ \A o \in byId : o.id # l.id
      BY <2>2 DEF ImportLink, Named
    <3> QED
      BY <3>1, InsertKeepsLinks
  <2>3. ASSUME NEW n \in 1..3, NEW l \in byId, DeleteLink(l, n)
        PROVE  LinksKept'
    BY <2>3, RemoveKeepsLinks DEF DeleteLink
  <2> QED
    BY <1>2, <2>1, <2>2, <2>3 DEF LinkNext
<1>3. CASE ObjectNext
  <2>1. ObjectStep
    BY <1>3, ObjectNextStep DEF RecInv
  <2> QED
    BY <1>1, <2>1 DEF ObjectStep, lvars
<1>4. CASE EventNext
  <2>1. EventStep
    BY <1>4, EventNextStep DEF RecInv
  <2> QED
    BY <1>1, <2>1 DEF EventStep, lvars
<1>5. CASE Crash \/ Reopen \/ (\E S \in SUBSET Streams : ReopenDies(S)) \/ UNCHANGED vars
  <2>1. UNCHANGED <<byId, from, to, torn>>
    BY <1>5 DEF Crash, Reopen, ReopenDies, vars, lvars
  <2> QED
    BY <1>1, <2>1
<1> QED
  BY <1>2, <1>3, <1>4, <1>5 DEF Next

(* list_events answers exactly the events asked for, in order, the first    *)
(* `limit` of them, for any stream, position, hidden events, limit and page *)
(* size: no page boundary skips, repeats or reorders an event.              *)
THEOREM EventsListedInOrder ==
    ASSUME Exposed = {}
    PROVE  Spec => [](\A stream \in Streams \cup {None}, after \in Nat,
                         limit \in Nat \cup {None}, hidden \in SUBSET events :
                            Lists(ListEvents(stream, after, hidden, limit),
                                  AskedFor(stream, after) \ hidden, limit))
<1>1. ASSUME RecInv, NEW stream \in Streams \cup {None}, NEW after \in Nat,
             NEW limit \in Nat \cup {None}, NEW hidden \in SUBSET events
      PROVE  Lists(ListEvents(stream, after, hidden, limit), AskedFor(stream, after) \ hidden, limit)
  <2>1. Positioned(events)
    BY <1>1 DEF RecInv, EventInv, Positioned
  <2>2. AskedFor(stream, after) \ hidden
          = {e \in events \ hidden : stream # None => e.stream = stream /\ e.seq > after}
    BY DEF AskedFor
  <2> QED
    BY <2>1, <2>2, ListEventsFirst
<1>2. RecInv => (\A stream \in Streams \cup {None}, after \in Nat,
                         limit \in Nat \cup {None}, hidden \in SUBSET events :
                            Lists(ListEvents(stream, after, hidden, limit),
                                  AskedFor(stream, after) \ hidden, limit))
  BY <1>1
<1> QED
  BY <1>2, RecordInvariant, PTL

(* list_events and get_neighbors answer exactly what is stored, in the      *)
(* cases the runs ask for.                                                  *)
THEOREM ListingsAreExact ==
    ASSUME Exposed = {}
    PROVE  Spec => []ListingsExact
<1>1. Init => LinksKept
  BY DEF Init, LinksKept
<1>2. RecInv /\ LinksKept /\ [Next]_vars => LinksKept'
  BY StepKeepsLinks
<1>3. ASSUME RecInv, LinksKept PROVE ListingsExact
  <2>1. ASSUME NEW stream \in {1, None}, NEW limit \in {2, 3, None},
               NEW hidden \in {{}, {e \in events : e.idem = 0}}
        PROVE  Lists(ListEvents(stream, 1, hidden, limit),
                     {e \in events \ hidden : stream # None => e.stream = stream /\ e.seq > 1}, limit)
    <3>1. Positioned(events)
      BY <1>3 DEF RecInv, EventInv, Positioned
    <3>2. limit \in Nat \cup {None}
      OBVIOUS
    <3> QED
      BY <3>1, <3>2, ListEventsFirst
  <2>2. ASSUME ~torn, NEW ref \in Refs
        PROVE  Neighbors(ref) = [out |-> {l \in byId : l.from = ref}, in |-> {l \in byId : l.to = ref}]
    <3>1. from = {FromKey(l) : l \in byId} /\ to = {ToKey(l) : l \in byId}
      BY <1>3, <2>2 DEF LinksKept
    <3>2. \A l \in byId : <<ref, l.id>> \in from <=> l.from = ref
      BY <1>3, <3>1 DEF LinksKept, FromKey
    <3>3. \A l \in byId : <<ref, l.id>> \in to <=> l.to = ref
      BY <1>3, <3>1 DEF LinksKept, ToKey
    <3> QED
      BY <3>2, <3>3 DEF Neighbors
  <2> QED
    BY <2>1, <2>2 DEF ListingsExact, Lists
<1> QED
  BY <1>1, <1>2, <1>3, RecordInvariant, PTL DEF Spec
=============================================================================
