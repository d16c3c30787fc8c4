----------------------------- MODULE RecordStore -----------------------------
(***************************************************************************)
(* What ObjectStore, EventLog and LinkStore promise                        *)
(* (crates/thingd/src/store.rs): versioned objects, a unique field whose   *)
(* values two objects never share, streams whose events are appended once  *)
(* per idempotency key and never overwritten, and links with ids of their  *)
(* own.  Every operation is atomic.                                        *)
(***************************************************************************)
EXTENDS Naturals, FiniteSets

CONSTANTS
    None,
    Keys,      \* object keys: <<collection, id>>
    Fields     \* values of the indexed field

Indexed == 1   \* the collection an index may be defined on

VARIABLES
    objects,   \* key -> None or [f : the field, version]
    unique,    \* is there a unique index
    events,    \* [stream, seq, idem], idem 0 for no idempotency key
    reply,     \* answers of the append just made: [stream, idem, got]
    links      \* [id, from, to]

rvars == <<objects, unique, events, reply, links>>

(* The values of the unique field are not shared. *)
Distinct(objs) ==
    \A k, l \in {key \in Keys : key[1] = Indexed /\ objs[key] # None} :
        k # l /\ objs[k].f \in Fields => objs[k].f # objs[l].f

(* One or more puts.  A local put counts the version up; a put that carries *)
(* the metadata of a replication source sets it.                            *)
RPut ==
    /\ reply' = {} /\ UNCHANGED <<unique, events, links>>
    /\ \A k \in Keys : objects[k] # None => objects'[k] # None
    /\ \A k \in Keys :
          objects'[k] # objects[k] /\ objects[k] # None =>
              objects'[k].version > objects[k].version
    /\ unique => Distinct(objects')

RPutWithMetadata(k) ==
    /\ reply' = {} /\ UNCHANGED <<unique, events, links>>
    /\ objects'[k] # None
    /\ \A l \in Keys \ {k} : objects'[l] = objects[l]
    /\ unique => Distinct(objects')

RDelete(S) ==
    /\ reply' = {} /\ UNCHANGED <<unique, events, links>>
    /\ objects' = [k \in Keys |-> IF k \in S THEN None ELSE objects[k]]

RIndex ==
    /\ reply' = {} /\ UNCHANGED <<objects, events, links>>
    /\ unique' \in BOOLEAN
    /\ unique' => Distinct(objects)

(* New events come after the live ones of their stream, an idempotency key  *)
(* names one live event, and a call is answered with an event of the stream *)
(* and the key it asked for.                                                *)
RAppend ==
    LET new == events' \ events
    IN  /\ UNCHANGED <<objects, unique, links>>
        /\ events \subseteq events'
        /\ \A e \in new : \A o \in events : o.stream = e.stream => o.seq < e.seq
        /\ \A e, o \in events' :
              e # o /\ e.stream = o.stream => e.seq # o.seq /\ (e.idem = 0 \/ e.idem # o.idem)
        /\ new \subseteq {r.got : r \in reply'}
        /\ \A r \in reply' :
              /\ r.got \in events'
              /\ <<r.got.stream, r.got.idem>> = <<r.stream, r.idem>>

RRemoveEvents ==
    /\ reply' = {} /\ UNCHANGED <<objects, unique, links>>
    /\ events' \subseteq events

RLink ==
    /\ reply' = {} /\ UNCHANGED <<objects, unique, events>>
    /\ \E new \in links' : links' = links \cup {new} /\ \A l \in links : l = new \/ l.id # new.id

RUnlink ==
    /\ reply' = {} /\ UNCHANGED <<objects, unique, events>>
    /\ \E l \in links : links' = links \ {l}

(* A refused call, a failure, a crash or a reopen. *)
ROther == reply' = {} /\ UNCHANGED <<objects, unique, events, links>>

RInit ==
    /\ objects = [k \in Keys |-> None]
    /\ unique = FALSE
    /\ \A e, o \in events : e # o /\ e.stream = o.stream => e.seq # o.seq
    /\ reply = {} /\ links = {}

RNext ==
    \/ RPut
    \/ \E k \in Keys : RPutWithMetadata(k)
    \/ \E S \in SUBSET Keys : RDelete(S)
    \/ RIndex
    \/ RAppend
    \/ RRemoveEvents
    \/ RLink \/ RUnlink \/ ROther

RSpec == RInit /\ [][RNext]_rvars
=============================================================================
