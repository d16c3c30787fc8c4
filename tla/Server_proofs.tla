---------------------------- MODULE Server_proofs ----------------------------
(***************************************************************************)
(* Proofs about module Server, for any clients, databases, permits and     *)
(* bounds: every handler respects the role of the server, and permits are  *)
(* conserved by blocking tasks, also by those that outlive their request.  *)
(***************************************************************************)
EXTENDS Server, FiniteSetTheorems, SequenceTheorems, TLAPS

-----------------------------------------------------------------------------
(* Routes *)

Gates == {"open", "source", "tool", "target"}

Kinds == {"inline", "permit", "worker", "stream", "import", "fetch", "tool", "clear"}

Sections == {"objects", "events", "links", "jobs", "indexes", "schema", "log", "replica", "audit"}

(* A handler that changes anything has a gate. *)
Gated(r) ==
    /\ r \in [gate : Gates, runs : Kinds, reads : SUBSET Sections, writes : SUBSET Sections,
              after : SUBSET Sections]
    /\ r.gate = "open" => r.writes = {} /\ r.after = {}

(* Every REST handler. *)
LEMMA RestGated == \A r \in RestRoutes : Gated(r)
<1>1. /\ Gated(ready) /\ Gated(diagnostics) /\ Gated(metrics)
      /\ Gated(count_objects) /\ Gated(count_objects_in_collection)
      /\ Gated(count_events) /\ Gated(count_links) /\ Gated(list_collections)
  BY DEF Gated, Gates, Kinds, Sections, Route, Read, Write, Blocking, Tool, ready,
     diagnostics, metrics, count_objects, count_objects_in_collection, count_events,
     count_links, list_collections
<1>2. /\ Gated(list_streams) /\ Gated(list_queues) /\ Gated(retention)
      /\ Gated(clear_default_db) /\ Gated(list_indexes) /\ Gated(create_index)
      /\ Gated(delete_index) /\ Gated(list_objects)
  BY DEF Gated, Gates, Kinds, Sections, Route, Read, Write, Blocking, Tool,
     list_streams, list_queues, retention, clear_default_db, list_indexes,
     create_index, delete_index, list_objects
<1>3. /\ Gated(put_object) /\ Gated(get_object) /\ Gated(delete_object)
      /\ Gated(put_batch) /\ Gated(get_batch) /\ Gated(delete_batch)
      /\ Gated(append_event) /\ Gated(list_events)
  BY DEF Gated, Gates, Kinds, Sections, Route, Read, Write, Blocking, Tool, put_object,
     get_object, delete_object, put_batch, get_batch, delete_batch, append_event,
     list_events
<1>4. /\ Gated(replication_events) /\ Gated(replication_apply)
      /\ Gated(replication_status) /\ Gated(replication_conflicts)
      /\ Gated(replication_snapshot) /\ Gated(replication_snapshot_apply)
      /\ Gated(physical_snapshot) /\ Gated(snapshot_export)
  BY DEF Gated, Gates, Kinds, Sections, Route, Read, Write, Blocking, Tool,
     replication_events, replication_apply, replication_status, replication_conflicts,
     replication_snapshot, replication_snapshot_apply, physical_snapshot,
     snapshot_export
<1>5. /\ Gated(snapshot_import) /\ Gated(push_job) /\ Gated(claim_job)
      /\ Gated(claim_jobs_batch) /\ Gated(ack_job) /\ Gated(ack_jobs_batch)
      /\ Gated(nack_job) /\ Gated(list_jobs)
  BY DEF Gated, Gates, Kinds, Sections, Route, Read, Write, Blocking, Tool,
     snapshot_import, push_job, claim_job, claim_jobs_batch, ack_job, ack_jobs_batch,
     nack_job, list_jobs
<1>6. /\ Gated(list_dead_jobs) /\ Gated(create_link) /\ Gated(get_links)
      /\ Gated(get_link_by_id) /\ Gated(delete_link) /\ Gated(pull_data)
      /\ Gated(search) /\ Gated(vector_search)
  BY DEF Gated, Gates, Kinds, Sections, Route, Read, Write, Blocking, Tool,
     list_dead_jobs, create_link, get_links, get_link_by_id, delete_link, pull_data,
     search, vector_search
<1>7. /\ Gated(aggregate) /\ Gated(timeseries) /\ Gated(list_schemas)
      /\ Gated(get_schema) /\ Gated(current_schema) /\ Gated(put_schema_document)
      /\ Gated(list_migrations) /\ Gated(record_migration)
  BY DEF Gated, Gates, Kinds, Sections, Route, Read, Write, Blocking, Tool, aggregate,
     timeseries, list_schemas, get_schema, current_schema, put_schema_document,
     list_migrations, record_migration
<1> QED
  BY <1>1, <1>2, <1>3, <1>4, <1>5, <1>6, <1>7 DEF RestRoutes

(* Every MCP tool. *)
LEMMA ToolsGated == \A r \in ToolRoutes : Gated(r)
<1>1. /\ Gated(handle_thing_search) /\ Gated(handle_thing_get)
      /\ Gated(handle_thing_put) /\ Gated(handle_thing_delete)
      /\ Gated(handle_thing_objects_list) /\ Gated(handle_thing_objects_put_batch)
      /\ Gated(handle_thing_objects_delete_batch)
      /\ Gated(handle_thing_objects_get_batch)
  BY DEF Gated, Gates, Kinds, Sections, Route, Read, Write, Blocking, Tool,
     handle_thing_search, handle_thing_get, handle_thing_put, handle_thing_delete,
     handle_thing_objects_list, handle_thing_objects_put_batch,
     handle_thing_objects_delete_batch, handle_thing_objects_get_batch
<1>2. /\ Gated(handle_thing_events_append) /\ Gated(handle_thing_events_list)
      /\ Gated(handle_thing_queue_push) /\ Gated(handle_thing_queue_claim)
      /\ Gated(handle_thing_queue_claim_batch) /\ Gated(handle_thing_queue_ack)
      /\ Gated(handle_thing_queue_ack_batch) /\ Gated(handle_thing_queue_nack)
  BY DEF Gated, Gates, Kinds, Sections, Route, Read, Write, Blocking, Tool,
     handle_thing_events_append, handle_thing_events_list, handle_thing_queue_push,
     handle_thing_queue_claim, handle_thing_queue_claim_batch, handle_thing_queue_ack,
     handle_thing_queue_ack_batch, handle_thing_queue_nack
<1>3. /\ Gated(handle_thing_queue_list) /\ Gated(handle_thing_queue_dead)
      /\ Gated(handle_thing_count_objects)
      /\ Gated(handle_thing_count_objects_in_collection)
      /\ Gated(handle_thing_count_events) /\ Gated(handle_thing_count_active_jobs)
      /\ Gated(handle_thing_count_dead_jobs) /\ Gated(handle_thing_list_collections)
  BY DEF Gated, Gates, Kinds, Sections, Route, Read, Write, Blocking, Tool,
     handle_thing_queue_list, handle_thing_queue_dead, handle_thing_count_objects,
     handle_thing_count_objects_in_collection, handle_thing_count_events,
     handle_thing_count_active_jobs, handle_thing_count_dead_jobs,
     handle_thing_list_collections
<1>4. /\ Gated(handle_thing_list_streams) /\ Gated(handle_thing_list_queues)
      /\ Gated(handle_thing_create_index) /\ Gated(handle_thing_delete_index)
      /\ Gated(handle_thing_list_indexes) /\ Gated(handle_thing_link_create)
      /\ Gated(handle_thing_link_get) /\ Gated(handle_thing_link_delete)
  BY DEF Gated, Gates, Kinds, Sections, Route, Read, Write, Blocking, Tool,
     handle_thing_list_streams, handle_thing_list_queues, handle_thing_create_index,
     handle_thing_delete_index, handle_thing_list_indexes, handle_thing_link_create,
     handle_thing_link_get, handle_thing_link_delete
<1>5. /\ Gated(handle_thing_link_neighbors) /\ Gated(handle_thing_link_count)
      /\ Gated(handle_thing_schema) /\ Gated(handle_thing_migrations)
      /\ Gated(handle_thing_aggregate) /\ Gated(handle_thing_timeseries)
      /\ Gated(handle_thing_vector_search)
  BY DEF Gated, Gates, Kinds, Sections, Route, Read, Write, Blocking, Tool,
     handle_thing_link_neighbors, handle_thing_link_count, handle_thing_schema,
     handle_thing_migrations, handle_thing_aggregate, handle_thing_timeseries,
     handle_thing_vector_search
<1> QED
  BY <1>1, <1>2, <1>3, <1>4, <1>5 DEF ToolRoutes, ObjectTools, EventTools, QueueTools,
     CountTools, DiscoveryTools, LinkTools, SchemaTools, QueryTools

-----------------------------------------------------------------------------
(* Types that carry the gates *)

(* A route as requests and tasks hold it. *)
Carried ==
    {r \in [gate : Gates, runs : Kinds, reads : SUBSET Parts, writes : SUBSET Parts,
            after : SUBSET Sections] :
        r.gate = "open" => r.writes = {} /\ r.after = {}}

(* Every route of the table is one a request can carry.                     *)
LEMMA RouteSetCarried == RouteSet \subseteq Carried
<1>1. ASSUME NEW r, Gated(r) PROVE Followed(r) \in Carried
  BY <1>1 DEF Gated, Followed, Carried
<1> QED
  BY <1>1, RestGated, ToolsGated DEF RouteSet

(* The effects that the role and the mode of the server allow. *)
Lawful ==
    {x \in Nat \X Parts \X Gates :
        (role = "replica" <=> x[3] = "target") /\ (readOnly => x[3] # "tool")}

(* The gates have let the route pass. *)
Permitted(route) == ~TurnedAway(route) /\ ~NotATarget(route)

EngineType ==
    [path : Paths, state : {"idle", "busy"}, open : BOOLEAN, content : SUBSET Lawful]

Places ==
    {"idle", "lookup", "slow", "check", "fetch", "clear", "handle", "after", "admit", "spawn",
     "await"}

RequestType ==
    [pc : Places, then : Places, route : Carried, path : Paths, engine : 0..Len(engines),
     id : Nat, void : BOOLEAN, must : SUBSET Lawful, left : Nat]

TaskType ==
    [client : Clients, id : Nat, path : Paths, route : Carried, engine : 0..Len(engines),
     void : BOOLEAN, must : SUBSET Lawful, stage : {"run", "drop"}, ok : BOOLEAN]

(* A request holds an engine where its handler uses one, and is past its    *)
(* gates wherever it can write.                                             *)
RequestOK(r) ==
    /\ r.pc \in {"check", "handle", "after", "spawn"} => r.engine # 0
    /\ r.pc \in {"admit", "await"} => r.engine # 0 \/ r.route.runs = "tool"
    /\ r.pc \in {"lookup", "slow", "fetch"} => r.then \in {"check", "handle", "after", "admit", "spawn"}
    /\ ~TurnedAway(r.route)
    /\ \/ r.pc \in {"idle", "check"}
       \/ r.pc \in {"lookup", "slow"} /\ r.then = "check"
       \/ ~NotATarget(r.route)

TaskOK(t) ==
    /\ Permitted(t.route)
    /\ t.engine = 0 => t.route.runs = "tool"
    /\ t.ok => t.engine # 0

TypeInv ==
    /\ role \in {"source", "replica"} /\ readOnly \in BOOLEAN
    /\ engines \in Seq(EngineType)
    /\ pool \in [Paths -> 0..Len(engines)] /\ dir \in [Paths -> 0..Len(engines)]
    /\ locked \subseteq Paths
    /\ acked \in [Paths -> SUBSET Lawful]
    /\ requests \in Nat /\ clears \in Nat
    /\ req \in [Clients -> RequestType] /\ \A c \in Clients : RequestOK(req[c])
    /\ tasks \subseteq TaskType /\ \A t \in tasks : TaskOK(t)

(* Base case: the server starts with its gates in order.                    *)
LEMMA TypeInitially == Init => TypeInv
<1> SUFFICES ASSUME Init PROVE TypeInv
  OBVIOUS
<1> USE ServerAssumption
<1>1. engines \in Seq(EngineType) /\ Len(engines) = 1 /\ engines[1] \in EngineType
  <2>1. PICK s \in {"idle", "busy"} :
          engines = <<[path |-> Default, state |-> s, open |-> TRUE,
                       content |-> {<<0, p, IF role = "replica" THEN "target" ELSE "source">> :
                                        p \in Parts}]>>
    BY DEF Init
  <2>2. {<<0, p, IF role = "replica" THEN "target" ELSE "source">> : p \in Parts} \subseteq Lawful
    BY DEF Init, Lawful, Gates
  <2>3. engines[1] \in EngineType
    BY <2>1, <2>2 DEF EngineType
  <2> QED
    BY <2>1, <2>3
<1>2. Idle \in RequestType /\ RequestOK(Idle)
  <2>1. NoRoute \in Carried /\ NoRoute.gate = "open"
    BY DEF NoRoute, Read, Route, Carried, Gates, Kinds
  <2> QED
    BY <1>1, <2>1 DEF Idle, RequestType, Places, RequestOK, TurnedAway
<1>3. acked \in [Paths -> SUBSET Lawful]
  BY <1>1 DEF Init, EngineType
<1>4. pool \in [Paths -> 0..Len(engines)]
  BY <1>1 DEF Init
<1> QED
  BY <1>1, <1>2, <1>3, <1>4 DEF Init, TypeInv

(* Configuration is fixed and engines are only added: what was typed stays  *)
(* typed.                                                                   *)
Framed ==
    /\ UNCHANGED <<role, readOnly>>
    /\ Len(engines') \in Nat /\ Len(engines') >= Len(engines)

(* A step within Framed keeps the requests and tasks that were well formed. *)
LEMMA FrameKeepsTypes ==
    ASSUME TypeInv, Framed
    PROVE  /\ Lawful' = Lawful /\ EngineType' = EngineType
           /\ RequestType \subseteq RequestType' /\ TaskType \subseteq TaskType'
           /\ \A r : (RequestOK(r)' <=> RequestOK(r)) /\ (TaskOK(r)' <=> TaskOK(r))
<1>1. Lawful' = Lawful /\ EngineType' = EngineType
  BY DEF Framed, Lawful, EngineType
<1>2. 0..Len(engines) \subseteq 0..Len(engines')
  BY DEF Framed, TypeInv
<1>3. RequestType \subseteq RequestType' /\ TaskType \subseteq TaskType'
  BY <1>1, <1>2 DEF RequestType, TaskType
<1>4. \A r : (RequestOK(r)' <=> RequestOK(r)) /\ (TaskOK(r)' <=> TaskOK(r))
  BY DEF Framed, RequestOK, TaskOK, Permitted, TurnedAway, NotATarget
<1> QED
  BY <1>1, <1>3, <1>4

(* The request of a client that has sent nothing is well formed.            *)
LEMMA IdleTyped == ASSUME TypeInv PROVE Idle \in RequestType /\ RequestOK(Idle)
<1>1. NoRoute \in Carried /\ NoRoute.gate = "open"
  BY DEF NoRoute, Read, Route, Carried, Gates, Kinds
<1>2. 0 \in 0..Len(engines)
  BY DEF TypeInv
<1> QED
  BY <1>1, <1>2, ServerAssumption DEF Idle, RequestType, Places, RequestOK, TurnedAway

(* One request moves. *)
LEMMA RequestMoves ==
    ASSUME TypeInv, Framed, NEW c \in Clients, NEW r \in RequestType', RequestOK(r),
           req' = [req EXCEPT ![c] = r]
    PROVE  req' \in [Clients -> RequestType'] /\ \A d \in Clients : RequestOK(req[d])'
<1>1. req' \in [Clients -> RequestType']
  BY FrameKeepsTypes DEF TypeInv
<1>2. \A d \in Clients : RequestOK(req'[d])
  BY DEF TypeInv
<1>3. \A d \in Clients : RequestOK(req[d])'
  BY <1>2 DEF Framed, RequestOK, TurnedAway, NotATarget
<1> QED
  BY <1>1, <1>3

(* One request is answered. *)
LEMMA AnswerTyped ==
    ASSUME TypeInv, Framed, NEW c \in Clients, Answer(c)
    PROVE  req' \in [Clients -> RequestType'] /\ \A d \in Clients : RequestOK(req[d])'
BY IdleTyped, FrameKeepsTypes, RequestMoves DEF Answer

(* Tasks leave, and one may arrive. *)
LEMMA TasksMove ==
    ASSUME TypeInv, Framed, NEW gone, NEW u \in TaskType', TaskOK(u),
           tasks' \subseteq (tasks \ gone) \cup {u}
    PROVE  tasks' \subseteq TaskType' /\ \A t \in tasks' : TaskOK(t)'
BY FrameKeepsTypes DEF TypeInv

(* Nothing but requests, tasks and counters changes. *)
LEMMA EnginesKept ==
    ASSUME TypeInv, UNCHANGED <<role, readOnly, engines>>
    PROVE  /\ Framed /\ engines' \in Seq(EngineType')
           /\ UNCHANGED <<Lawful, EngineType, RequestType, TaskType>>
<1>1. Framed
  BY DEF TypeInv, Framed
<1> QED
  BY <1>1 DEF TypeInv, Lawful, EngineType, RequestType, TaskType

(* One engine changes. *)
LEMMA EngineChanges ==
    ASSUME TypeInv, UNCHANGED <<role, readOnly>>, NEW e \in 1..Len(engines),
           NEW x \in EngineType, engines' = [engines EXCEPT ![e] = x]
    PROVE  /\ Framed /\ engines' \in Seq(EngineType') /\ Len(engines') = Len(engines)
           /\ engines'[e] = x
<1>1. engines' \in Seq(EngineType) /\ Len(engines') = Len(engines) /\ engines'[e] = x
  BY ExceptSeq DEF TypeInv
<1>2. Framed
  BY <1>1 DEF TypeInv, Framed
<1> QED
  BY <1>1, <1>2, FrameKeepsTypes

(* A write through the gates leaves lawful effects. *)
LEMMA WithTyped ==
    ASSUME TypeInv, UNCHANGED <<role, readOnly>>, NEW e \in 1..Len(engines), NEW id \in Nat,
           NEW route \in Carried, Permitted(route), NEW parts \in SUBSET Parts,
           route.gate = "open" => parts = {},
           engines' = With(e, id, parts, route.gate)
    PROVE  Framed /\ engines' \in Seq(EngineType') /\ Len(engines') = Len(engines)
<1> DEFINE x == [engines[e] EXCEPT !.content = @ \cup {<<id, p, route.gate>> : p \in parts}]
<1>1. {<<id, p, route.gate>> : p \in parts} \subseteq Lawful
  BY DEF TypeInv, Carried, Permitted, TurnedAway, NotATarget, Lawful, Gates
<1>2. engines[e] \in EngineType
  BY DEF TypeInv
<1>3. x \in EngineType
  BY <1>1, <1>2 DEF EngineType
<1>4. engines' = [engines EXCEPT ![e] = x]
  BY DEF With
<1> QED
  BY <1>3, <1>4, EngineChanges

(* An engine is opened. *)
LEMMA OpenedTyped ==
    ASSUME TypeInv, UNCHANGED <<role, readOnly>>, NEW p \in Paths, Opened(p)
    PROVE  /\ Framed /\ engines' \in Seq(EngineType') /\ Len(engines') = Len(engines) + 1
           /\ pool' \in [Paths -> 0..Len(engines')] /\ dir' \in [Paths -> 0..Len(engines')]
           /\ locked' \subseteq Paths
<1>1. PICK s \in {"idle", "busy"} :
        engines' = Append(engines,
            [path |-> p, state |-> s, open |-> TRUE,
             content |-> IF dir[p] = 0 THEN {} ELSE engines[dir[p]].content])
  BY DEF Opened
<1>2. (IF dir[p] = 0 THEN {} ELSE engines[dir[p]].content) \in SUBSET Lawful
  <2>1. CASE dir[p] # 0
    <3>1. dir[p] \in 1..Len(engines)
      BY <2>1 DEF TypeInv
    <3>2. engines[dir[p]] \in EngineType
      BY <3>1 DEF TypeInv
    <3> QED
      BY <2>1, <3>2 DEF EngineType
  <2> QED
    BY <2>1
<1>3. engines' \in Seq(EngineType) /\ Len(engines') = Len(engines) + 1
  BY <1>1, <1>2, AppendProperties DEF TypeInv, EngineType
<1>4. Framed
  BY <1>3 DEF TypeInv, Framed
<1>5. engines' \in Seq(EngineType')
  BY <1>3, <1>4, FrameKeepsTypes
<1>6. pool' \in [Paths -> 0..Len(engines')] /\ dir' \in [Paths -> 0..Len(engines')]
      /\ locked' \subseteq Paths
  BY <1>3 DEF Opened, TypeInv
<1> QED
  BY <1>3, <1>4, <1>5, <1>6

(* What a client is told is lawful. *)
LEMMA AckTyped ==
    ASSUME TypeInv, NEW engs \in Seq(EngineType), NEW e \in 1..Len(engs), NEW r,
           r.path \in Paths
    PROVE  Ack(r, engs, e) \in [Paths -> SUBSET Lawful]
<1>1. engs[e] \in EngineType
  OBVIOUS
<1> QED
  BY <1>1 DEF Ack, TypeInv, EngineType

(* A handler's arrival. *)
LEMMA ArriveTyped ==
    ASSUME TypeInv, NEW c \in Clients, Arrive(c)
    PROVE  TypeInv'
<1>1. PICK route \in RouteSet, p \in Paths :
        /\ ~TurnedAway(route)
        /\ LET gated == route.gate # "open" IN
           req' = [req EXCEPT ![c] =
               [pc |-> IF gated THEN "lookup" ELSE AfterGate(route),
                then |-> IF gated THEN "check" ELSE AfterLookup(route),
                route |-> [route EXCEPT !.reads = {}], path |-> p, engine |-> 0,
                id |-> requests + 1, void |-> FALSE,
                must |-> {x \in acked[p] : x[2] \in route.reads}, left |-> MaxRecords]]
  BY DEF Arrive
<1> DEFINE r == [pc |-> IF route.gate # "open" THEN "lookup" ELSE AfterGate(route),
                 then |-> IF route.gate # "open" THEN "check" ELSE AfterLookup(route),
                 route |-> [route EXCEPT !.reads = {}], path |-> p, engine |-> 0,
                 id |-> requests + 1, void |-> FALSE,
                 must |-> {x \in acked[p] : x[2] \in route.reads}, left |-> MaxRecords]
<1>2. UNCHANGED <<role, readOnly, engines>>
  BY DEF Arrive, store
<1>3. Framed
  BY <1>2, EnginesKept
<1>4. /\ [route EXCEPT !.reads = {}] \in Carried
      /\ [route EXCEPT !.reads = {}].gate = route.gate
      /\ [route EXCEPT !.reads = {}].runs = route.runs
  BY RouteSetCarried DEF Carried
<1>5. r \in RequestType
  <2>1. {x \in acked[p] : x[2] \in route.reads} \in SUBSET Lawful
    BY DEF TypeInv
  <2>2. r.pc \in Places /\ r.then \in Places
    BY DEF Places, AfterGate, AfterLookup
  <2>3. 0 \in 0..Len(engines) /\ requests + 1 \in Nat /\ MaxRecords \in Nat
    BY ServerAssumption DEF TypeInv
  <2> QED
    BY <1>4, <2>1, <2>2, <2>3 DEF RequestType
<1>6. RequestOK(r)
  <2>1. CASE route.gate # "open"
    BY <1>1, <1>4, <2>1 DEF RequestOK, TurnedAway
  <2>2. CASE route.gate = "open"
    BY <1>1, <1>4, <2>2 DEF RequestOK, TurnedAway, NotATarget, AfterGate, AfterLookup
  <2> QED
    BY <2>1, <2>2
<1>7. r \in RequestType'
  BY <1>3, <1>5, FrameKeepsTypes
<1>8. req' = [req EXCEPT ![c] = r]
  BY <1>1
<1>9. req' \in [Clients -> RequestType'] /\ \A d \in Clients : RequestOK(req[d])'
  BY <1>3, <1>6, <1>7, <1>8, RequestMoves
<1>10. requests' \in Nat /\ clears' \in Nat
  BY DEF Arrive, TypeInv
<1>11. tasks' \subseteq TaskType' /\ \A t \in tasks' : TaskOK(t)'
  BY <1>3, FrameKeepsTypes DEF Arrive, TypeInv, workers
<1> QED
  BY <1>2, <1>9, <1>10, <1>11, EnginesKept DEF Arrive, TypeInv, store

(* What stays of the invariant when requests, tasks and answers change and  *)
(* the engines do not.                                                      *)
LEMMA StoreKept ==
    ASSUME TypeInv, UNCHANGED <<role, readOnly, engines, pool, dir, requests, clears>>,
           locked' \subseteq Paths, acked' \in [Paths -> SUBSET Lawful],
           req' \in [Clients -> RequestType'], \A c \in Clients : RequestOK(req[c])',
           tasks' \subseteq TaskType', \A t \in tasks' : TaskOK(t)'
    PROVE  TypeInv'
BY EnginesKept DEF TypeInv

(* A step that leaves the blocking tasks alone keeps their types.           *)
LEMMA TasksKept ==
    ASSUME TypeInv, Framed, UNCHANGED tasks
    PROVE  tasks' \subseteq TaskType' /\ \A t \in tasks' : TaskOK(t)'
BY FrameKeepsTypes DEF TypeInv

(* A step that leaves the requests alone keeps their types.                 *)
LEMMA RequestsKept ==
    ASSUME TypeInv, Framed, UNCHANGED req
    PROVE  req' \in [Clients -> RequestType'] /\ \A c \in Clients : RequestOK(req[c])'
BY FrameKeepsTypes DEF TypeInv, Framed, RequestOK, TurnedAway, NotATarget

(* Steps of a request that only move it. *)
LEMMA MoveTyped ==
    ASSUME TypeInv, NEW c \in Clients,
           FastPath(c) \/ Miss(c) \/ OpenFails(c) \/ Fetched(c) \/ Overloaded(c) \/ TimeOut(c)
    PROVE  TypeInv'
<1>1. /\ UNCHANGED <<role, readOnly, engines, pool, dir, requests, clears>>
      /\ UNCHANGED <<locked, acked, tasks>>
  BY DEF FastPath, Miss, OpenFails, Fetched, Overloaded, TimeOut, store, workers, bookkeeping
<1>2. Framed
  BY <1>1, EnginesKept
<1>3. req[c] \in RequestType /\ RequestOK(req[c])
  BY DEF TypeInv
<1>4. req' \in [Clients -> RequestType'] /\ \A d \in Clients : RequestOK(req[d])'
  <2>1. CASE FastPath(c)
    <3> DEFINE r == [req[c] EXCEPT !.pc = req[c].then, !.engine = pool[req[c].path]]
    <3>1. pool[req[c].path] \in 0..Len(engines) /\ pool[req[c].path] # 0
      BY <1>3, <2>1 DEF FastPath, TypeInv, RequestType
    <3>2. r \in RequestType
      BY <1>3, <3>1 DEF RequestType
    <3>3. RequestOK(r)
      BY <1>3, <2>1, <3>1 DEF FastPath, RequestOK, RequestType
    <3>4. req' = [req EXCEPT ![c] = r]
      BY <1>3, <2>1 DEF FastPath, Holding, TypeInv, RequestType
    <3> QED
      BY <1>2, <3>2, <3>3, <3>4, FrameKeepsTypes, RequestMoves
  <2>2. CASE Miss(c)
    <3> DEFINE r == [req[c] EXCEPT !.pc = "slow"]
    <3>1. r \in RequestType
      BY <1>3 DEF RequestType, Places
    <3>2. RequestOK(r)
      BY <1>3, <2>2 DEF Miss, RequestOK, RequestType
    <3>3. req' = [req EXCEPT ![c] = r]
      BY <2>2 DEF Miss
    <3> QED
      BY <1>2, <3>1, <3>2, <3>3, FrameKeepsTypes, RequestMoves
  <2>3. CASE Fetched(c)
    <3> DEFINE r == [req[c] EXCEPT !.pc = "lookup"]
    <3>1. r \in RequestType
      BY <1>3 DEF RequestType, Places
    <3>2. RequestOK(r)
      BY <1>3, <2>3 DEF Fetched, RequestOK, RequestType
    <3>3. req' = [req EXCEPT ![c] = r]
      BY <2>3 DEF Fetched
    <3> QED
      BY <1>2, <3>1, <3>2, <3>3, FrameKeepsTypes, RequestMoves
  <2>4. CASE OpenFails(c) \/ Overloaded(c) \/ TimeOut(c)
    BY <1>2, <2>4, AnswerTyped DEF OpenFails, Overloaded, TimeOut
  <2> QED
    BY <2>1, <2>2, <2>3, <2>4
<1>5. tasks' \subseteq TaskType' /\ \A t \in tasks' : TaskOK(t)'
  BY <1>1, <1>2, TasksKept
<1> QED
  BY <1>1, <1>4, <1>5, StoreKept DEF TypeInv

(* What stays of the invariant when engines change. *)
LEMMA EnginesMove ==
    ASSUME TypeInv, Framed, engines' \in Seq(EngineType'), UNCHANGED <<requests, clears>>,
           pool' \in [Paths -> 0..Len(engines')], dir' \in [Paths -> 0..Len(engines')],
           locked' \subseteq Paths, acked' \in [Paths -> SUBSET Lawful],
           req' \in [Clients -> RequestType'], \A c \in Clients : RequestOK(req[c])',
           tasks' \subseteq TaskType', \A t \in tasks' : TaskOK(t)'
    PROVE  TypeInv'
BY FrameKeepsTypes DEF TypeInv, Framed

(* The write lock of the pool: first opens and clears. *)
LEMMA SlowPathTyped ==
    ASSUME TypeInv, NEW c \in Clients, SlowPath(c)
    PROVE  TypeInv'
<1>1. req[c] \in RequestType /\ RequestOK(req[c])
  BY DEF TypeInv
<1>2. /\ UNCHANGED <<role, readOnly, requests, clears, acked, tasks>>
      /\ req[c].path \in Paths /\ req[c].pc = "slow"
      /\ pool[req[c].path] \in 0..Len(engines) /\ Len(engines) \in Nat
  BY <1>1 DEF SlowPath, workers, bookkeeping, RequestType, TypeInv
<1>3. ASSUME NEW e \in 0..Len(engines'), e # 0, Holding(c, e), Framed
      PROVE  req' \in [Clients -> RequestType'] /\ \A d \in Clients : RequestOK(req[d])'
  <2> DEFINE r == [req[c] EXCEPT !.pc = req[c].then, !.engine = e]
  <2>1. req[c] \in RequestType'
    BY <1>1, <1>3, FrameKeepsTypes
  <2>2. r \in RequestType'
    BY <1>3, <2>1 DEF RequestType
  <2>3. RequestOK(r)
    BY <1>1, <1>2, <1>3 DEF RequestOK, RequestType
  <2>4. req' = [req EXCEPT ![c] = r]
    BY <1>1, <1>3 DEF Holding, TypeInv, RequestType
  <2> QED
    BY <1>3, <2>2, <2>3, <2>4, RequestMoves
<1>4. CASE pool[req[c].path] # 0
  <2>1. UNCHANGED <<engines, pool, dir, locked>> /\ Holding(c, pool[req[c].path])
    BY <1>4 DEF SlowPath, store
  <2>2. Framed
    BY <1>2, <2>1, EnginesKept
  <2>3. req' \in [Clients -> RequestType'] /\ \A d \in Clients : RequestOK(req[d])'
    BY <1>2, <1>3, <1>4, <2>1, <2>2
  <2>4. tasks' \subseteq TaskType' /\ \A t \in tasks' : TaskOK(t)'
    BY <1>2, <2>2, TasksKept
  <2> QED
    BY <1>2, <2>1, <2>3, <2>4, StoreKept DEF TypeInv
<1>5. CASE pool[req[c].path] = 0
  <2>1. Opened(req[c].path) /\ Holding(c, Len(engines) + 1)
    BY <1>5 DEF SlowPath
  <2>2. /\ Framed /\ engines' \in Seq(EngineType') /\ Len(engines') = Len(engines) + 1
        /\ pool' \in [Paths -> 0..Len(engines')] /\ dir' \in [Paths -> 0..Len(engines')]
        /\ locked' \subseteq Paths
    BY <1>2, <2>1, OpenedTyped
  <2>3. Len(engines) + 1 \in 0..Len(engines') /\ Len(engines) + 1 # 0
    BY <1>2, <2>2
  <2>4. req' \in [Clients -> RequestType'] /\ \A d \in Clients : RequestOK(req[d])'
    BY <1>3, <2>1, <2>2, <2>3
  <2>5. tasks' \subseteq TaskType' /\ \A t \in tasks' : TaskOK(t)'
    BY <1>2, <2>2, TasksKept
  <2>6. acked' \in [Paths -> SUBSET Lawful]
    BY <1>2 DEF TypeInv
  <2> QED
    BY <1>2, <2>2, <2>4, <2>5, <2>6, EnginesMove
<1> QED
  BY <1>4, <1>5

(* Clearing the default database keeps the gates in order.                  *)
LEMMA ClearTyped ==
    ASSUME TypeInv, NEW c \in Clients, Clear(c)
    PROVE  TypeInv'
<1>1. UNCHANGED <<role, readOnly, engines, requests, clears>>
  BY DEF Clear, bookkeeping
<1>2. Framed /\ engines' \in Seq(EngineType') /\ RequestType' = RequestType /\ TaskType' = TaskType
  BY <1>1, EnginesKept
<1>3. /\ pool' \in [Paths -> 0..Len(engines')] /\ dir' \in [Paths -> 0..Len(engines')]
      /\ locked' \subseteq Paths /\ acked' \in [Paths -> SUBSET Lawful]
  <2>1. /\ pool' = [pool EXCEPT ![Default] = 0]
        /\ UNCHANGED dir \/ dir' = [dir EXCEPT ![Default] = 0]
        /\ locked' \subseteq locked
        /\ UNCHANGED acked \/ acked' = [acked EXCEPT ![Default] = {}]
    BY DEF Clear
  <2>2. 0 \in 0..Len(engines)
    BY DEF TypeInv
  <2> QED
    BY <1>1, <2>1, <2>2 DEF TypeInv
<1>4. req' \in [Clients -> RequestType'] /\ \A d \in Clients : RequestOK(req[d])'
  <2>1. CASE Answer(c)
    BY <1>2, <2>1, AnswerTyped
  <2>2. CASE req' = [d \in Clients |-> IF d = c THEN Idle ELSE
                        [req[d] EXCEPT !.void = @ \/ (req[d].pc # "idle" /\ req[d].path = Default)]]
    <3>1. ASSUME NEW d \in Clients
          PROVE  req'[d] \in RequestType /\ RequestOK(req'[d])
      <4>1. req[d] \in RequestType /\ RequestOK(req[d])
        BY DEF TypeInv
      <4>2. CASE d = c
        BY <2>2, <4>2, IdleTyped
      <4>3. CASE d # c
        <5>1. PICK b \in BOOLEAN : req'[d] = [req[d] EXCEPT !.void = b]
          BY <2>2, <4>1, <4>3 DEF RequestType
        <5> QED
          BY <4>1, <5>1 DEF RequestType, RequestOK
      <4> QED
        BY <4>2, <4>3
    <3>2. req' \in [Clients -> RequestType']
      BY <1>2, <2>2, <3>1
    <3>3. \A d \in Clients : RequestOK(req[d])'
      BY <1>2, <3>1 DEF Framed, RequestOK, TurnedAway, NotATarget
    <3> QED
      BY <3>2, <3>3
  <2> QED
    BY <2>1, <2>2 DEF Clear
<1>5. tasks' \subseteq TaskType' /\ \A t \in tasks' : TaskOK(t)'
  <2>1. CASE UNCHANGED tasks
    BY <1>2, <2>1, TasksKept
  <2>2. CASE tasks' = {[t EXCEPT !.void = @ \/ t.path = Default] : t \in tasks}
    <3>1. ASSUME NEW t \in tasks, NEW u, u = [t EXCEPT !.void = @ \/ t.path = Default]
          PROVE  u \in TaskType' /\ TaskOK(u)
      <4>1. t \in TaskType /\ TaskOK(t)
        BY DEF TypeInv
      <4>2. PICK b \in BOOLEAN : u = [t EXCEPT !.void = b]
        BY <3>1, <4>1 DEF TaskType
      <4> QED
        BY <1>2, <4>1, <4>2 DEF TaskType, TaskOK, Permitted
    <3> QED
      BY <1>2, <2>2, <3>1, FrameKeepsTypes
  <2> QED
    BY <2>1, <2>2 DEF Clear
<1> QED
  BY <1>1, <1>2, <1>3, <1>4, <1>5, EnginesMove

(* The gate that looks at the state of the engine. *)
LEMMA CheckTyped ==
    ASSUME TypeInv, NEW c \in Clients, Check(c)
    PROVE  TypeInv'
<1> DEFINE e == req[c].engine
<1>1. req[c] \in RequestType /\ RequestOK(req[c]) /\ req[c].pc = "check"
  BY DEF TypeInv, Check
<1>2. e \in 1..Len(engines) /\ Len(engines) \in Nat
  BY <1>1 DEF RequestType, RequestOK, TypeInv
<1>3. PICK s \in {engines[e].state, "busy"} :
        /\ engines' = [engines EXCEPT ![e].state = s]
        /\ IF s # "idle" \/ NotATarget(req[c].route)
           THEN Answer(c)
           ELSE req' = [req EXCEPT ![c].pc = AfterGate(req[c].route),
                                   ![c].then = AfterLookup(req[c].route), ![c].engine = 0]
  BY DEF Check
<1>4. UNCHANGED <<role, readOnly, pool, dir, locked, requests, clears, acked, tasks>>
  BY DEF Check, workers, bookkeeping
<1>5. engines[e] \in EngineType
  BY <1>2 DEF TypeInv
<1>6. [engines[e] EXCEPT !.state = s] \in EngineType
  BY <1>3, <1>5 DEF EngineType
<1>7. Framed /\ engines' \in Seq(EngineType') /\ Len(engines') = Len(engines)
  BY <1>2, <1>3, <1>4, <1>6, EngineChanges
<1>8. req' \in [Clients -> RequestType'] /\ \A d \in Clients : RequestOK(req[d])'
  <2>1. CASE Answer(c)
    BY <1>7, <2>1, AnswerTyped
  <2>2. CASE /\ ~NotATarget(req[c].route)
             /\ req' = [req EXCEPT ![c].pc = AfterGate(req[c].route),
                                   ![c].then = AfterLookup(req[c].route), ![c].engine = 0]
    <3> DEFINE r == [req[c] EXCEPT !.pc = AfterGate(req[c].route),
                                   !.then = AfterLookup(req[c].route), !.engine = 0]
    <3>1. r \in RequestType
      <4>1. AfterGate(req[c].route) \in Places /\ AfterLookup(req[c].route) \in Places
        BY DEF Places, AfterGate, AfterLookup
      <4>2. 0 \in 0..Len(engines)
        BY <1>2
      <4> QED
        BY <1>1, <4>1, <4>2 DEF RequestType
    <3>2. RequestOK(r)
      BY <1>1, <2>2 DEF RequestType, RequestOK, AfterGate, AfterLookup
    <3>3. req' = [req EXCEPT ![c] = r]
      BY <1>1, <2>2 DEF TypeInv, RequestType
    <3> QED
      BY <1>7, <3>1, <3>2, <3>3, FrameKeepsTypes, RequestMoves
  <2> QED
    BY <1>3, <2>1, <2>2
<1>9. tasks' \subseteq TaskType' /\ \A t \in tasks' : TaskOK(t)'
  BY <1>4, <1>7, TasksKept
<1> QED
  BY <1>4, <1>7, <1>8, <1>9, EnginesMove DEF TypeInv

(* What a handler leaves behind are parts its route names. *)
LEMMA OutcomeParts ==
    ASSUME NEW route \in Carried, NEW o,
           o \in Outcomes(route) \/ o \in RecordOutcomes(route)
    PROVE  /\ o.parts \in SUBSET Parts /\ (route.gate = "open" => o.parts = {})
           /\ o.ok \in BOOLEAN
<1>1. PICK b \in BOOLEAN, S \in SUBSET route.writes : o = [ok |-> b, parts |-> S]
  <2>1. CASE o \in Outcomes(route)
    <3>1. \/ o = [ok |-> TRUE, parts |-> route.writes]
          \/ o = [ok |-> TRUE, parts |-> Core(route)]
          \/ o = [ok |-> FALSE, parts |-> {}]
          \/ o = [ok |-> FALSE, parts |-> Core(route)]
      BY <2>1 DEF Outcomes
    <3>2. Core(route) \in SUBSET route.writes /\ {} \in SUBSET route.writes
      BY DEF Core
    <3> QED
      BY <3>1, <3>2
  <2>2. CASE o \in RecordOutcomes(route)
    BY <2>2 DEF RecordOutcomes
  <2> QED
    BY <2>1, <2>2
<1>2. o.parts = S /\ o.ok = b
  BY <1>1
<1> QED
  BY <1>2 DEF Carried

(* The handler's call into the engine keeps the gates in order.             *)
LEMMA HandleTyped ==
    ASSUME TypeInv, NEW c \in Clients, Handle(c)
    PROVE  TypeInv'
<1> DEFINE r == req[c]
<1>1. r \in RequestType /\ RequestOK(r) /\ r.pc = "handle"
  BY DEF TypeInv, Handle
<1>2. /\ r.engine \in 1..Len(engines) /\ r.id \in Nat /\ r.route \in Carried
      /\ r.path \in Paths /\ Permitted(r.route)
  BY <1>1 DEF RequestType, RequestOK, TypeInv, Permitted
<1>3. PICK o \in Outcomes(r.route) :
        /\ engines' = With(r.engine, r.id, o.parts, r.route.gate)
        /\ IF o.ok /\ r.route.after # {}
           THEN /\ req' = [req EXCEPT ![c].pc = "lookup", ![c].then = "after", ![c].engine = 0]
                /\ acked' = acked
           ELSE /\ Answer(c)
                /\ acked' = IF o.ok THEN Ack(r, engines', r.engine) ELSE acked
  BY DEF Handle
<1>4. UNCHANGED <<role, readOnly, pool, dir, locked, requests, clears, tasks>>
  BY DEF Handle, workers, bookkeeping
<1>5. o.parts \in SUBSET Parts /\ (r.route.gate = "open" => o.parts = {})
  BY <1>2, OutcomeParts
<1>6. Framed /\ engines' \in Seq(EngineType') /\ Len(engines') = Len(engines)
  BY <1>2, <1>3, <1>4, <1>5, WithTyped
<1>7. engines' \in Seq(EngineType)
  BY <1>6, FrameKeepsTypes
<1>8. acked' \in [Paths -> SUBSET Lawful]
  <2>1. Ack(r, engines', r.engine) \in [Paths -> SUBSET Lawful]
    BY <1>2, <1>6, <1>7, AckTyped
  <2>2. acked \in [Paths -> SUBSET Lawful]
    BY DEF TypeInv
  <2> QED
    BY <1>3, <2>1, <2>2
<1>9. req' \in [Clients -> RequestType'] /\ \A d \in Clients : RequestOK(req[d])'
  <2>1. CASE Answer(c)
    BY <1>6, <2>1, AnswerTyped
  <2>2. CASE req' = [req EXCEPT ![c].pc = "lookup", ![c].then = "after", ![c].engine = 0]
    <3> DEFINE q == [r EXCEPT !.pc = "lookup", !.then = "after", !.engine = 0]
    <3>1. 0 \in 0..Len(engines)
      BY DEF TypeInv
    <3>2. q \in RequestType
      BY <1>1, <3>1 DEF RequestType, Places
    <3>3. RequestOK(q)
      BY <1>1 DEF RequestType, RequestOK
    <3>4. req' = [req EXCEPT ![c] = q]
      BY <1>1, <2>2 DEF TypeInv, RequestType
    <3> QED
      BY <1>6, <3>2, <3>3, <3>4, FrameKeepsTypes, RequestMoves
  <2> QED
    BY <1>3, <2>1, <2>2
<1>10. tasks' \subseteq TaskType' /\ \A t \in tasks' : TaskOK(t)'
  BY <1>4, <1>6, TasksKept
<1> QED
  BY <1>4, <1>6, <1>8, <1>9, <1>10, EnginesMove DEF TypeInv

(* What a handler does after that call keeps the gates in order.            *)
LEMMA AfterTyped ==
    ASSUME TypeInv, NEW c \in Clients, After(c)
    PROVE  TypeInv'
<1> DEFINE r == req[c]
<1>1. r \in RequestType /\ RequestOK(r) /\ r.pc = "after"
  BY DEF TypeInv, After
<1>2. /\ r.engine \in 1..Len(engines) /\ r.id \in Nat /\ r.route \in Carried
      /\ r.path \in Paths /\ Permitted(r.route)
  BY <1>1 DEF RequestType, RequestOK, TypeInv, Permitted
<1>3. PICK parts \in {r.route.after \cap Parts, {}} :
        /\ engines' = With(r.engine, r.id, parts, r.route.gate)
        /\ acked' = Ack(r, engines', r.engine)
  BY DEF After
<1>4. UNCHANGED <<role, readOnly, pool, dir, locked, requests, clears, tasks>> /\ Answer(c)
  BY DEF After, workers, bookkeeping
<1>5. parts \in SUBSET Parts /\ (r.route.gate = "open" => parts = {})
  BY <1>2, <1>3 DEF Carried
<1>6. Framed /\ engines' \in Seq(EngineType') /\ Len(engines') = Len(engines)
  BY <1>2, <1>3, <1>4, <1>5, WithTyped
<1>7. acked' \in [Paths -> SUBSET Lawful]
  BY <1>2, <1>3, <1>6, FrameKeepsTypes, AckTyped
<1>8. req' \in [Clients -> RequestType'] /\ \A d \in Clients : RequestOK(req[d])'
  BY <1>4, <1>6, AnswerTyped
<1>9. tasks' \subseteq TaskType' /\ \A t \in tasks' : TaskOK(t)'
  BY <1>4, <1>6, TasksKept
<1> QED
  BY <1>4, <1>6, <1>7, <1>8, <1>9, EnginesMove DEF TypeInv

(* A request becomes a task. *)
LEMMA SpawnTyped ==
    ASSUME TypeInv, NEW c \in Clients, Admit(c) \/ Spawn(c)
    PROVE  TypeInv'
<1>1. req[c] \in RequestType /\ RequestOK(req[c]) /\ req[c].pc \in {"admit", "spawn"}
  BY DEF TypeInv, Admit, Spawn
<1>2. /\ UNCHANGED <<role, readOnly, engines, pool, dir, requests, clears, locked, acked>>
      /\ tasks' = tasks \cup {Task(c)}
      /\ Answer(c) \/ req' = [req EXCEPT ![c].pc = "await"]
  BY DEF Admit, Spawn, store, bookkeeping
<1>3. Framed
  BY <1>2, EnginesKept
<1>4. req' \in [Clients -> RequestType'] /\ \A d \in Clients : RequestOK(req[d])'
  <2> DEFINE r == [req[c] EXCEPT !.pc = "await"]
  <2>1. r \in RequestType
    BY <1>1 DEF RequestType, Places
  <2>2. RequestOK(r)
    BY <1>1 DEF RequestType, RequestOK
  <2>3. CASE Answer(c)
    BY <1>3, <2>3, AnswerTyped
  <2>4. CASE req' = [req EXCEPT ![c].pc = "await"]
    BY <1>3, <2>1, <2>2, <2>4, FrameKeepsTypes, RequestMoves
  <2> QED
    BY <1>2, <2>3, <2>4
<1>5. tasks' \subseteq TaskType' /\ \A t \in tasks' : TaskOK(t)'
  <2>1. Task(c) \in TaskType
    BY <1>1 DEF Task, TaskType, RequestType
  <2>2. TaskOK(Task(c))
    BY <1>1 DEF Task, TaskOK, RequestOK, RequestType, Permitted
  <2>3. Task(c) \in TaskType' /\ tasks' \subseteq (tasks \ {}) \cup {Task(c)}
    BY <1>2, <1>3, <2>1, FrameKeepsTypes
  <2> HIDE DEF Task
  <2> QED
    BY <1>3, <2>2, <2>3, FrameKeepsTypes DEF TypeInv
<1> QED
  BY <1>2, <1>4, <1>5, StoreKept DEF TypeInv

(* Steps of a blocking task. *)
LEMMA WorkTyped ==
    ASSUME TypeInv, NEW t \in tasks, Work(t)
    PROVE  TypeInv'
<1>1. t \in TaskType /\ TaskOK(t)
  BY DEF TypeInv
<1>2. UNCHANGED <<role, readOnly, requests, clears>>
  BY DEF Work, TaskLookup, TaskOpens, TaskPanics, RunTask, BadRecord, EndTask, bookkeeping
<1>3. CASE TaskLookup(t) \/ TaskPanics(t) \/ BadRecord(t)
  <2>1. UNCHANGED <<engines, pool, dir, locked, acked, req>>
    BY <1>3 DEF TaskLookup, TaskPanics, BadRecord, store
  <2>2. Framed
    BY <1>2, <2>1, EnginesKept
  <2>3. PICK u : /\ tasks' = (tasks \ {t}) \cup {u}
                 /\ \/ /\ u = [t EXCEPT !.engine = pool[t.path]]
                       /\ pool[t.path] # 0
                    \/ u = [t EXCEPT !.stage = "drop"]
    BY <1>3 DEF TaskLookup, TaskPanics, BadRecord
  <2>4. u \in TaskType
    BY <1>1, <2>3 DEF TaskType, TypeInv
  <2>5. TaskOK(u)
    BY <1>1, <2>3 DEF TaskType, TaskOK, Permitted
  <2>6. tasks' \subseteq TaskType' /\ \A x \in tasks' : TaskOK(x)'
    BY <2>2, <2>3, <2>4, <2>5, FrameKeepsTypes, TasksMove
  <2>7. req' \in [Clients -> RequestType'] /\ \A c \in Clients : RequestOK(req[c])'
    BY <2>1, <2>2, RequestsKept
  <2> QED
    BY <1>2, <2>1, <2>6, <2>7, StoreKept DEF TypeInv
<1>4. CASE TaskOpens(t)
  <2>1. t.path \in Paths /\ Opened(t.path) /\ UNCHANGED <<req, acked>>
    BY <1>1, <1>4 DEF TaskOpens, TaskType
  <2>2. /\ Framed /\ engines' \in Seq(EngineType') /\ Len(engines') = Len(engines) + 1
        /\ pool' \in [Paths -> 0..Len(engines')] /\ dir' \in [Paths -> 0..Len(engines')]
        /\ locked' \subseteq Paths
    BY <1>2, <2>1, OpenedTyped
  <2> DEFINE u == [t EXCEPT !.engine = Len(engines) + 1]
  <2>3. Len(engines) + 1 \in 0..Len(engines') /\ Len(engines) + 1 # 0 /\ t \in TaskType'
    BY <1>1, <2>2, FrameKeepsTypes DEF TypeInv
  <2>4. u \in TaskType'
    BY <2>3 DEF TaskType
  <2>5. TaskOK(u)
    BY <1>1, <2>3 DEF TaskType, TaskOK, Permitted
  <2>6. tasks' \subseteq TaskType' /\ \A x \in tasks' : TaskOK(x)'
    BY <1>4, <2>2, <2>4, <2>5, TasksMove DEF TaskOpens
  <2>7. req' \in [Clients -> RequestType'] /\ \A c \in Clients : RequestOK(req[c])'
    BY <2>1, <2>2, RequestsKept
  <2>8. acked' \in [Paths -> SUBSET Lawful]
    BY <2>1 DEF TypeInv
  <2> QED
    BY <1>2, <2>2, <2>6, <2>7, <2>8, EnginesMove
<1>5. CASE RunTask(t)
  <2>1. UNCHANGED <<pool, dir, locked, req, acked>> /\ t.engine # 0
    BY <1>5 DEF RunTask
  <2>2. PICK o \in Outcomes(t.route) \cup RecordOutcomes(t.route) :
          /\ engines' = With(t.engine, t.id, o.parts, t.route.gate)
          /\ tasks' = (tasks \ {t}) \cup {[t EXCEPT !.stage = "drop", !.ok = o.ok]}
    BY <1>5 DEF RunTask
  <2>3. /\ t.engine \in 1..Len(engines) /\ t.id \in Nat /\ t.route \in Carried
        /\ Permitted(t.route)
    BY <1>1, <2>1 DEF TaskType, TaskOK, TypeInv
  <2>4. o.parts \in SUBSET Parts /\ (t.route.gate = "open" => o.parts = {}) /\ o.ok \in BOOLEAN
    BY <2>3, OutcomeParts
  <2>5. Framed /\ engines' \in Seq(EngineType') /\ Len(engines') = Len(engines)
    BY <1>2, <2>2, <2>3, <2>4, WithTyped
  <2> DEFINE u == [t EXCEPT !.stage = "drop", !.ok = o.ok]
  <2>6. u \in TaskType
    BY <1>1, <2>4 DEF TaskType
  <2>7. TaskOK(u)
    BY <1>1, <2>1 DEF TaskType, TaskOK, Permitted
  <2>8. tasks' \subseteq TaskType' /\ \A x \in tasks' : TaskOK(x)'
    <3>1. u \in TaskType' /\ tasks' \subseteq (tasks \ {t}) \cup {u}
      BY <2>2, <2>5, <2>6, FrameKeepsTypes
    <3> HIDE DEF u
    <3> QED
      BY <2>5, <2>7, <3>1, TasksMove
  <2>9. req' \in [Clients -> RequestType'] /\ \A c \in Clients : RequestOK(req[c])'
    BY <2>1, <2>5, RequestsKept
  <2> QED
    BY <1>2, <2>1, <2>5, <2>8, <2>9, EnginesMove DEF TypeInv
<1>6. CASE EndTask(t)
  <2> DEFINE c == t.client
  <2>1. UNCHANGED <<engines, pool, dir, locked>> /\ tasks' = tasks \ {t} /\ c \in Clients
    BY <1>1, <1>6 DEF EndTask, store, TaskType
  <2>2. Framed
    BY <1>2, <2>1, EnginesKept
  <2>3. tasks' \subseteq TaskType' /\ \A x \in tasks' : TaskOK(x)'
    BY <2>1, <2>2, FrameKeepsTypes DEF TypeInv
  <2>4. acked' \in [Paths -> SUBSET Lawful]
    <3>1. UNCHANGED acked \/ (t.ok /\ acked' = Ack(t, engines, t.engine))
      BY <1>6 DEF EndTask
    <3>2. t.ok => t.engine \in 1..Len(engines) /\ t.path \in Paths
      BY <1>1 DEF TaskType, TaskOK, TypeInv
    <3> QED
      BY <3>1, <3>2, AckTyped DEF TypeInv
  <2>5. req' \in [Clients -> RequestType'] /\ \A d \in Clients : RequestOK(req[d])'
    <3>1. CASE UNCHANGED req
      BY <2>2, <3>1, RequestsKept
    <3>2. CASE Answer(c)
      BY <2>1, <2>2, <3>2, AnswerTyped
    <3>3. CASE /\ req[c].pc = "await" /\ req[c].left > 1
               /\ req' = [req EXCEPT ![c].pc = "admit", ![c].left = @ - 1]
      <4> DEFINE r == [req[c] EXCEPT !.pc = "admit", !.left = @ - 1]
      <4>1. req[c] \in RequestType /\ RequestOK(req[c])
        BY <2>1 DEF TypeInv
      <4>2. req[c].left - 1 \in Nat
        BY <3>3, <4>1 DEF RequestType
      <4>3. r \in RequestType
        BY <4>1, <4>2 DEF RequestType, Places
      <4>4. RequestOK(r)
        BY <3>3, <4>1 DEF RequestType, RequestOK
      <4>5. req' = [req EXCEPT ![c] = r]
        BY <2>1, <3>3, <4>1 DEF TypeInv, RequestType
      <4> QED
        BY <2>1, <2>2, <4>3, <4>4, <4>5, FrameKeepsTypes, RequestMoves
    <3> QED
      BY <1>6, <3>1, <3>2, <3>3 DEF EndTask
  <2> QED
    BY <1>2, <2>1, <2>3, <2>4, <2>5, StoreKept DEF TypeInv
<1> QED
  BY <1>3, <1>4, <1>5, <1>6 DEF Work

(* The end of an engine's recovery or its drop keeps the gates in order.    *)
LEMMA MaintenanceTyped ==
    ASSUME TypeInv, NEW e \in 1..Len(engines), Recovered(e) \/ DropEngine(e)
    PROVE  TypeInv'
<1>1. UNCHANGED <<role, readOnly, pool, dir, req, tasks, requests, clears, acked>>
      /\ locked' \subseteq locked
  BY DEF Recovered, DropEngine, workers, bookkeeping
<1>2. engines[e] \in EngineType
  BY DEF TypeInv
<1>3. PICK x \in EngineType : engines' = [engines EXCEPT ![e] = x]
  <2>1. CASE Recovered(e)
    BY <1>2, <2>1 DEF Recovered, EngineType
  <2>2. CASE DropEngine(e)
    BY <1>2, <2>2 DEF DropEngine, EngineType
  <2> QED
    BY <2>1, <2>2
<1>4. Framed /\ engines' \in Seq(EngineType') /\ Len(engines') = Len(engines)
  BY <1>1, <1>3, EngineChanges
<1>5. req' \in [Clients -> RequestType'] /\ \A c \in Clients : RequestOK(req[c])'
  BY <1>1, <1>4, RequestsKept
<1>6. tasks' \subseteq TaskType' /\ \A t \in tasks' : TaskOK(t)'
  BY <1>1, <1>4, TasksKept
<1> QED
  BY <1>1, <1>4, <1>5, <1>6, EnginesMove DEF TypeInv

(* Inductive step: every action keeps the gates in order.                   *)
LEMMA TypeStep == TypeInv /\ [Next]_vars => TypeInv'
<1> SUFFICES ASSUME TypeInv, [Next]_vars PROVE TypeInv'
  OBVIOUS
<1>1. ASSUME NEW c \in Clients, Arrive(c) PROVE TypeInv'
  BY <1>1, ArriveTyped
<1>2. ASSUME NEW c \in Clients, Serve(c) \/ TimeOut(c) PROVE TypeInv'
  BY <1>2, MoveTyped, SlowPathTyped, ClearTyped, CheckTyped, HandleTyped, AfterTyped, SpawnTyped
     DEF Serve
<1>3. ASSUME NEW t \in tasks, Work(t) PROVE TypeInv'
  BY <1>3, WorkTyped
<1>4. ASSUME NEW e \in 1..Len(engines), Recovered(e) \/ DropEngine(e) PROVE TypeInv'
  BY <1>4, MaintenanceTyped
<1>5. CASE UNCHANGED vars
  <2>1. UNCHANGED <<role, readOnly, engines, pool, dir, requests, clears>>
        /\ UNCHANGED <<locked, acked, req, tasks>>
    BY <1>5 DEF vars
  <2>2. Framed
    BY <2>1, EnginesKept
  <2> QED
    BY <2>1, <2>2, RequestsKept, TasksKept, StoreKept DEF TypeInv
<1> QED
  BY <1>1, <1>2, <1>3, <1>4, <1>5 DEF Next

(* Whatever handlers, tasks, opens, clears and time-outs do in whatever     *)
(* order, every engine holds lawful effects, and every request that can     *)
(* write is past its gates.                                                 *)
THEOREM GatesHold == Spec => []TypeInv
  BY TypeInitially, TypeStep, PTL DEF Spec

(* Only replication writes to a replica, replication never writes to a      *)
(* source, and no tool writes through a read-only endpoint: for all the     *)
(* handlers of rest.rs and mcp.rs and every path a request takes.           *)
THEOREM RolesRespected == Spec => []RoleRespected
<1>1. TypeInv => RoleRespected
  <2> SUFFICES ASSUME TypeInv, NEW e \in 1..Len(engines), NEW x \in engines[e].content
               PROVE  (role = "replica" <=> x[3] = "target") /\ (readOnly => x[3] # "tool")
    BY DEF RoleRespected
  <2>1. engines[e] \in EngineType
    BY DEF TypeInv
  <2>2. x \in Lawful
    BY <2>1 DEF EngineType
  <2> QED
    BY <2>2 DEF Lawful
<1> QED
  BY <1>1, GatesHold, PTL

-----------------------------------------------------------------------------
(* Permits *)

CountedTasks == {t \in tasks : Counted(t.route)}

RunningTasks == {t \in tasks : Counted(t.route) /\ t.stage = "run"}

(* A task of this request is the one it waits for. *)
Matches(r, t) == r.id = t.id => r.pc = "idle" \/ (r.pc = "await" /\ r.route = t.route)

(* A request and its number name one task at most, and a request that has   *)
(* yet to spawn has none: so a task that comes or goes is one permit.       *)
TasksNumbered ==
    /\ IsFiniteSet(tasks)
    /\ \A c \in Clients : req[c].id <= requests
    /\ \A t \in tasks : t.id <= requests
    /\ \A t, u \in tasks : t.client = u.client /\ t.id = u.id => t = u
    /\ \A t \in tasks : Matches(req[t.client], t)

(* blocking_permit is asked for exactly by the handlers whose tasks count.  *)
Admission(r) ==
    LET to(pc) == r.pc = pc \/ (r.pc \in {"lookup", "slow", "fetch"} /\ r.then = pc) IN
    (to("admit") => Counted(r.route)) /\ (to("spawn") => ~Counted(r.route))

PermitInv ==
    /\ TypeInv
    /\ TasksNumbered
    /\ \A c \in Clients : Admission(req[c])
    /\ permits \in Nat /\ gauge \in Nat
    /\ PermitsConserved

(* The sets that the permits are counted over are finite.                   *)
LEMMA CountsFinite ==
    ASSUME TasksNumbered
    PROVE  /\ IsFiniteSet(CountedTasks) /\ Cardinality(CountedTasks) \in Nat
           /\ IsFiniteSet(RunningTasks) /\ Cardinality(RunningTasks) \in Nat
<1>1. CountedTasks \in SUBSET tasks /\ RunningTasks \in SUBSET tasks /\ IsFiniteSet(tasks)
  BY DEF CountedTasks, RunningTasks, TasksNumbered
<1>2. IsFiniteSet(CountedTasks) /\ IsFiniteSet(RunningTasks)
  BY <1>1, FS_Subset
<1> QED
  BY <1>2, FS_CardinalityType

(* Base case: the server starts with every permit free.                     *)
LEMMA PermitsInitially == Init => PermitInv
<1> SUFFICES ASSUME Init PROVE PermitInv
  OBVIOUS
<1>1. TypeInv
  BY TypeInitially
<1>2. tasks = {} /\ permits = MaxPermits /\ gauge = 0 /\ requests = 0
      /\ \A c \in Clients : req[c].id = 0
  BY DEF Init, Idle
<1>3. TasksNumbered
  BY <1>2, FS_EmptySet DEF TasksNumbered
<1>4. {t \in tasks : Counted(t.route)} = {}
      /\ {t \in tasks : Counted(t.route) /\ t.stage = "run"} = {}
  BY <1>2
<1>5. PermitsConserved
  BY <1>2, <1>4, FS_EmptySet, ServerAssumption DEF PermitsConserved
<1>6. \A c \in Clients : Admission(req[c])
  BY DEF Init, Idle, Admission
<1> QED
  BY <1>1, <1>2, <1>3, <1>5, <1>6, ServerAssumption DEF PermitInv

(* Requests go on, keep their number or end, and none starts to wait. *)
Onward ==
    \A c \in Clients :
        \/ req'[c].pc = "idle" /\ req'[c].id \in {0, req[c].id}
        \/ /\ req'[c].id = req[c].id /\ req'[c].route = req[c].route
           /\ req'[c].pc = req[c].pc \/ req[c].pc \notin {"await", "idle"}

(* A request that moves onward still matches the tasks of its client.       *)
LEMMA OnwardKeepsNumbers ==
    ASSUME TypeInv, TasksNumbered, Onward, UNCHANGED <<tasks, requests>>
    PROVE  TasksNumbered'
<1>1. \A c \in Clients : req[c].id \in Nat /\ requests \in Nat
  BY DEF TypeInv, RequestType
<1>2. \A t \in tasks : t.client \in Clients /\ t.id \in Nat
  BY DEF TypeInv, TaskType
<1>3. \A c \in Clients : req'[c].id <= requests'
  BY <1>1 DEF TasksNumbered, Onward
<1>4. \A t \in tasks' : Matches(req'[t.client], t)
  BY <1>1, <1>2 DEF TasksNumbered, Onward, Matches
<1> QED
  BY <1>3, <1>4 DEF TasksNumbered, Matches

(* Steps that leave the tasks and the counters alone. *)
LEMMA WorkersKept ==
    ASSUME PermitInv, TypeInv', TasksNumbered', UNCHANGED workers,
           \A c \in Clients : Admission(req[c])'
    PROVE  PermitInv'
BY DEF PermitInv, PermitsConserved, workers

(* The request's own steps that leave the tasks alone keep PermitInv.       *)
LEMMA ServeNumbered ==
    ASSUME PermitInv, TypeInv', NEW c \in Clients,
           FastPath(c) \/ Miss(c) \/ SlowPath(c) \/ OpenFails(c) \/ Check(c) \/ Handle(c)
           \/ After(c) \/ Fetched(c) \/ Overloaded(c) \/ TimeOut(c)
    PROVE  PermitInv'
<1>1. UNCHANGED workers /\ UNCHANGED requests
  BY DEF FastPath, Miss, SlowPath, OpenFails, Check, Handle, After, Fetched, Overloaded,
         TimeOut, bookkeeping
<1>2. req \in [Clients -> RequestType]
  BY DEF PermitInv, TypeInv
<1>3. Onward /\ \A d \in Clients : Admission(req'[d])
  <2>1. CASE Answer(c)
    BY <1>2, <2>1 DEF PermitInv, Onward, Answer, Idle, Admission
  <2>2. ASSUME ~Answer(c)
        PROVE  /\ req[c].pc \notin {"await", "idle"}
               /\ req'[c].id = req[c].id /\ req'[c].route = req[c].route
               /\ \A d \in Clients \ {c} : req'[d] = req[d]
               /\ Admission(req'[c])
    <3>1. req[c].pc \notin {"await", "idle"}
      BY <2>2 DEF FastPath, Miss, SlowPath, OpenFails, Check, Handle, After, Fetched,
                  Overloaded, TimeOut
    <3>2. req[c] \in RequestType /\ RequestOK(req[c]) /\ Admission(req[c])
      BY <1>2 DEF PermitInv, TypeInv
    <3>3. CASE FastPath(c) \/ SlowPath(c)
      <4>1. req[c].pc \in {"lookup", "slow"} /\ \E e : Holding(c, e)
        BY <3>3 DEF FastPath, SlowPath
      <4> QED
        BY <1>2, <3>1, <3>2, <4>1 DEF Holding, RequestType, RequestOK, Admission
    <3>4. CASE Miss(c) \/ Fetched(c)
      BY <1>2, <3>1, <3>2, <3>4 DEF Miss, Fetched, RequestType, Admission
    <3>5. CASE Check(c)
      <4>1. req' = [req EXCEPT ![c].pc = AfterGate(req[c].route),
                               ![c].then = AfterLookup(req[c].route), ![c].engine = 0]
        BY <2>2, <3>5 DEF Check
      <4> DEFINE r == [req[c] EXCEPT !.pc = AfterGate(req[c].route),
                                     !.then = AfterLookup(req[c].route), !.engine = 0]
      <4>2. req' = [req EXCEPT ![c] = r]
        BY <1>2, <3>2, <4>1 DEF RequestType
      <4>3. /\ r.pc = AfterGate(req[c].route) /\ r.then = AfterLookup(req[c].route)
            /\ r.route = req[c].route /\ r.id = req[c].id /\ r.route \in Carried
        BY <3>2 DEF RequestType
      <4>4. Admission(r)
        <5> HIDE DEF r
        <5> QED
          BY <4>3 DEF Admission, AfterGate, AfterLookup, Counted
      <4> QED
        BY <1>2, <3>1, <4>2, <4>3, <4>4
    <3>6. CASE Handle(c)
      BY <1>2, <2>2, <3>1, <3>2, <3>6 DEF Handle, RequestType, Admission
    <3> QED
      BY <2>2, <3>3, <3>4, <3>5, <3>6 DEF OpenFails, After, Overloaded, TimeOut
  <2> QED
    BY <2>1, <2>2 DEF PermitInv, Onward
<1>4. \A d \in Clients : Admission(req[d])'
  BY <1>3 DEF Admission
<1> QED
  BY <1>1, <1>3, <1>4, OnwardKeepsNumbers, WorkersKept DEF PermitInv, workers

(* A request that arrives gets a number no task carries.                    *)
LEMMA ArriveNumbered ==
    ASSUME PermitInv, TypeInv', NEW c \in Clients, Arrive(c)
    PROVE  PermitInv'
<1>1. UNCHANGED workers /\ requests' = requests + 1 /\ requests \in Nat
  BY DEF Arrive, PermitInv, TypeInv
<1>2. req'[c].id = requests + 1 /\ \A d \in Clients \ {c} : req'[d] = req[d]
  BY DEF Arrive, PermitInv, TypeInv
<1>3. \A d \in Clients : req[d].id \in Nat /\ req[d].id <= requests
  BY DEF PermitInv, TypeInv, RequestType, TasksNumbered
<1>4. \A t \in tasks : t.client \in Clients /\ t.id \in Nat /\ t.id <= requests
  BY DEF PermitInv, TypeInv, TaskType, TasksNumbered
<1>5. \A d \in Clients : req'[d].id <= requests'
  BY <1>1, <1>2, <1>3
<1>6. \A t \in tasks : t.id <= requests' /\ t.id # requests + 1
  BY <1>1, <1>4
<1>7. \A t \in tasks : Matches(req'[t.client], t)
  BY <1>2, <1>4, <1>6 DEF PermitInv, TasksNumbered, Matches
<1>8. TasksNumbered'
  BY <1>1, <1>5, <1>6, <1>7 DEF PermitInv, TasksNumbered, Matches, workers
<1>9. Admission(req'[c])
  <2>1. PICK route \in RouteSet, p \in Paths :
          LET gated == route.gate # "open" IN
          req' = [req EXCEPT ![c] =
              [pc |-> IF gated THEN "lookup" ELSE AfterGate(route),
               then |-> IF gated THEN "check" ELSE AfterLookup(route),
               route |-> [route EXCEPT !.reads = {}], path |-> p, engine |-> 0,
               id |-> requests + 1, void |-> FALSE,
               must |-> {x \in acked[p] : x[2] \in route.reads}, left |-> MaxRecords]]
    BY DEF Arrive
  <2>2. /\ req'[c].pc = IF route.gate # "open" THEN "lookup" ELSE AfterGate(route)
        /\ req'[c].then = IF route.gate # "open" THEN "check" ELSE AfterLookup(route)
        /\ req'[c].route = [route EXCEPT !.reads = {}]
    BY <2>1 DEF PermitInv, TypeInv
  <2>3. req'[c].route.runs = route.runs
    BY <2>2, RouteSetCarried DEF Carried
  <2> QED
    BY <2>2, <2>3 DEF Admission, AfterGate, AfterLookup, Counted
<1>10. \A d \in Clients : Admission(req[d])'
  BY <1>2, <1>9 DEF PermitInv, Admission
<1> QED
  BY <1>1, <1>8, <1>10, WorkersKept

(* A clear marks the tasks on the default database and counts none twice. *)
LEMMA ClearNumbered ==
    ASSUME PermitInv, TypeInv', NEW c \in Clients, Clear(c)
    PROVE  PermitInv'
<1>1. UNCHANGED <<permits, gauge, requests>>
  BY DEF Clear, bookkeeping
<1>2. req \in [Clients -> RequestType]
  BY DEF PermitInv, TypeInv
<1>3. CASE Answer(c) /\ UNCHANGED tasks
  <2>1. Onward /\ \A d \in Clients : Admission(req[d])'
    BY <1>2, <1>3 DEF PermitInv, Onward, Answer, Idle, Admission
  <2> QED
    BY <1>1, <1>3, <2>1, OnwardKeepsNumbers, WorkersKept DEF PermitInv, workers
<1>4. CASE /\ req' = [d \in Clients |-> IF d = c THEN Idle ELSE
                        [req[d] EXCEPT !.void = @ \/ (req[d].pc # "idle" /\ req[d].path = Default)]]
           /\ tasks' = {[t EXCEPT !.void = @ \/ t.path = Default] : t \in tasks}
  <2> DEFINE Mark(t) == [t EXCEPT !.void = @ \/ t.path = Default]
             mark == [t \in tasks |-> Mark(t)]
  <2>1. \A d \in Clients : \/ req'[d].pc = "idle" /\ req'[d].id = 0
                           \/ /\ req'[d].pc = req[d].pc /\ req'[d].id = req[d].id
                              /\ req'[d].then = req[d].then /\ req'[d].route = req[d].route
    BY <1>2, <1>4 DEF Idle, RequestType
  <2>2. \A t \in tasks : /\ mark[t].client = t.client /\ mark[t].id = t.id
                         /\ mark[t].route = t.route /\ mark[t].stage = t.stage
    BY DEF PermitInv, TypeInv, TaskType
  <2>3. tasks' = {mark[t] : t \in tasks}
    BY <1>4
  <2> HIDE DEF mark
  <2>4. \A t, u \in tasks : mark[t] = mark[u] => t = u
    BY <2>2 DEF PermitInv, TasksNumbered
  <2>5. ASSUME NEW S \in SUBSET tasks
        PROVE  /\ IsFiniteSet({mark[t] : t \in S})
               /\ Cardinality({mark[t] : t \in S}) = Cardinality(S)
    <3> DEFINE T == {mark[t] : t \in S}
               f == [t \in S |-> mark[t]]
    <3>1. f \in Bijection(S, T)
      BY <2>4, <2>5 DEF Bijection, Injection, Surjection, IsInjective
    <3>2. ExistsBijection(S, T)
      BY <3>1 DEF ExistsBijection
    <3>3. IsFiniteSet(S)
      BY <2>5, FS_Subset DEF PermitInv, TasksNumbered
    <3> QED
      BY <3>2, <3>3, FS_Bijection
  <2>6. CountedTasks' = {mark[t] : t \in CountedTasks}
        /\ RunningTasks' = {mark[t] : t \in RunningTasks}
    BY <2>2, <2>3 DEF CountedTasks, RunningTasks, Counted
  <2>7. Cardinality(CountedTasks') = Cardinality(CountedTasks)
        /\ Cardinality(RunningTasks') = Cardinality(RunningTasks)
    BY <2>5, <2>6 DEF CountedTasks, RunningTasks
  <2>8. IsFiniteSet(tasks')
    BY <2>3, <2>5
  <2>9. requests \in Nat /\ \A t \in tasks : t.client \in Clients
    BY DEF PermitInv, TypeInv, TaskType
  <2>10. TasksNumbered'
    <3>1. \A d \in Clients : req'[d].id <= requests'
      BY <1>1, <2>1, <2>9 DEF PermitInv, TasksNumbered
    <3>2. \A t \in tasks' : t.id <= requests'
      BY <1>1, <2>2, <2>3 DEF PermitInv, TasksNumbered
    <3>3. \A t, u \in tasks' : t.client = u.client /\ t.id = u.id => t = u
      BY <2>2, <2>3 DEF PermitInv, TasksNumbered
    <3>4. \A t \in tasks' : Matches(req'[t.client], t)
      BY <2>1, <2>2, <2>3, <2>9 DEF PermitInv, TasksNumbered, Matches
    <3> QED
      BY <2>8, <3>1, <3>2, <3>3, <3>4 DEF TasksNumbered, Matches
  <2>11. PermitsConserved'
    BY <1>1, <2>7 DEF PermitInv, PermitsConserved, CountedTasks, RunningTasks
  <2>12. \A d \in Clients : Admission(req[d])'
    BY <2>1 DEF PermitInv, Admission
  <2> QED
    BY <1>1, <2>10, <2>11, <2>12 DEF PermitInv
<1> QED
  BY <1>3, <1>4 DEF Clear

(* A request becomes a task, with a permit or without. *)
LEMMA SpawnNumbered ==
    ASSUME PermitInv, TypeInv', NEW c \in Clients, Admit(c) \/ Spawn(c)
    PROVE  PermitInv'
<1> DEFINE u == Task(c)
<1>1. /\ tasks' = tasks \cup {u} /\ UNCHANGED requests
      /\ Answer(c) \/ req' = [req EXCEPT ![c].pc = "await"]
      /\ req[c].pc \in {"admit", "spawn"}
  BY DEF Admit, Spawn, bookkeeping
<1>2. u.client = c /\ u.id = req[c].id /\ u.route = req[c].route /\ u.stage = "run"
  BY DEF Task
<1>3. req \in [Clients -> RequestType] /\ requests \in Nat
  BY DEF PermitInv, TypeInv
<1>4. \A t \in tasks : t.client = c => t.id # req[c].id
  BY <1>1 DEF PermitInv, TasksNumbered, Matches
<1>5. /\ \/ req'[c] = Idle
         \/ req'[c].pc = "await" /\ req'[c].id = req[c].id /\ req'[c].route = req[c].route
      /\ \A d \in Clients \ {c} : req'[d] = req[d]
  BY <1>1, <1>3 DEF RequestType, Answer
<1> HIDE DEF u
<1>6. TasksNumbered'
  <2>1. IsFiniteSet(tasks')
    BY <1>1, FS_AddElement DEF PermitInv, TasksNumbered
  <2>2. \A d \in Clients : req'[d].id <= requests'
    BY <1>1, <1>3, <1>5 DEF Idle, PermitInv, TasksNumbered
  <2>3. \A t \in tasks' : t.id <= requests'
    BY <1>1, <1>2 DEF PermitInv, TasksNumbered
  <2>4. \A t, v \in tasks' : t.client = v.client /\ t.id = v.id => t = v
    BY <1>1, <1>2, <1>4 DEF PermitInv, TasksNumbered
  <2>5. \A t \in tasks' : t.client \in Clients
    BY <1>1, <1>2 DEF PermitInv, TypeInv, TaskType
  <2>6. \A t \in tasks' : Matches(req'[t.client], t)
    BY <1>1, <1>2, <1>5, <2>5 DEF Idle, PermitInv, TasksNumbered, Matches
  <2> QED
    BY <2>1, <2>2, <2>3, <2>4, <2>6 DEF TasksNumbered, Matches
<1>7. u \notin tasks
  BY <1>2, <1>4
<1>8. /\ IsFiniteSet(CountedTasks) /\ Cardinality(CountedTasks) \in Nat
      /\ IsFiniteSet(RunningTasks) /\ Cardinality(RunningTasks) \in Nat
  BY CountsFinite DEF PermitInv
<1>9. /\ permits + Cardinality(CountedTasks) = MaxPermits
      /\ gauge >= Cardinality(RunningTasks) /\ permits \in Nat /\ gauge \in Nat
  BY DEF PermitInv, PermitsConserved, CountedTasks, RunningTasks
<1>10. \A d \in Clients : Admission(req[d])'
  BY <1>5 DEF Idle, PermitInv, Admission
<1>11. PermitsConserved' /\ permits' \in Nat /\ gauge' \in Nat
  <2>1. CASE Admit(c)
    <3>1. Counted(u.route)
      BY <1>2, <2>1 DEF Admit, PermitInv, Admission
    <3>2. permits > 0 /\ permits' = permits - 1 /\ gauge' = gauge + 1
      BY <2>1 DEF Admit
    <3>3. CountedTasks' = CountedTasks \cup {u} /\ RunningTasks' = RunningTasks \cup {u}
          /\ u \notin CountedTasks /\ u \notin RunningTasks
      BY <1>1, <1>2, <1>7, <3>1 DEF CountedTasks, RunningTasks, Counted
    <3>4. Cardinality(CountedTasks') = Cardinality(CountedTasks) + 1
          /\ Cardinality(RunningTasks') = Cardinality(RunningTasks) + 1
      BY <1>8, <3>3, FS_AddElement
    <3>5. /\ permits' + Cardinality(CountedTasks') = MaxPermits
          /\ gauge' >= Cardinality(RunningTasks') /\ permits' \in Nat /\ gauge' \in Nat
      BY <1>8, <1>9, <3>2, <3>4
    <3> QED
      BY <3>5 DEF PermitsConserved, CountedTasks, RunningTasks
  <2>2. CASE Spawn(c)
    <3>1. ~Counted(u.route)
      BY <1>2, <2>2 DEF Spawn, PermitInv, Admission
    <3>2. UNCHANGED <<permits, gauge>>
      BY <2>2 DEF Spawn
    <3>3. CountedTasks' = CountedTasks /\ RunningTasks' = RunningTasks
      BY <1>1, <3>1 DEF CountedTasks, RunningTasks, Counted
    <3> QED
      BY <1>9, <3>2, <3>3 DEF PermitsConserved, CountedTasks, RunningTasks
  <2> QED
    BY <2>1, <2>2
<1> QED
  BY <1>6, <1>10, <1>11 DEF PermitInv

(* A task in the place of another does not change how many there are. *)
LEMMA ReplacedCardinality ==
    ASSUME NEW S, IsFiniteSet(S), NEW t \in S, NEW u, u \notin S \ {t}
    PROVE  /\ IsFiniteSet((S \ {t}) \cup {u})
           /\ Cardinality((S \ {t}) \cup {u}) = Cardinality(S)
<1>1. IsFiniteSet(S \ {t}) /\ Cardinality(S \ {t}) = Cardinality(S) - 1
  BY FS_RemoveElement
<1>2. Cardinality(S) \in Nat
  BY FS_CardinalityType
<1>3. IsFiniteSet((S \ {t}) \cup {u})
      /\ Cardinality((S \ {t}) \cup {u}) = Cardinality(S \ {t}) + 1
  BY <1>1, FS_AddElement
<1> QED
  BY <1>1, <1>2, <1>3

(* A task goes on: it is still running, or finish_blocking has taken it     *)
(* off the gauge, or an import has left it there.                           *)
LEMMA TaskGoesOn ==
    ASSUME PermitInv, TypeInv', NEW t \in tasks, NEW u, t.stage = "run",
           u.client = t.client, u.id = t.id, u.route = t.route, u.stage \in {"run", "drop"},
           tasks' = (tasks \ {t}) \cup {u}, UNCHANGED <<req, permits, requests>>,
           \/ gauge' = gauge
           \/ Counted(t.route) /\ u.stage = "drop" /\ gauge' = gauge - 1
    PROVE  PermitInv'
<1>1. u \notin tasks \ {t}
  BY DEF PermitInv, TasksNumbered
<1>2. TasksNumbered'
  <2>1. IsFiniteSet(tasks')
    BY <1>1, ReplacedCardinality DEF PermitInv, TasksNumbered
  <2>2. \A x \in tasks' : x.id <= requests' /\ Matches(req'[x.client], x)
    BY DEF PermitInv, TasksNumbered, Matches
  <2>3. \A x, y \in tasks' : x.client = y.client /\ x.id = y.id => x = y
    BY DEF PermitInv, TasksNumbered
  <2> QED
    BY <2>1, <2>2, <2>3 DEF PermitInv, TasksNumbered, Matches
<1>3. /\ IsFiniteSet(CountedTasks) /\ Cardinality(CountedTasks) \in Nat
      /\ IsFiniteSet(RunningTasks) /\ Cardinality(RunningTasks) \in Nat
  BY CountsFinite DEF PermitInv
<1>4. /\ permits + Cardinality(CountedTasks) = MaxPermits
      /\ gauge >= Cardinality(RunningTasks) /\ permits \in Nat /\ gauge \in Nat
  BY DEF PermitInv, PermitsConserved, CountedTasks, RunningTasks
<1>5. Cardinality(CountedTasks') = Cardinality(CountedTasks)
  <2>1. CASE Counted(t.route)
    <3>1. CountedTasks' = (CountedTasks \ {t}) \cup {u} /\ t \in CountedTasks
          /\ u \notin CountedTasks \ {t}
      BY <1>1, <2>1 DEF CountedTasks, Counted
    <3> QED
      BY <1>3, <3>1, ReplacedCardinality
  <2>2. CASE ~Counted(t.route)
    BY <2>2 DEF CountedTasks, Counted
  <2> QED
    BY <2>1, <2>2
<1>6. gauge' \in Nat /\ gauge' >= Cardinality(RunningTasks')
  <2>1. CASE ~Counted(t.route)
    <3>1. RunningTasks' = RunningTasks
      BY <2>1 DEF RunningTasks, Counted
    <3> QED
      BY <1>4, <2>1, <3>1
  <2>2. CASE Counted(t.route) /\ u.stage = "run"
    <3>1. RunningTasks' = (RunningTasks \ {t}) \cup {u} /\ t \in RunningTasks
          /\ u \notin RunningTasks \ {t}
      BY <1>1, <2>2 DEF RunningTasks, Counted
    <3>2. Cardinality(RunningTasks') = Cardinality(RunningTasks)
      BY <1>3, <3>1, ReplacedCardinality
    <3> QED
      BY <1>4, <2>2, <3>2
  <2>3. CASE Counted(t.route) /\ u.stage = "drop"
    <3>1. RunningTasks' = RunningTasks \ {t} /\ t \in RunningTasks
      BY <1>1, <2>3 DEF RunningTasks, Counted
    <3>2. Cardinality(RunningTasks') = Cardinality(RunningTasks) - 1
          /\ IsFiniteSet(RunningTasks')
      BY <1>3, <3>1, FS_RemoveElement
    <3>3. Cardinality(RunningTasks') \in Nat
      BY <3>2, FS_CardinalityType
    <3> QED
      BY <1>3, <1>4, <3>2, <3>3
  <2> QED
    BY <2>1, <2>2, <2>3
<1>7. PermitsConserved'
  BY <1>4, <1>5, <1>6 DEF PermitsConserved, CountedTasks, RunningTasks
<1>8. \A c \in Clients : Admission(req[c])'
  BY DEF PermitInv, Admission
<1> QED
  BY <1>2, <1>4, <1>6, <1>7, <1>8 DEF PermitInv

(* A task ends and gives its permit back, whether it is waited for or not. *)
LEMMA EndTaskNumbered ==
    ASSUME PermitInv, TypeInv', NEW t \in tasks, EndTask(t)
    PROVE  PermitInv'
<1> DEFINE c == t.client
<1>1. /\ tasks' = tasks \ {t} /\ t.stage = "drop" /\ UNCHANGED <<gauge, requests>>
      /\ permits' = IF Counted(t.route) THEN permits + 1 ELSE permits
  BY DEF EndTask, bookkeeping
<1>2. c \in Clients /\ req[c] \in RequestType /\ req \in [Clients -> RequestType] /\ requests \in Nat
  BY DEF PermitInv, TypeInv, TaskType
<1>3. /\ \A d \in Clients \ {c} : req'[d] = req[d]
      /\ \/ req'[c] = req[c] \/ req'[c] = Idle
         \/ /\ req'[c].id = req[c].id /\ req'[c].route = req[c].route /\ req'[c].pc = "admit"
            /\ req[c].pc = "await" /\ req[c].id = t.id /\ t.route.runs = "import"
  <2>1. CASE UNCHANGED req \/ Answer(c)
    BY <1>2, <2>1 DEF Answer
  <2>2. CASE /\ req[c].pc = "await" /\ req[c].id = t.id /\ t.route.runs = "import"
             /\ req' = [req EXCEPT ![c].pc = "admit", ![c].left = @ - 1]
    BY <1>2, <2>2 DEF RequestType
  <2> QED
    BY <2>1, <2>2 DEF EndTask
<1>4. \A x \in tasks : /\ x.client \in Clients
                       /\ x # t /\ x.client = c => x.id # t.id
  BY DEF PermitInv, TypeInv, TaskType, TasksNumbered
<1>5. TasksNumbered'
  <2>1. IsFiniteSet(tasks')
    BY <1>1, FS_RemoveElement DEF PermitInv, TasksNumbered
  <2>2. \A d \in Clients : req'[d].id <= requests'
    BY <1>1, <1>2, <1>3 DEF PermitInv, TasksNumbered, Idle
  <2>3. \A x \in tasks' : Matches(req'[x.client], x)
    BY <1>1, <1>3, <1>4 DEF PermitInv, TasksNumbered, Matches, Idle
  <2> QED
    BY <1>1, <2>1, <2>2, <2>3 DEF PermitInv, TasksNumbered, Matches
<1>6. \A d \in Clients : Admission(req[d])'
  <2>1. Admission(req'[c])
    <3>1. CASE req'[c] = req[c] \/ req'[c] = Idle
      BY <1>2, <3>1 DEF PermitInv, Admission, Idle
    <3>2. CASE /\ req'[c].route = req[c].route /\ req'[c].pc = "admit"
               /\ req[c].pc = "await" /\ req[c].id = t.id /\ t.route.runs = "import"
      <4>1. req[c].route = t.route
        BY <3>2 DEF PermitInv, TasksNumbered, Matches
      <4> QED
        BY <3>2, <4>1 DEF Admission, Counted
    <3> QED
      BY <1>3, <3>1, <3>2
  <2> QED
    BY <1>3, <2>1 DEF PermitInv, Admission
<1>7. /\ IsFiniteSet(CountedTasks) /\ Cardinality(CountedTasks) \in Nat
  BY CountsFinite DEF PermitInv
<1>8. /\ permits + Cardinality(CountedTasks) = MaxPermits
      /\ gauge >= Cardinality(RunningTasks) /\ permits \in Nat /\ gauge \in Nat
  BY DEF PermitInv, PermitsConserved, CountedTasks, RunningTasks
<1>9. permits' \in Nat /\ permits' + Cardinality(CountedTasks') = MaxPermits
  <2>1. CASE Counted(t.route)
    <3>1. CountedTasks' = CountedTasks \ {t} /\ t \in CountedTasks
      BY <1>1, <2>1 DEF CountedTasks, Counted
    <3>2. Cardinality(CountedTasks') = Cardinality(CountedTasks) - 1
      BY <1>7, <3>1, FS_RemoveElement
    <3> QED
      BY <1>1, <1>7, <1>8, <2>1, <3>2
  <2>2. CASE ~Counted(t.route)
    <3>1. CountedTasks' = CountedTasks
      BY <1>1, <2>2 DEF CountedTasks, Counted
    <3> QED
      BY <1>1, <1>8, <2>2, <3>1
  <2> QED
    BY <2>1, <2>2
<1>10. RunningTasks' = RunningTasks
  BY <1>1 DEF RunningTasks, Counted
<1>11. PermitsConserved'
  BY <1>1, <1>8, <1>9, <1>10 DEF PermitsConserved, CountedTasks, RunningTasks
<1> QED
  BY <1>1, <1>5, <1>6, <1>8, <1>9, <1>11 DEF PermitInv

(* Every step of a blocking task keeps PermitInv.                           *)
LEMMA WorkNumbered ==
    ASSUME PermitInv, TypeInv', NEW t \in tasks, Work(t)
    PROVE  PermitInv'
<1>1. t \in TaskType /\ TaskOK(t)
  BY DEF PermitInv, TypeInv
<1>2. CASE EndTask(t)
  BY <1>2, EndTaskNumbered
<1>3. CASE TaskLookup(t) \/ TaskOpens(t) \/ TaskPanics(t) \/ RunTask(t) \/ BadRecord(t)
  <2>1. UNCHANGED <<req, permits, requests>> /\ t.stage = "run"
    BY <1>3 DEF TaskLookup, TaskOpens, TaskPanics, RunTask, BadRecord, bookkeeping
  <2>2. PICK u : /\ tasks' = (tasks \ {t}) \cup {u}
                 /\ \/ \E e : u = [t EXCEPT !.engine = e] /\ UNCHANGED gauge
                    \/ u = [t EXCEPT !.stage = "drop"] /\ UNCHANGED gauge
                    \/ /\ u = [t EXCEPT !.stage = "drop"]
                       /\ gauge' = gauge - 1 /\ t.engine = 0
                    \/ /\ \E b : u = [t EXCEPT !.stage = "drop", !.ok = b]
                       /\ gauge' = IF Counted(t.route) THEN gauge - 1 ELSE gauge
    <3>1. CASE TaskLookup(t)
      BY <3>1 DEF TaskLookup
    <3>2. CASE TaskOpens(t)
      BY <3>2 DEF TaskOpens
    <3>3. CASE TaskPanics(t)
      BY <3>3 DEF TaskPanics
    <3>4. CASE RunTask(t)
      BY <3>4 DEF RunTask
    <3>5. CASE BadRecord(t)
      BY <3>5 DEF BadRecord
    <3> QED
      BY <1>3, <3>1, <3>2, <3>3, <3>4, <3>5
  <2>3. /\ u.client = t.client /\ u.id = t.id /\ u.route = t.route
        /\ u.stage \in {"run", "drop"}
    BY <1>1, <2>1, <2>2 DEF TaskType
  <2>4. gauge' = gauge \/ (Counted(t.route) /\ u.stage = "drop" /\ gauge' = gauge - 1)
    <3>1. t.engine = 0 => Counted(t.route)
      BY <1>1 DEF TaskOK, Counted
    <3> QED
      BY <1>1, <2>2, <3>1 DEF TaskType
  <2> QED
    BY <2>1, <2>2, <2>3, <2>4, TaskGoesOn
<1> QED
  BY <1>2, <1>3 DEF Work

(* Inductive step: every action conserves the permits.                      *)
LEMMA PermitStep == PermitInv /\ [Next]_vars => PermitInv'
<1> SUFFICES ASSUME PermitInv, [Next]_vars PROVE PermitInv'
  OBVIOUS
<1>1. TypeInv'
  BY TypeStep DEF PermitInv
<1>2. ASSUME NEW c \in Clients, Arrive(c) PROVE PermitInv'
  BY <1>1, <1>2, ArriveNumbered
<1>3. ASSUME NEW c \in Clients, Serve(c) \/ TimeOut(c) PROVE PermitInv'
  BY <1>1, <1>3, ServeNumbered, ClearNumbered, SpawnNumbered DEF Serve
<1>4. ASSUME NEW t \in tasks, Work(t) PROVE PermitInv'
  BY <1>1, <1>4, WorkNumbered
<1>5. ASSUME UNCHANGED <<req, tasks, permits, gauge, requests>> PROVE PermitInv'
  <2>1. Onward
    BY <1>5 DEF Onward
  <2>2. \A c \in Clients : Admission(req[c])'
    BY <1>5 DEF PermitInv, Admission
  <2> QED
    BY <1>1, <1>5, <2>1, <2>2, OnwardKeepsNumbers, WorkersKept DEF PermitInv, workers
<1>6. ASSUME NEW e \in 1..Len(engines), Recovered(e) \/ DropEngine(e) PROVE PermitInv'
  BY <1>5, <1>6 DEF Recovered, DropEngine, workers, bookkeeping
<1>7. CASE UNCHANGED vars
  BY <1>5, <1>7 DEF vars
<1> QED
  BY <1>2, <1>3, <1>4, <1>6, <1>7 DEF Next

(* Permits are neither lost nor made, and the gauge never reports fewer     *)
(* workers than are running, for any number of permits, requests, imports,  *)
(* panics and time-outs (blocking_permit, finish_blocking).                 *)
THEOREM PermitsAreConserved == Spec => []PermitsConserved
<1>1. PermitInv => PermitsConserved
  BY DEF PermitInv
<1> QED
  BY <1>1, PermitsInitially, PermitStep, PTL DEF Spec

-----------------------------------------------------------------------------
(* What was acknowledged is served, as long as the default database is      *)
(* cleared at most once                                                     *)

Clearing(r) == r.route.runs = "clear"

(* No clear has run yet. *)
Before == clears = 0 \/ \E c \in Clients : Clearing(req[c])

ReqClean(r) ==
    /\ r.pc = "idle" => r = Idle
    /\ r.pc = "clear" => Clearing(r)

(* Of the requests at most one clears, and it is on its way only after it   *)
(* was counted.                                                             *)
ReqInv ==
    /\ \A c \in Clients : ReqClean(req[c])
    /\ \A c, d \in Clients : Clearing(req[c]) /\ Clearing(req[d]) => c = d
    /\ clears = 0 => \A c \in Clients : ~Clearing(req[c])

(* A directory that no clear has touched has one engine for ever, and that  *)
(* engine is in the pool and keeps the directory locked.                    *)
Steady(p) ==
    /\ pool[p] = dir[p]
    /\ dir[p] # 0 => p \in locked
    /\ \A e \in 1..Len(engines) : engines[e].path = p => e = dir[p]

(* An engine that is left over after a clear can still remove the lock of   *)
(* its successor, but only while the successor is the one in the pool.      *)
Settled(p) ==
    /\ p # Default \/ Before => Steady(p)
    /\ pool[p] # 0 => pool[p] = dir[p]
    /\ acked[p] # {} => dir[p] # 0 /\ acked[p] \subseteq engines[dir[p]].content
    /\ \A e \in 1..Len(engines) :
          engines[e].path = p /\ engines[e].open /\ e # dir[p] => pool[p] = dir[p]

(* A request or task that no clear has made void holds the engine of the    *)
(* directory or none, and none when the directory can be opened again.      *)
Current(r) ==
    ~r.void =>
        /\ r.engine # 0 => r.engine = dir[r.path]
        /\ r.must \subseteq acked[r.path]
        /\ pool[r.path] = 0 /\ r.path \notin locked => r.engine = 0

ServeInv ==
    /\ TypeInv
    /\ ReqInv
    /\ \A p \in Paths : Settled(p)
    /\ \A c \in Clients : Current(req[c])
    /\ \A t \in tasks : Current(t)

(* The request of a client that has sent nothing promises nothing. *)
LEMMA IdleServed ==
    ASSUME TypeInv
    PROVE  ReqClean(Idle) /\ ~Clearing(Idle) /\ Current(Idle) /\ Current(Idle)'
<1>1. ReqClean(Idle) /\ ~Clearing(Idle)
  BY DEF ReqClean, Clearing, Idle, NoRoute, Read, Route
<1>2. Current(Idle) /\ Current(Idle)'
  BY DEF Current, Idle
<1> QED
  BY <1>1, <1>2

(* Startup: the default database is open and serves what it holds. *)
LEMMA ServeInitially == Init => ServeInv
<1> SUFFICES ASSUME Init PROVE ServeInv
  OBVIOUS
<1>1. TypeInv
  BY TypeInitially
<1>2. ReqInv
  BY <1>1, IdleServed DEF Init, ReqInv
<1>3. Len(engines) = 1 /\ engines[1].path = Default
  BY DEF Init
<1>4. ASSUME NEW p \in Paths PROVE Settled(p)
  <2>1. pool[p] = dir[p] /\ pool[p] = IF p = Default THEN 1 ELSE 0
    BY DEF Init
  <2>2. locked = {Default}
    BY DEF Init
  <2>3. Steady(p)
    BY <1>3, <2>1, <2>2 DEF Steady
  <2>4. acked[p] = IF p = Default THEN engines[1].content ELSE {}
    BY DEF Init
  <2>5. acked[p] # {} => dir[p] # 0 /\ acked[p] \subseteq engines[dir[p]].content
    BY <2>1, <2>4
  <2> QED
    BY <2>1, <2>3, <2>5 DEF Settled
<1>5. (\A c \in Clients : Current(req[c])) /\ \A t \in tasks : Current(t)
  BY <1>1, IdleServed DEF Init
<1> QED
  BY <1>1, <1>2, <1>4, <1>5 DEF ServeInv

(* One request goes on or is answered. *)
LEMMA RequestGoesOn ==
    ASSUME ReqInv, NEW c \in Clients, NEW r, req' = [req EXCEPT ![c] = r],
           req \in [Clients -> RequestType], ReqClean(r), Clearing(r) => Clearing(req[c]),
           clears' = clears
    PROVE  ReqInv' /\ (Before' => Before)
<1>1. \A d \in Clients : req'[d] = IF d = c THEN r ELSE req[d]
  OBVIOUS
<1>2. \A d \in Clients : Clearing(req'[d]) => Clearing(req[d])
  BY <1>1
<1>3. \A d \in Clients : ReqClean(req'[d])
  BY <1>1 DEF ReqInv
<1>4. \A d \in Clients : ReqClean(req[d])'
  BY <1>3 DEF ReqClean, Clearing
<1>5. \A d, x \in Clients : Clearing(req'[d]) /\ Clearing(req'[x]) => d = x
  BY <1>2 DEF ReqInv
<1>6. clears' = 0 => \A d \in Clients : ~Clearing(req'[d])
  BY <1>2 DEF ReqInv
<1>7. Before' => Before
  BY <1>2 DEF Before, Clearing
<1> QED
  BY <1>4, <1>5, <1>6, <1>7 DEF ReqInv, Clearing

(* No request changes. *)
LEMMA RequestsStay ==
    ASSUME ReqInv, UNCHANGED <<req, clears>> PROVE ReqInv' /\ (Before' => Before)
BY DEF ReqInv, Before, ReqClean, Clearing

(* A step that leaves the pool and the directories alone. *)
Working ==
    /\ UNCHANGED <<pool, dir, locked>>
    /\ Len(engines') = Len(engines)
    /\ \A e \in 1..Len(engines) :
          /\ engines'[e].path = engines[e].path /\ engines'[e].open = engines[e].open
          /\ engines[e].content \subseteq engines'[e].content
    /\ \A p \in Paths : acked[p] \subseteq acked'[p]

(* It keeps every directory settled, provided what it acknowledges is in    *)
(* the engine of the directory.                                             *)
LEMMA WorkingSettles ==
    ASSUME ServeInv, Working, Before' => Before,
           \A p \in Paths : acked'[p] # acked[p] =>
               dir[p] # 0 /\ acked'[p] \subseteq engines'[dir[p]].content
    PROVE  \A p \in Paths : Settled(p)'
<1> SUFFICES ASSUME NEW p \in Paths PROVE Settled(p)'
  OBVIOUS
<1>0. Settled(p) /\ dir[p] \in 0..Len(engines)
  BY DEF ServeInv, TypeInv
<1>1. (p # Default \/ Before)' => Steady(p)'
  BY <1>0 DEF Settled, Steady, Working
<1>2. (pool[p] # 0 => pool[p] = dir[p])'
  BY <1>0 DEF Settled, Working
<1>3. (acked[p] # {} => dir[p] # 0 /\ acked[p] \subseteq engines[dir[p]].content)'
  <2>1. CASE acked'[p] = acked[p]
    <3>1. dir[p] # 0 => engines[dir[p]].content \subseteq engines'[dir[p]].content
      <4>1. dir[p] # 0 => dir[p] \in 1..Len(engines)
        BY <1>0 DEF ServeInv, TypeInv
      <4> QED
        BY <4>1 DEF Working
    <3> QED
      BY <1>0, <2>1, <3>1 DEF Settled, Working
  <2>2. CASE acked'[p] # acked[p]
    BY <2>2 DEF Working
  <2> QED
    BY <2>1, <2>2
<1>4. (\A e \in 1..Len(engines) :
          engines[e].path = p /\ engines[e].open /\ e # dir[p] => pool[p] = dir[p])'
  BY <1>0 DEF Settled, Working
<1> QED
  BY <1>1, <1>2, <1>3, <1>4 DEF Settled

(* And whoever was current. *)
LEMMA WorkingKeeps ==
    ASSUME Working, NEW r, r.path \in Paths, Current(r) PROVE Current(r)'
BY DEF Current, Working

(* A request or task that takes the engine out of the pool, or gives its    *)
(* engine back, stays current.                                              *)
LEMMA TakesCurrent ==
    ASSUME ServeInv, Working, NEW r, NEW s, r.path \in Paths, Current(r),
           s.path = r.path, s.void = r.void, s.must = r.must,
           s.engine \in {0, r.engine, pool[r.path]}
    PROVE  Current(s)'
<1>1. Settled(r.path)
  BY DEF ServeInv
<1>2. Current(s)
  BY <1>1 DEF Settled, Current
<1> QED
  BY <1>2, WorkingKeeps

(* What a step has acknowledged is in the engine of the directory. *)
AcksServed ==
    \A p \in Paths : acked'[p] # acked[p] =>
        dir[p] # 0 /\ acked'[p] \subseteq engines'[dir[p]].content

(* A step that works on one request and on tasks. *)
LEMMA RequestServed ==
    ASSUME ServeInv, TypeInv', Working, AcksServed, clears' = clears,
           NEW c \in Clients, NEW r, req' = [req EXCEPT ![c] = r],
           ReqClean(r), Clearing(r) => Clearing(req[c]), Current(r)',
           \A t \in tasks' : t \in tasks \/ Current(t)'
    PROVE  ServeInv'
<1>1. req \in [Clients -> RequestType] /\ tasks \subseteq TaskType
  BY DEF ServeInv, TypeInv
<1>2. ReqInv' /\ (Before' => Before)
  BY <1>1, RequestGoesOn DEF ServeInv
<1>3. \A p \in Paths : Settled(p)'
  BY <1>2, WorkingSettles DEF AcksServed
<1>4. \A d \in Clients : Current(req[d])'
  <2> SUFFICES ASSUME NEW d \in Clients, d # c PROVE Current(req[d])'
    BY <1>1
  <2>1. req'[d] = req[d] /\ req[d].path \in Paths /\ Current(req[d])
    BY <1>1 DEF ServeInv, RequestType
  <2>2. Current(req[d])
    BY <2>1
  <2> DEFINE x == req[d]
  <2>3. ASSUME NEW y, y = req[d] PROVE Current(y)'
    BY <2>1, <2>3, WorkingKeeps
  <2> QED
    BY <2>1, <2>3 DEF Current
<1>5. \A t \in tasks' : Current(t)'
  BY <1>1, WorkingKeeps DEF ServeInv, TaskType
<1> QED
  BY <1>2, <1>3, <1>4, <1>5 DEF ServeInv

(* A step that works on tasks alone. *)
LEMMA TasksServed ==
    ASSUME ServeInv, TypeInv', Working, AcksServed, UNCHANGED <<clears, req>>,
           \A t \in tasks' : t \in tasks \/ Current(t)'
    PROVE  ServeInv'
<1>1. req \in [Clients -> RequestType] /\ tasks \subseteq TaskType
  BY DEF ServeInv, TypeInv
<1>2. ReqInv' /\ (Before' => Before)
  BY RequestsStay DEF ServeInv
<1>3. \A p \in Paths : Settled(p)'
  BY <1>2, WorkingSettles DEF AcksServed
<1>4. \A d \in Clients : Current(req[d])'
  <2> SUFFICES ASSUME NEW d \in Clients PROVE Current(req[d])'
    OBVIOUS
  <2>1. req'[d] = req[d] /\ req[d].path \in Paths /\ Current(req[d])
    BY <1>1 DEF ServeInv, RequestType
  <2>2. ASSUME NEW y, y = req[d] PROVE Current(y)'
    BY <2>1, <2>2, WorkingKeeps
  <2> QED
    BY <2>1, <2>2 DEF Current
<1>5. \A t \in tasks' : Current(t)'
  BY <1>1, WorkingKeeps DEF ServeInv, TaskType
<1> QED
  BY <1>2, <1>3, <1>4, <1>5 DEF ServeInv

(* Nothing moves in the store. *)
LEMMA StoreStays ==
    ASSUME TypeInv, UNCHANGED <<store, acked>> PROVE Working /\ AcksServed
BY DEF store, Working, AcksServed, TypeInv

(* An engine's state moves, or it takes effects in. *)
LEMMA EngineWorks ==
    ASSUME TypeInv, UNCHANGED <<pool, dir, locked>>, NEW e \in 1..Len(engines), NEW x,
           engines' = [engines EXCEPT ![e] = x],
           x.path = engines[e].path, x.open = engines[e].open,
           engines[e].content \subseteq x.content,
           \A p \in Paths : acked[p] \subseteq acked'[p]
    PROVE  Working
<1>1. engines \in Seq(EngineType)
  BY DEF TypeInv
<1>2. Len(engines') = Len(engines) /\ \A i \in 1..Len(engines) : engines'[i] = IF i = e THEN x ELSE engines[i]
  BY <1>1
<1> QED
  BY <1>2 DEF Working

(* The steps of a request that leave the store alone. *)
LEMMA MoveServed ==
    ASSUME ServeInv, TypeInv', NEW c \in Clients,
           \/ FastPath(c) \/ Miss(c) \/ OpenFails(c) \/ Fetched(c) \/ Overloaded(c) \/ TimeOut(c)
           \/ SlowPath(c) /\ pool[req[c].path] # 0
    PROVE  ServeInv'
<1>1. UNCHANGED <<store, acked, clears, tasks>>
  BY DEF FastPath, Miss, OpenFails, Fetched, Overloaded, TimeOut, SlowPath, workers, bookkeeping
<1>2. Working /\ AcksServed
  BY <1>1, StoreStays DEF ServeInv
<1>3. req \in [Clients -> RequestType] /\ req[c] \in RequestType /\ TypeInv /\ Current(req[c])
      /\ RequestOK(req[c])
  BY DEF ServeInv, TypeInv
<1>4. CASE Answer(c)
  BY <1>1, <1>2, <1>3, <1>4, IdleServed, RequestServed DEF Answer
<1>5. CASE /\ req[c].pc \in {"lookup", "slow", "fetch"} /\ req' = [req EXCEPT ![c].pc = "slow"]
  <2>0. PICK r : r = [req[c] EXCEPT !.pc = "slow"]
    OBVIOUS
  <2>1. req' = [req EXCEPT ![c] = r]
    BY <1>3, <1>5, <2>0
  <2>2. ReqClean(r) /\ (Clearing(r) => Clearing(req[c]))
    BY <1>3, <2>0 DEF ReqClean, Clearing, RequestType
  <2>3. r.path = req[c].path /\ r.void = req[c].void /\ r.must = req[c].must /\ r.engine = req[c].engine
    BY <1>3, <2>0 DEF RequestType
  <2>4. Current(r)'
    BY <1>2, <1>3, <2>3, TakesCurrent DEF RequestType
  <2> QED
    BY <1>1, <1>2, <2>1, <2>2, <2>4, RequestServed
<1>6. CASE req[c].pc = "fetch" /\ req' = [req EXCEPT ![c].pc = "lookup"]
  <2>0. PICK r : r = [req[c] EXCEPT !.pc = "lookup"]
    OBVIOUS
  <2>1. req' = [req EXCEPT ![c] = r]
    BY <1>3, <1>6, <2>0
  <2>2. ReqClean(r) /\ (Clearing(r) => Clearing(req[c]))
    BY <1>3, <2>0 DEF ReqClean, Clearing, RequestType
  <2>3. r.path = req[c].path /\ r.void = req[c].void /\ r.must = req[c].must /\ r.engine = req[c].engine
    BY <1>3, <2>0 DEF RequestType
  <2>4. Current(r)'
    BY <1>2, <1>3, <2>3, TakesCurrent DEF RequestType
  <2> QED
    BY <1>1, <1>2, <2>1, <2>2, <2>4, RequestServed
<1>7. CASE req[c].pc \in {"lookup", "slow"} /\ Holding(c, pool[req[c].path])
  <2>0. PICK r : r = [req[c] EXCEPT !.pc = req[c].then, !.engine = pool[req[c].path]]
    OBVIOUS
  <2>1. req' = [req EXCEPT ![c] = r]
    BY <1>3, <1>7, <2>0 DEF Holding, RequestType
  <2>2. ReqClean(r) /\ (Clearing(r) => Clearing(req[c]))
    BY <1>3, <1>7, <2>0 DEF ReqClean, Clearing, RequestType, RequestOK
  <2>3. r.path = req[c].path /\ r.void = req[c].void /\ r.must = req[c].must /\ r.engine = pool[req[c].path]
    BY <1>3, <2>0 DEF RequestType
  <2>4. Current(r)'
    BY <1>2, <1>3, <2>3, TakesCurrent DEF RequestType
  <2> QED
    BY <1>1, <1>2, <2>1, <2>2, <2>4, RequestServed
<1> QED
  BY <1>4, <1>5, <1>6, <1>7 DEF FastPath, Miss, OpenFails, Fetched, Overloaded, TimeOut, SlowPath

(* A request arrives; the one clear there may be is counted. *)
LEMMA ArriveServed ==
    ASSUME MaxClears <= 1, ServeInv, TypeInv', NEW c \in Clients, Arrive(c) PROVE ServeInv'
<1>1. UNCHANGED <<store, acked, tasks>> /\ req[c].pc = "idle"
  BY DEF Arrive, workers
<1>2. Working /\ AcksServed
  BY <1>1, StoreStays DEF ServeInv
<1>3. req \in [Clients -> RequestType] /\ TypeInv /\ clears \in Nat /\ tasks \subseteq TaskType
      /\ acked \in [Paths -> SUBSET Lawful]
  BY DEF ServeInv, TypeInv
<1>4. PICK route \in RouteSet, p \in Paths :
        /\ route.runs = "clear" => clears < MaxClears
        /\ req' = [req EXCEPT ![c] =
                 [pc |-> IF route.gate # "open" THEN "lookup" ELSE AfterGate(route),
                  then |-> IF route.gate # "open" THEN "check" ELSE AfterLookup(route),
                  route |-> [route EXCEPT !.reads = {}], path |-> p, engine |-> 0,
                  id |-> requests + 1, void |-> FALSE,
                  must |-> {x \in acked[p] : x[2] \in route.reads}, left |-> MaxRecords]]
  BY DEF Arrive
<1>5. route \in Carried
  BY RouteSetCarried
<1>6. /\ Clearing(req'[c]) <=> route.runs = "clear"
      /\ req'[c].pc = IF route.gate # "open" THEN "lookup" ELSE AfterGate(route)
      /\ req'[c].path = p /\ req'[c].engine = 0 /\ req'[c].must \subseteq acked[p]
  BY <1>3, <1>4, <1>5 DEF Clearing, Carried
<1>7. ReqClean(req'[c])
  BY <1>6 DEF ReqClean, AfterGate, Clearing
<1>8. \A d \in Clients : d # c => req'[d] = req[d]
  BY <1>3, <1>4
<1>9. clears' = IF Clearing(req'[c]) THEN clears + 1 ELSE clears
  BY DEF Arrive, Clearing
<1>10. Clearing(req'[c]) => clears = 0
  BY <1>3, <1>4, <1>6, ServerAssumption
<1>11. ReqInv'
  <2>1. \A d \in Clients : ReqClean(req'[d])
    BY <1>7, <1>8 DEF ServeInv, ReqInv
  <2>2. \A d \in Clients : ReqClean(req[d])'
    BY <2>1 DEF ReqClean, Clearing
  <2>3. \A d, x \in Clients : Clearing(req'[d]) /\ Clearing(req'[x]) => d = x
    BY <1>8, <1>10 DEF ServeInv, ReqInv
  <2>4. clears' = 0 => \A d \in Clients : ~Clearing(req'[d])
    BY <1>3, <1>8, <1>9 DEF ServeInv, ReqInv
  <2> QED
    BY <2>2, <2>3, <2>4 DEF ReqInv, Clearing
<1>12. Before' => Before
  <2>1. Before' => clears' = 0 \/ \E d \in Clients : Clearing(req'[d])
    BY DEF Before, Clearing
  <2> QED
    BY <1>3, <1>8, <1>9, <1>10, <2>1 DEF Before
<1>13. \A q \in Paths : Settled(q)'
  BY <1>2, <1>12, WorkingSettles DEF AcksServed
<1>14. \A d \in Clients : Current(req[d])'
  <2>1. Current(req[c])'
    BY <1>1, <1>6 DEF Current
  <2>2. ASSUME NEW d \in Clients, d # c PROVE Current(req[d])'
    <3>1. req'[d] = req[d] /\ req[d].path \in Paths /\ Current(req[d])
      BY <1>3, <1>8, <2>2 DEF ServeInv, RequestType
    <3>2. ASSUME NEW y, y = req[d] PROVE Current(y)'
      BY <1>2, <3>1, <3>2, WorkingKeeps
    <3> QED
      BY <3>1, <3>2 DEF Current
  <2> QED
    BY <2>1, <2>2
<1>15. \A t \in tasks' : Current(t)'
  BY <1>1, <1>2, <1>3, WorkingKeeps DEF ServeInv, TaskType
<1> QED
  BY <1>11, <1>13, <1>14, <1>15 DEF ServeInv

(* A write leaves path and lock of its engine alone. *)
LEMMA WithWorks ==
    ASSUME TypeInv, UNCHANGED <<pool, dir, locked>>, NEW e \in 1..Len(engines), NEW id, NEW parts,
           NEW gate, engines' = With(e, id, parts, gate),
           \A p \in Paths : acked[p] \subseteq acked'[p]
    PROVE  Working
<1> DEFINE x == [engines[e] EXCEPT !.content = @ \cup {<<id, p, gate>> : p \in parts}]
<1>1. engines[e] \in EngineType
  BY DEF TypeInv
<1>2. x.path = engines[e].path /\ x.open = engines[e].open /\ engines[e].content \subseteq x.content
  BY <1>1 DEF EngineType
<1>3. engines' = [engines EXCEPT ![e] = x]
  BY DEF With
<1> HIDE DEF x
<1> QED
  BY <1>2, <1>3, EngineWorks

(* What a request or a task that is current has written to its engine may   *)
(* be acknowledged.                                                         *)
LEMMA AckServed ==
    ASSUME ServeInv, NEW r, r.path \in Paths, Current(r), r.engine # 0,
           UNCHANGED <<pool, dir, locked>>, Working \/ engines' = engines,
           acked' = Ack(r, engines', r.engine)
    PROVE  AcksServed /\ \A p \in Paths : acked[p] \subseteq acked'[p]
<1>1. acked \in [Paths -> SUBSET Lawful] /\ dir \in [Paths -> 0..Len(engines)]
      /\ engines \in Seq(EngineType)
  BY DEF ServeInv, TypeInv
<1>2. CASE r.void
  BY <1>2 DEF Ack, AcksServed
<1>3. CASE ~r.void
  <2>1. r.engine = dir[r.path]
    BY <1>3 DEF Current
  <2>2. acked' = [acked EXCEPT ![r.path] = @ \cup {x \in engines'[r.engine].content : x[1] = r.id}]
    BY <1>3 DEF Ack
  <2>3. \A p \in Paths : p # r.path => acked'[p] = acked[p]
    BY <1>1, <2>2
  <2>4. acked'[r.path] = acked[r.path] \cup {x \in engines'[r.engine].content : x[1] = r.id}
    BY <1>1, <2>2
  <2>5. acked[r.path] \subseteq engines'[dir[r.path]].content
    <3>1. Settled(r.path) /\ dir[r.path] \in 1..Len(engines)
      BY <1>1, <2>1 DEF ServeInv
    <3>2. engines[dir[r.path]].content \subseteq engines'[dir[r.path]].content
      BY <3>1 DEF Working
    <3> QED
      BY <3>1, <3>2 DEF Settled
  <2> QED
    BY <2>1, <2>3, <2>4, <2>5 DEF AcksServed
<1> QED
  BY <1>2, <1>3

(* The gate of a write. *)
LEMMA CheckServed ==
    ASSUME ServeInv, TypeInv', NEW c \in Clients, Check(c) PROVE ServeInv'
<1> DEFINE e == req[c].engine
<1>1. /\ UNCHANGED <<pool, dir, locked, acked, clears, tasks>> /\ req[c].pc = "check"
  BY DEF Check, workers, bookkeeping
<1>2. req \in [Clients -> RequestType] /\ req[c] \in RequestType /\ TypeInv /\ Current(req[c])
      /\ RequestOK(req[c])
  BY DEF ServeInv, TypeInv
<1>3. e \in 1..Len(engines) /\ engines[e] \in EngineType
  BY <1>1, <1>2 DEF RequestType, RequestOK, TypeInv
<1>4. Working /\ AcksServed
  <2>1. PICK s : engines' = [engines EXCEPT ![e].state = s]
    BY DEF Check
  <2>2. PICK x : x = [engines[e] EXCEPT !.state = s]
    OBVIOUS
  <2>3. /\ engines' = [engines EXCEPT ![e] = x]
        /\ x.path = engines[e].path /\ x.open = engines[e].open /\ engines[e].content \subseteq x.content
    BY <1>3, <2>1, <2>2 DEF EngineType
  <2>4. \A p \in Paths : acked[p] \subseteq acked'[p]
    BY <1>1
  <2> HIDE DEF e
  <2>5. Working
    BY <1>1, <1>2, <1>3, <2>3, <2>4, EngineWorks
  <2> QED
    BY <1>1, <2>5 DEF AcksServed
<1>5. CASE Answer(c)
  BY <1>1, <1>2, <1>4, <1>5, IdleServed, RequestServed DEF Answer
<1>6. CASE req' = [req EXCEPT ![c].pc = AfterGate(req[c].route),
                              ![c].then = AfterLookup(req[c].route), ![c].engine = 0]
  <2>0. PICK r : r = [req[c] EXCEPT !.pc = AfterGate(req[c].route),
                                    !.then = AfterLookup(req[c].route), !.engine = 0]
    OBVIOUS
  <2>1. req' = [req EXCEPT ![c] = r]
    BY <1>2, <1>6, <2>0
  <2>2. ReqClean(r) /\ (Clearing(r) => Clearing(req[c]))
    BY <1>2, <2>0 DEF ReqClean, Clearing, RequestType, AfterGate
  <2>3. r.path = req[c].path /\ r.void = req[c].void /\ r.must = req[c].must /\ r.engine = 0
    BY <1>2, <2>0 DEF RequestType
  <2>4. Current(r)'
    BY <1>2, <1>4, <2>3, TakesCurrent DEF RequestType
  <2> QED
    BY <1>1, <1>4, <2>1, <2>2, <2>4, RequestServed
<1> QED
  BY <1>5, <1>6 DEF Check

(* A handler that runs inline, and the log entry of a tool. *)
LEMMA HandleServed ==
    ASSUME ServeInv, TypeInv', NEW c \in Clients, Handle(c) \/ After(c) PROVE ServeInv'
<1>1. UNCHANGED <<pool, dir, locked, clears, tasks>> /\ req[c].pc \in {"handle", "after"}
  BY DEF Handle, After, workers, bookkeeping
<1>2. req \in [Clients -> RequestType] /\ req[c] \in RequestType /\ TypeInv /\ Current(req[c])
      /\ RequestOK(req[c])
  BY DEF ServeInv, TypeInv
<1>3. req[c].engine \in 1..Len(engines) /\ req[c].path \in Paths /\ req[c].engine # 0
  BY <1>1, <1>2 DEF RequestType, RequestOK, TypeInv
<1>4. PICK parts : engines' = With(req[c].engine, req[c].id, parts, req[c].route.gate)
  BY DEF Handle, After
<1>5. PICK x : x = req[c]
  OBVIOUS
<1>6. UNCHANGED acked \/ acked' = Ack(x, engines', x.engine)
  BY <1>5 DEF Handle, After
<1>7. \A p \in Paths : acked[p] \subseteq acked'[p]
  <2>1. acked \in [Paths -> SUBSET Lawful] /\ x.path \in Paths
    BY <1>2, <1>3, <1>5 DEF TypeInv
  <2>2. \/ UNCHANGED acked
        \/ acked' = [acked EXCEPT ![x.path] = @ \cup {y \in engines'[x.engine].content : y[1] = x.id}]
    BY <1>6 DEF Ack
  <2> QED
    BY <2>1, <2>2
<1>8. Working
  BY <1>1, <1>2, <1>3, <1>4, <1>7, WithWorks
<1>9. AcksServed
  <2>1. CASE UNCHANGED acked
    BY <2>1 DEF AcksServed
  <2>2. CASE acked' = Ack(x, engines', x.engine)
    BY <1>1, <1>2, <1>3, <1>5, <1>8, <2>2, AckServed
  <2> QED
    BY <1>6, <2>1, <2>2
<1>10. CASE Answer(c)
  BY <1>1, <1>2, <1>8, <1>9, <1>10, IdleServed, RequestServed DEF Answer
<1>11. CASE req' = [req EXCEPT ![c].pc = "lookup", ![c].then = "after", ![c].engine = 0]
  <2>0. PICK r : r = [req[c] EXCEPT !.pc = "lookup", !.then = "after", !.engine = 0]
    OBVIOUS
  <2>1. req' = [req EXCEPT ![c] = r]
    BY <1>2, <1>11, <2>0
  <2>2. ReqClean(r) /\ (Clearing(r) => Clearing(req[c]))
    BY <1>2, <2>0 DEF ReqClean, Clearing, RequestType
  <2>3. r.path = req[c].path /\ r.void = req[c].void /\ r.must = req[c].must /\ r.engine = 0
    BY <1>2, <2>0 DEF RequestType
  <2>4. Current(r)'
    BY <1>2, <1>3, <1>8, <2>3, TakesCurrent
  <2> QED
    BY <1>1, <1>8, <1>9, <2>1, <2>2, <2>4, RequestServed
<1> QED
  BY <1>10, <1>11 DEF Handle, After

(* A blocking task takes over the engine of its request. *)
LEMMA SpawnServed ==
    ASSUME ServeInv, TypeInv', NEW c \in Clients, Admit(c) \/ Spawn(c) PROVE ServeInv'
<1>1. /\ UNCHANGED <<store, acked, clears>> /\ tasks' = tasks \cup {Task(c)}
      /\ Answer(c) \/ req' = [req EXCEPT ![c].pc = "await"]
  BY DEF Admit, Spawn, bookkeeping
<1>2. req \in [Clients -> RequestType] /\ req[c] \in RequestType /\ TypeInv /\ Current(req[c])
  BY DEF ServeInv, TypeInv
<1>3. Working /\ AcksServed
  BY <1>1, <1>2, StoreStays
<1>4. PICK t : t = Task(c)
  OBVIOUS
<1>5. t.path = req[c].path /\ t.void = req[c].void /\ t.must = req[c].must /\ t.engine = req[c].engine
  BY <1>4 DEF Task
<1>6. Current(t)'
  BY <1>2, <1>3, <1>5, TakesCurrent DEF RequestType
<1>7. \A u \in tasks' : u \in tasks \/ Current(u)'
  BY <1>1, <1>4, <1>6
<1>8. CASE Answer(c)
  BY <1>1, <1>2, <1>3, <1>7, <1>8, IdleServed, RequestServed DEF Answer
<1>9. CASE req' = [req EXCEPT ![c].pc = "await"]
  <2>1. PICK r : r = [req[c] EXCEPT !.pc = "await"]
    OBVIOUS
  <2>2. req' = [req EXCEPT ![c] = r]
    BY <1>2, <1>9, <2>1
  <2>3. ReqClean(r) /\ (Clearing(r) => Clearing(req[c]))
    BY <1>2, <2>1 DEF ReqClean, Clearing, RequestType
  <2>4. r.path = req[c].path /\ r.void = req[c].void /\ r.must = req[c].must /\ r.engine = req[c].engine
    BY <1>2, <2>1 DEF RequestType
  <2>5. Current(r)'
    BY <1>2, <1>3, <2>4, TakesCurrent DEF RequestType
  <2> QED
    BY <1>1, <1>3, <1>7, <2>2, <2>3, <2>5, RequestServed
<1> QED
  BY <1>1, <1>8, <1>9

(* The work of a task in the store, and its end. *)
LEMMA WorkServed ==
    ASSUME ServeInv, TypeInv', NEW t \in tasks,
           TaskLookup(t) \/ TaskPanics(t) \/ RunTask(t) \/ BadRecord(t) \/ EndTask(t)
    PROVE  ServeInv'
<1>1. t \in TaskType /\ TaskOK(t) /\ Current(t) /\ TypeInv /\ t.path \in Paths /\ t.client \in Clients
      /\ t.engine \in 0..Len(engines)
  BY DEF ServeInv, TypeInv, TaskType
<1>2. ASSUME NEW u, tasks' = (tasks \ {t}) \cup {u}, Working, AcksServed, UNCHANGED <<clears, req>>,
             u.path = t.path, u.void = t.void, u.must = t.must, u.engine \in {0, t.engine, pool[t.path]}
      PROVE  ServeInv'
  <2>1. Current(u)'
    BY <1>1, <1>2, TakesCurrent
  <2>2. \A x \in tasks' : x \in tasks \/ Current(x)'
    BY <1>2, <2>1
  <2> QED
    BY <1>2, <2>2, TasksServed
<1>3. CASE TaskLookup(t)
  <2>0. PICK u : u = [t EXCEPT !.engine = pool[t.path]]
    OBVIOUS
  <2>1. UNCHANGED <<store, acked, clears, req>> /\ tasks' = (tasks \ {t}) \cup {u}
    BY <1>3, <2>0 DEF TaskLookup, bookkeeping
  <2>2. u.path = t.path /\ u.void = t.void /\ u.must = t.must /\ u.engine \in {0, t.engine, pool[t.path]}
    BY <1>1, <2>0 DEF TaskType
  <2> QED
    BY <1>1, <1>2, <2>1, <2>2, StoreStays
<1>4. CASE TaskPanics(t) \/ BadRecord(t)
  <2>0. PICK u : u = [t EXCEPT !.stage = "drop"]
    OBVIOUS
  <2>1. UNCHANGED <<store, acked, clears, req>> /\ tasks' = (tasks \ {t}) \cup {u}
    BY <1>4, <2>0 DEF TaskPanics, BadRecord, bookkeeping
  <2>2. u.path = t.path /\ u.void = t.void /\ u.must = t.must /\ u.engine \in {0, t.engine, pool[t.path]}
    BY <1>1, <2>0 DEF TaskType
  <2> QED
    BY <1>1, <1>2, <2>1, <2>2, StoreStays
<1>5. CASE RunTask(t)
  <2>1. UNCHANGED <<pool, dir, locked, acked, clears, req>> /\ t.engine # 0
    BY <1>5 DEF RunTask, bookkeeping
  <2>2. PICK o : /\ engines' = With(t.engine, t.id, o.parts, t.route.gate)
                 /\ tasks' = (tasks \ {t}) \cup {[t EXCEPT !.stage = "drop", !.ok = o.ok]}
    BY <1>5 DEF RunTask
  <2>3. PICK u : u = [t EXCEPT !.stage = "drop", !.ok = o.ok]
    OBVIOUS
  <2>4. u.path = t.path /\ u.void = t.void /\ u.must = t.must /\ u.engine \in {0, t.engine, pool[t.path]}
    BY <1>1, <2>3 DEF TaskType
  <2>5. t.engine \in 1..Len(engines)
    BY <1>1, <2>1 DEF TypeInv
  <2>6. Working
    BY <1>1, <2>1, <2>2, <2>5, WithWorks
  <2> QED
    BY <1>2, <2>1, <2>2, <2>3, <2>4, <2>6 DEF AcksServed
<1>6. CASE EndTask(t)
  <2>1. UNCHANGED <<store, clears>> /\ tasks' = tasks \ {t}
    BY <1>6 DEF EndTask, bookkeeping
  <2>2. UNCHANGED <<pool, dir, locked, engines>>
    BY <2>1 DEF store
  <2>3. UNCHANGED acked \/ (t.ok /\ acked' = Ack(t, engines', t.engine))
    BY <1>6, <2>2 DEF EndTask
  <2>4. AcksServed /\ \A p \in Paths : acked[p] \subseteq acked'[p]
    <3>1. CASE UNCHANGED acked
      BY <3>1 DEF AcksServed
    <3>2. CASE t.ok /\ acked' = Ack(t, engines', t.engine)
      BY <1>1, <2>2, <3>2, AckServed DEF TaskOK
    <3> QED
      BY <2>3, <3>1, <3>2
  <2>5. Working
    BY <2>2, <2>4 DEF Working
  <2>6. \A u \in tasks' : u \in tasks \/ Current(u)'
    BY <2>1
  <2>7. CASE UNCHANGED req
    BY <2>1, <2>4, <2>5, <2>6, <2>7, TasksServed
  <2>8. CASE Answer(t.client)
    BY <1>1, <2>1, <2>4, <2>5, <2>6, <2>8, IdleServed, RequestServed DEF Answer
  <2>9. CASE req' = [req EXCEPT ![t.client].pc = "admit", ![t.client].left = @ - 1]
    <3>1. PICK c \in Clients : c = t.client
      BY <1>1
    <3>2. req \in [Clients -> RequestType] /\ req[c] \in RequestType /\ Current(req[c])
      BY <1>1 DEF ServeInv, TypeInv
    <3>3. PICK r : r = [req[c] EXCEPT !.pc = "admit", !.left = @ - 1]
      OBVIOUS
    <3>4. req' = [req EXCEPT ![c] = r]
      BY <2>9, <3>1, <3>2, <3>3
    <3>5. ReqClean(r) /\ (Clearing(r) => Clearing(req[c]))
      BY <3>2, <3>3 DEF ReqClean, Clearing, RequestType
    <3>6. r.path = req[c].path /\ r.void = req[c].void /\ r.must = req[c].must /\ r.engine = req[c].engine
      BY <3>2, <3>3 DEF RequestType
    <3>7. Current(r)'
      BY <2>5, <3>2, <3>6, TakesCurrent DEF RequestType
    <3> QED
      BY <2>1, <2>4, <2>5, <2>6, <3>4, <3>5, <3>7, RequestServed
  <2> QED
    BY <1>6, <2>7, <2>8, <2>9 DEF EndTask
<1> QED
  BY <1>3, <1>4, <1>5, <1>6

(* An engine is opened: nobody that counts holds the one before it, and it  *)
(* takes over what the directory holds.                                     *)
LEMMA OpenedServed ==
    ASSUME ServeInv, UNCHANGED <<acked, clears>>, NEW p \in Paths, pool[p] = 0, Opened(p),
           Before' => Before
    PROVE  /\ \A q \in Paths : Settled(q)'
           /\ \A r : r.path \in Paths /\ Current(r) => Current(r)'
           /\ dir'[p] = Len(engines) + 1 /\ pool'[p] = Len(engines) + 1
           /\ Len(engines) + 1 # 0
<1>1. /\ engines \in Seq(EngineType) /\ pool \in [Paths -> 0..Len(engines)]
      /\ dir \in [Paths -> 0..Len(engines)] /\ Len(engines) \in Nat
  BY DEF ServeInv, TypeInv
<1>2. PICK s : engines' = Append(engines,
            [path |-> p, state |-> s, open |-> TRUE,
             content |-> IF dir[p] = 0 THEN {} ELSE engines[dir[p]].content])
  BY DEF Opened
<1>3. PICK n : n = Len(engines) + 1
  OBVIOUS
<1>4. /\ Len(engines') = n /\ n \in Nat \ {0}
      /\ \A e \in 1..Len(engines) : engines'[e] = engines[e] /\ e # n
      /\ engines'[n].path = p /\ engines'[n].content = IF dir[p] = 0 THEN {} ELSE engines[dir[p]].content
      /\ 1..Len(engines') = 1..Len(engines) \cup {n}
  BY <1>1, <1>2, <1>3
<1>5. /\ dir'[p] = n /\ pool'[p] = n /\ locked' = locked \cup {p} /\ p \notin locked
      /\ \A q \in Paths : q # p => dir'[q] = dir[q] /\ pool'[q] = pool[q]
  BY <1>1, <1>3 DEF Opened
<1>6. Settled(p)
  BY DEF ServeInv
<1>7. Settled(p)'
  <2>1. (p # Default \/ Before)' => Steady(p)'
    <3> SUFFICES ASSUME p # Default \/ Before PROVE Steady(p)'
      OBVIOUS
    <3>1. dir[p] = 0 /\ \A e \in 1..Len(engines) : engines[e].path # p
      BY <1>1, <1>6 DEF Settled, Steady
    <3> QED
      BY <1>4, <1>5, <3>1 DEF Steady
  <2>2. (acked[p] # {} => dir[p] # 0 /\ acked[p] \subseteq engines[dir[p]].content)'
    BY <1>4, <1>5, <1>6 DEF Settled
  <2> QED
    BY <1>5, <2>1, <2>2 DEF Settled
<1>8. ASSUME NEW q \in Paths, q # p PROVE Settled(q)'
  <2>1. Settled(q) /\ dir[q] \in 0..Len(engines)
    BY <1>1 DEF ServeInv
  <2>2. (q # Default \/ Before)' => Steady(q)'
    <3> SUFFICES ASSUME q # Default \/ Before PROVE Steady(q)'
      OBVIOUS
    <3>1. Steady(q)
      BY <2>1 DEF Settled
    <3> QED
      BY <1>4, <1>5, <1>8, <3>1 DEF Steady
  <2>3. (acked[q] # {} => dir[q] # 0 /\ acked[q] \subseteq engines[dir[q]].content)'
    <3>1. dir[q] # 0 => dir[q] \in 1..Len(engines)
      BY <1>1
    <3> QED
      BY <1>4, <1>5, <1>8, <2>1, <3>1 DEF Settled
  <2>4. (\A e \in 1..Len(engines) :
          engines[e].path = q /\ engines[e].open /\ e # dir[q] => pool[q] = dir[q])'
    BY <1>4, <1>5, <1>8, <2>1 DEF Settled
  <2>5. (pool[q] # 0 => pool[q] = dir[q])'
    BY <1>5, <1>8, <2>1 DEF Settled
  <2> QED
    BY <2>2, <2>3, <2>4, <2>5 DEF Settled
<1>9. ASSUME NEW r, r.path \in Paths, Current(r) PROVE Current(r)'
  <2>1. CASE r.path = p
    BY <1>5, <1>9, <2>1 DEF Current
  <2>2. CASE r.path # p
    BY <1>5, <1>9, <2>2 DEF Current
  <2> QED
    BY <2>1, <2>2
<1> QED
  BY <1>3, <1>4, <1>5, <1>7, <1>8, <1>9

(* The slow path of a lookup opens the engine. *)
LEMMA SlowPathServed ==
    ASSUME ServeInv, TypeInv', NEW c \in Clients, SlowPath(c) PROVE ServeInv'
<1>1. CASE pool[req[c].path] # 0
  BY <1>1, MoveServed
<1>2. CASE pool[req[c].path] = 0
  <2>1. /\ UNCHANGED <<acked, clears, tasks>> /\ Opened(req[c].path) /\ Holding(c, Len(engines) + 1)
        /\ req[c].pc = "slow"
    BY <1>2 DEF SlowPath, workers, bookkeeping
  <2>2. req \in [Clients -> RequestType] /\ req[c] \in RequestType /\ Current(req[c]) /\ ReqInv
        /\ RequestOK(req[c]) /\ tasks \subseteq TaskType
    BY DEF ServeInv, TypeInv
  <2>3. PICK p \in Paths : p = req[c].path
    BY <2>2 DEF RequestType
  <2>4. PICK r : r = [req[c] EXCEPT !.pc = req[c].then, !.engine = Len(engines) + 1]
    OBVIOUS
  <2>5. req' = [req EXCEPT ![c] = r]
    BY <2>1, <2>2, <2>4 DEF Holding, RequestType
  <2>6. ReqClean(r) /\ (Clearing(r) => Clearing(req[c]))
    BY <2>1, <2>2, <2>4 DEF ReqClean, Clearing, RequestType, RequestOK
  <2>7. r.path = p /\ r.void = req[c].void /\ r.must = req[c].must /\ r.engine = Len(engines) + 1
    BY <2>2, <2>3, <2>4 DEF RequestType
  <2>8. ReqInv' /\ (Before' => Before)
    BY <2>1, <2>2, <2>5, <2>6, RequestGoesOn
  <2>9. /\ \A q \in Paths : Settled(q)'
        /\ \A x : x.path \in Paths /\ Current(x) => Current(x)'
        /\ dir'[p] = Len(engines) + 1 /\ pool'[p] = Len(engines) + 1 /\ Len(engines) + 1 # 0
    BY <1>2, <2>1, <2>3, <2>8, OpenedServed
  <2>10. Current(r)'
    BY <2>1, <2>2, <2>3, <2>7, <2>9 DEF Current
  <2>11. \A d \in Clients : Current(req[d])'
    <3> SUFFICES ASSUME NEW d \in Clients, d # c PROVE Current(req[d])'
      BY <2>2, <2>5, <2>10
    <3>1. req'[d] = req[d] /\ req[d].path \in Paths /\ Current(req[d])
      BY <2>2, <2>5 DEF ServeInv, RequestType
    <3>2. ASSUME NEW y, y = req[d] PROVE Current(y)'
      BY <2>9, <3>1, <3>2
    <3> QED
      BY <3>1, <3>2 DEF Current
  <2>12. \A t \in tasks' : Current(t)'
    BY <2>1, <2>2, <2>9 DEF ServeInv, TaskType
  <2> QED
    BY <2>8, <2>9, <2>11, <2>12 DEF ServeInv
<1> QED
  BY <1>1, <1>2

(* A task opens the engine. *)
LEMMA TaskOpensServed ==
    ASSUME ServeInv, TypeInv', NEW t \in tasks, TaskOpens(t) PROVE ServeInv'
<1>1. /\ UNCHANGED <<acked, clears, req>> /\ Opened(t.path) /\ pool[t.path] = 0
      /\ tasks' = (tasks \ {t}) \cup {[t EXCEPT !.engine = Len(engines) + 1]}
  BY DEF TaskOpens, bookkeeping
<1>2. req \in [Clients -> RequestType] /\ t \in TaskType /\ Current(t) /\ t.path \in Paths
      /\ tasks \subseteq TaskType
  BY DEF ServeInv, TypeInv, TaskType
<1>3. ReqInv' /\ (Before' => Before)
  BY <1>1, RequestsStay DEF ServeInv
<1>4. /\ \A q \in Paths : Settled(q)'
      /\ \A x : x.path \in Paths /\ Current(x) => Current(x)'
      /\ dir'[t.path] = Len(engines) + 1 /\ pool'[t.path] = Len(engines) + 1 /\ Len(engines) + 1 # 0
  BY <1>1, <1>2, <1>3, OpenedServed
<1>5. PICK u : u = [t EXCEPT !.engine = Len(engines) + 1]
  OBVIOUS
<1>6. u.path = t.path /\ u.void = t.void /\ u.must = t.must /\ u.engine = Len(engines) + 1
  BY <1>2, <1>5 DEF TaskType
<1>7. Current(u)'
  BY <1>1, <1>2, <1>4, <1>6 DEF Current
<1>8. \A x \in tasks' : Current(x)'
  BY <1>1, <1>2, <1>4, <1>5, <1>7 DEF ServeInv, TaskType
<1>9. \A d \in Clients : Current(req[d])'
  <2> SUFFICES ASSUME NEW d \in Clients PROVE Current(req[d])'
    OBVIOUS
  <2>1. req'[d] = req[d] /\ req[d].path \in Paths /\ Current(req[d])
    BY <1>1, <1>2 DEF ServeInv, RequestType
  <2>2. ASSUME NEW y, y = req[d] PROVE Current(y)'
    BY <1>4, <2>1, <2>2
  <2> QED
    BY <2>1, <2>2 DEF Current
<1> QED
  BY <1>3, <1>4, <1>8, <1>9 DEF ServeInv

(* The recovery of an engine ends. *)
LEMMA RecoveredServed ==
    ASSUME ServeInv, TypeInv', NEW e \in 1..Len(engines), Recovered(e) PROVE ServeInv'
<1>1. UNCHANGED <<pool, dir, locked, acked, clears, req, tasks>>
  BY DEF Recovered, workers, bookkeeping
<1>2. TypeInv /\ engines[e] \in EngineType
  BY DEF ServeInv, TypeInv
<1>3. PICK x : x = [engines[e] EXCEPT !.state = "idle"]
  OBVIOUS
<1>4. /\ engines' = [engines EXCEPT ![e] = x]
      /\ x.path = engines[e].path /\ x.open = engines[e].open /\ engines[e].content \subseteq x.content
  BY <1>2, <1>3 DEF Recovered, EngineType
<1>5. Working
  BY <1>1, <1>2, <1>4, EngineWorks
<1> QED
  BY <1>1, <1>5, TasksServed DEF AcksServed

(* The last handle of an engine goes, and LOCK with it: nobody that counts  *)
(* holds the engine of the directory then, unless the pool does.            *)
LEMMA DropServed ==
    ASSUME ServeInv, TypeInv', NEW e \in 1..Len(engines), DropEngine(e) PROVE ServeInv'
<1>1. /\ UNCHANGED <<pool, dir, acked, clears, req, tasks>> /\ ~Held(e) /\ engines[e].open
      /\ locked' = locked \ {engines[e].path}
  BY DEF DropEngine, workers, bookkeeping
<1>2. /\ engines \in Seq(EngineType) /\ engines[e] \in EngineType
      /\ dir \in [Paths -> 0..Len(engines)] /\ req \in [Clients -> RequestType] /\ tasks \subseteq TaskType
      /\ Len(engines) \in Nat
  BY DEF ServeInv, TypeInv
<1>3. PICK x : x = [engines[e] EXCEPT !.open = FALSE]
  OBVIOUS
<1>4. x.path = engines[e].path /\ x.open = FALSE /\ x.content = engines[e].content
  BY <1>2, <1>3 DEF EngineType
<1>5. /\ Len(engines') = Len(engines)
      /\ \A i \in 1..Len(engines) :
           /\ engines'[i].path = engines[i].path /\ engines'[i].content = engines[i].content
           /\ engines'[i].open => engines[i].open
  BY <1>1, <1>2, <1>3, <1>4 DEF DropEngine
<1>6. ReqInv' /\ (Before' => Before)
  BY <1>1, RequestsStay DEF ServeInv
<1>7. ASSUME NEW p \in Paths PROVE Settled(p)'
  <2>1. Settled(p) /\ dir[p] \in 0..Len(engines)
    BY <1>2 DEF ServeInv
  <2>2. (p # Default \/ Before)' => Steady(p)'
    <3> SUFFICES ASSUME p # Default \/ Before PROVE Steady(p)'
      BY <1>6
    <3>1. Steady(p)
      BY <2>1 DEF Settled
    <3>2. engines[e].path # p
      BY <1>1, <3>1 DEF Steady, Held
    <3> QED
      BY <1>1, <1>5, <3>1, <3>2 DEF Steady
  <2>3. (acked[p] # {} => dir[p] # 0 /\ acked[p] \subseteq engines[dir[p]].content)'
    <3>1. dir[p] # 0 => dir[p] \in 1..Len(engines)
      BY <1>2
    <3> QED
      BY <1>1, <1>5, <2>1, <3>1 DEF Settled
  <2>4. (\A i \in 1..Len(engines) :
          engines[i].path = p /\ engines[i].open /\ i # dir[p] => pool[p] = dir[p])'
    BY <1>1, <1>5, <2>1 DEF Settled
  <2>5. (pool[p] # 0 => pool[p] = dir[p])'
    BY <1>1, <2>1 DEF Settled
  <2> QED
    BY <2>2, <2>3, <2>4, <2>5 DEF Settled
<1>8. ASSUME NEW r, r.path \in Paths, Current(r), r.engine # e PROVE Current(r)'
  <2>1. Settled(engines[e].path)
    BY <1>2 DEF ServeInv, EngineType
  <2>2. CASE r.path # engines[e].path
    BY <1>1, <1>8, <2>2 DEF Current
  <2>3. CASE r.path = engines[e].path
    BY <1>1, <1>8, <2>1, <2>3 DEF Current, Settled
  <2> QED
    BY <2>2, <2>3
<1>9. \A d \in Clients : Current(req[d])'
  <2> SUFFICES ASSUME NEW d \in Clients PROVE Current(req[d])'
    OBVIOUS
  <2>1. req'[d] = req[d] /\ req[d].path \in Paths /\ Current(req[d]) /\ req[d].engine # e
    BY <1>1, <1>2 DEF ServeInv, RequestType, Held
  <2>2. ASSUME NEW y, y = req[d] PROVE Current(y)'
    BY <1>8, <2>1, <2>2
  <2> QED
    BY <2>1, <2>2 DEF Current
<1>10. \A t \in tasks' : Current(t)'
  BY <1>1, <1>2, <1>8 DEF ServeInv, TaskType, Held
<1> QED
  BY <1>6, <1>7, <1>9, <1>10 DEF ServeInv

(* The default database is cleared, or its files stay although the pool has *)
(* let go of them.                                                          *)
LEMMA ClearServed ==
    ASSUME ServeInv, TypeInv', NEW c \in Clients, Clear(c) PROVE ServeInv'
<1>1. /\ UNCHANGED <<engines, clears>> /\ req[c].pc = "clear"
      /\ pool' = [pool EXCEPT ![Default] = 0]
  BY DEF Clear, bookkeeping
<1>2. /\ pool \in [Paths -> 0..Len(engines)] /\ dir \in [Paths -> 0..Len(engines)]
      /\ req \in [Clients -> RequestType] /\ tasks \subseteq TaskType /\ Default \in Paths
      /\ acked \in [Paths -> SUBSET Lawful] /\ TypeInv
  BY ServerAssumption DEF ServeInv, TypeInv
<1>3. Clearing(req[c]) /\ clears # 0 /\ Before
  BY <1>1 DEF ServeInv, ReqInv, ReqClean, Before
<1>4. Steady(Default)
  BY <1>2, <1>3 DEF ServeInv, Settled
<1>5. pool'[Default] = 0 /\ \A p \in Paths : p # Default => pool'[p] = pool[p]
  BY <1>1, <1>2
<1>6. CASE /\ UNCHANGED <<dir, locked, acked, tasks>> /\ Answer(c)
  <2>1. req' = [req EXCEPT ![c] = Idle]
    BY <1>6 DEF Answer
  <2>2. ReqInv' /\ (Before' => Before)
    BY <1>1, <1>2, <2>1, IdleServed, RequestGoesOn DEF ServeInv
  <2>3. ~Before'
    <3>1. \A d \in Clients : ~Clearing(req'[d])
      BY <1>2, <1>3, <2>1, IdleServed DEF ServeInv, ReqInv
    <3> QED
      BY <1>1, <1>3, <3>1 DEF Before, Clearing
  <2>4. ASSUME NEW p \in Paths PROVE Settled(p)'
    <3>1. Settled(p)
      BY DEF ServeInv
    <3>2. CASE p = Default
      BY <1>1, <1>4, <1>5, <1>6, <2>3, <3>1, <3>2 DEF Settled, Steady
    <3>3. CASE p # Default
      BY <1>1, <1>5, <1>6, <3>1, <3>3 DEF Settled, Steady
    <3> QED
      BY <3>2, <3>3
  <2>5. ASSUME NEW r, r.path \in Paths, Current(r) PROVE Current(r)'
    <3>1. CASE r.path = Default
      BY <1>4, <1>5, <1>6, <2>5, <3>1 DEF Current, Steady
    <3>2. CASE r.path # Default
      BY <1>5, <1>6, <2>5, <3>2 DEF Current
    <3> QED
      BY <3>1, <3>2
  <2>6. \A d \in Clients : Current(req[d])'
    <3> SUFFICES ASSUME NEW d \in Clients, d # c PROVE Current(req[d])'
      BY <1>2, <2>1, IdleServed
    <3>1. req'[d] = req[d] /\ req[d].path \in Paths /\ Current(req[d])
      BY <1>2, <2>1 DEF ServeInv, RequestType
    <3>2. ASSUME NEW y, y = req[d] PROVE Current(y)'
      BY <2>5, <3>1, <3>2
    <3> QED
      BY <3>1, <3>2 DEF Current
  <2>7. \A t \in tasks' : Current(t)'
    BY <1>2, <1>6, <2>5 DEF ServeInv, TaskType
  <2> QED
    BY <2>2, <2>4, <2>6, <2>7 DEF ServeInv
<1>7. CASE /\ dir' = [dir EXCEPT ![Default] = 0]
           /\ locked' = locked \ {Default}
           /\ acked' = [acked EXCEPT ![Default] = {}]
           /\ req' = [d \in Clients |-> IF d = c THEN Idle ELSE
                        [req[d] EXCEPT !.void = @ \/ (req[d].pc # "idle" /\ req[d].path = Default)]]
           /\ tasks' = {[t EXCEPT !.void = @ \/ t.path = Default] : t \in tasks}
  <2>1. /\ dir'[Default] = 0 /\ acked'[Default] = {}
        /\ \A p \in Paths : p # Default => dir'[p] = dir[p] /\ acked'[p] = acked[p]
                                           /\ (p \in locked' <=> p \in locked)
    BY <1>2, <1>7
  <2>2. ASSUME NEW d \in Clients, d # c
        PROVE  /\ req'[d].path = req[d].path /\ req'[d].engine = req[d].engine
               /\ req'[d].must = req[d].must /\ req'[d].pc = req[d].pc /\ req'[d].route = req[d].route
               /\ req'[d].void = (req[d].void \/ (req[d].pc # "idle" /\ req[d].path = Default))
               /\ req[d].pc = "idle" => req'[d] = req[d]
    <3>1. req[d] \in RequestType
      BY <1>2
    <3>2. req'[d] = [req[d] EXCEPT !.void = @ \/ (req[d].pc # "idle" /\ req[d].path = Default)]
      BY <1>7, <2>2
    <3>3. req[d].pc = "idle" => req'[d] = req[d]
      <4>1. req[d].pc = "idle" => (req[d].void \/ (req[d].pc # "idle" /\ req[d].path = Default)) = req[d].void
        BY <3>1 DEF RequestType
      <4> QED
        BY <3>1, <3>2, <4>1 DEF RequestType
    <3> QED
      BY <3>1, <3>2, <3>3 DEF RequestType
  <2>3. req'[c] = Idle
    BY <1>7
  <2>4. \A d \in Clients : Clearing(req'[d]) => d # c /\ Clearing(req[d])
    BY <1>2, <2>2, <2>3, IdleServed DEF Clearing
  <2>5. \A d \in Clients : ~Clearing(req'[d])
    BY <1>3, <2>4 DEF ServeInv, ReqInv
  <2>6. ReqInv' /\ ~Before'
    <3>1. \A d \in Clients : ReqClean(req'[d])
      BY <1>2, <2>2, <2>3, IdleServed DEF ServeInv, ReqInv, ReqClean, Clearing
    <3>2. \A d \in Clients : ReqClean(req[d])'
      BY <3>1 DEF ReqClean, Clearing
    <3>3. ~Before'
      BY <1>1, <1>3, <2>5 DEF Before, Clearing
    <3> QED
      BY <2>5, <3>2, <3>3 DEF ReqInv, Clearing
  <2>7. ASSUME NEW p \in Paths PROVE Settled(p)'
    <3>1. Settled(p)
      BY DEF ServeInv
    <3>2. CASE p = Default
      BY <1>5, <2>1, <2>6, <3>2 DEF Settled
    <3>3. CASE p # Default
      BY <1>1, <1>5, <2>1, <3>1, <3>3 DEF Settled, Steady
    <3> QED
      BY <3>2, <3>3
  <2>8. ASSUME NEW r, NEW s, r.path \in Paths, Current(r), s.path = r.path, s.engine = r.engine,
               s.must = r.must, ~s.void => ~r.void /\ r.path # Default
        PROVE  Current(s)'
    BY <1>5, <2>1, <2>8 DEF Current
  <2>9. \A d \in Clients : Current(req[d])'
    <3> SUFFICES ASSUME NEW d \in Clients, d # c PROVE Current(req[d])'
      BY <1>2, <2>3, IdleServed
    <3>1. CASE req[d].pc = "idle"
      <4>1. req'[d] = Idle
        BY <2>2, <3>1 DEF ServeInv, ReqInv, ReqClean
      <4> QED
        BY <1>2, <4>1, IdleServed
    <3>2. CASE req[d].pc # "idle"
      <4>1. PICK r : r = req[d]
        OBVIOUS
      <4>2. PICK s : s = req'[d]
        OBVIOUS
      <4>3. r.path \in Paths /\ Current(r)
        BY <1>2, <4>1 DEF ServeInv, RequestType
      <4>4. ~s.void => ~r.void /\ r.path # Default
        BY <2>2, <3>2, <4>1, <4>2
      <4>5. s.path = r.path /\ s.engine = r.engine /\ s.must = r.must
        BY <2>2, <4>1, <4>2
      <4>6. Current(s)'
        BY <2>8, <4>3, <4>4, <4>5
      <4> QED
        BY <4>2, <4>6 DEF Current
    <3> QED
      BY <3>1, <3>2
  <2>10. \A t \in tasks' : Current(t)'
    <3> SUFFICES ASSUME NEW s \in tasks' PROVE Current(s)'
      OBVIOUS
    <3>1. PICK t \in tasks : s = [t EXCEPT !.void = @ \/ t.path = Default]
      BY <1>7
    <3>2. t \in TaskType /\ Current(t)
      BY <1>2 DEF ServeInv
    <3>3. s.path = t.path /\ s.engine = t.engine /\ s.must = t.must
          /\ (~s.void => ~t.void /\ t.path # Default) /\ t.path \in Paths
      BY <3>1, <3>2 DEF TaskType
    <3> QED
      BY <2>8, <3>2, <3>3
  <2> QED
    BY <2>6, <2>7, <2>9, <2>10 DEF ServeInv
<1> QED
  BY <1>6, <1>7 DEF Clear

(* Inductive step: every action keeps the acknowledged effects served.      *)
LEMMA ServeStep == MaxClears <= 1 /\ ServeInv /\ [Next]_vars => ServeInv'
<1> SUFFICES ASSUME MaxClears <= 1, ServeInv, [Next]_vars PROVE ServeInv'
  OBVIOUS
<1>0. TypeInv /\ TypeInv'
  BY TypeStep DEF ServeInv
<1>1. ASSUME NEW c \in Clients, Arrive(c) PROVE ServeInv'
  BY <1>0, <1>1, ArriveServed
<1>2. ASSUME NEW c \in Clients, Serve(c) \/ TimeOut(c) PROVE ServeInv'
  BY <1>0, <1>2, MoveServed, SlowPathServed, ClearServed, CheckServed, HandleServed, SpawnServed
     DEF Serve
<1>3. ASSUME NEW t \in tasks, Work(t) PROVE ServeInv'
  BY <1>0, <1>3, WorkServed, TaskOpensServed DEF Work
<1>4. ASSUME NEW e \in 1..Len(engines), Recovered(e) \/ DropEngine(e) PROVE ServeInv'
  BY <1>0, <1>4, RecoveredServed, DropServed
<1>5. CASE UNCHANGED vars
  <2>1. UNCHANGED <<store, acked, clears, req, tasks>>
    BY <1>5 DEF vars, store
  <2>2. Working /\ AcksServed
    BY <1>0, <2>1, StoreStays
  <2> QED
    BY <1>0, <2>1, <2>2, TasksServed
<1> QED
  BY <1>1, <1>2, <1>3, <1>4, <1>5 DEF Next

(* What a client was told is in the engine that owns the directory, the     *)
(* pool serves no other engine, and a request or task that holds an engine  *)
(* finds in it what was acknowledged before it arrived, unless the database *)
(* was cleared since: for any clients, databases, first opens, time-outs,   *)
(* tasks that outlive their request and engines dropped late, and one clear *)
(* of the default database that deletes or fails.                           *)
THEOREM AcknowledgedIsServed == ASSUME MaxClears <= 1 PROVE Spec => []AckedServed
<1>1. ServeInv => AckedServed
  <2> SUFFICES ASSUME ServeInv PROVE AckedServed
    OBVIOUS
  <2>1. \A p \in Paths :
          /\ pool[p] # 0 => pool[p] = dir[p]
          /\ acked[p] # {} => dir[p] # 0 /\ acked[p] \subseteq engines[dir[p]].content
    BY DEF ServeInv, Settled
  <2>2. ASSUME NEW r \in Parties, r.engine # 0, ~r.void PROVE r.must \subseteq engines[r.engine].content
    <3>1. Current(r) /\ r.path \in Paths
      BY DEF ServeInv, Parties, TypeInv, RequestType, TaskType
    <3> QED
      BY <2>1, <2>2, <3>1 DEF Current
  <2> QED
    BY <2>1, <2>2 DEF AckedServed
<1>2. ServeInv /\ [Next]_vars => ServeInv'
  BY ServeStep
<1> QED
  BY <1>1, <1>2, ServeInitially, PTL DEF Spec
=============================================================================
