------------------------------- MODULE Routes -------------------------------
(***************************************************************************)
(* The handlers of thingd-server, one definition per handler of rest.rs    *)
(* and mcp.rs, as the facts about it that the request path depends on:     *)
(*                                                                         *)
(*   gate    the checks made before the store is touched                   *)
(*   runs    "inline"  under the engine lock, without an await             *)
(*           "permit"  in spawn_blocking, admitted by blocking_permit      *)
(*           "worker"  in spawn_blocking, without a permit                 *)
(*           "stream"  as "worker", but the request does not wait for it:  *)
(*                     the body of the answer is what the task sends       *)
(*           "import"  one permit and one task for every record read       *)
(*           "fetch"   awaits a connector first, then inline               *)
(*           "tool"    as "permit", but the task looks the engine up       *)
(*           "clear"   on the pool itself                                  *)
(*   reads   the parts of the store its answer is computed from            *)
(*   writes  the parts it changes in one hold of the engine lock           *)
(*   after   the parts it changes in a second hold, after the first        *)
(*                                                                         *)
(* Argument parsing, page limits and the shape of the answer are left out. *)
(***************************************************************************)

Route(gate, runs, reads, writes, after) ==
    [gate |-> gate, runs |-> runs, reads |-> reads, writes |-> writes, after |-> after]

Read(parts) == Route("open", "inline", parts, {}, {})
Write(parts) == Route("source", "inline", {}, parts, {})
Blocking(route) == [route EXCEPT !.runs = "permit"]

(***************************************************************************)
(* REST: health and diagnostics.                                           *)
(***************************************************************************)
ready == Read({})
diagnostics == Blocking(Read({}))
metrics == Read({"objects", "events", "links", "jobs"})
count_objects == Read({"objects"})
count_objects_in_collection == Read({"objects"})
count_events == Read({"events"})
count_links == Read({"links"})
list_collections == Read({"objects"})
list_streams == Read({"events"})
list_queues == Read({"jobs"})

(***************************************************************************)
(* REST: administration.                                                   *)
(***************************************************************************)
retention == Blocking(Write({"objects", "events", "jobs"}))
clear_default_db == Route("source", "clear", {}, {}, {})
list_indexes == Read({"indexes"})
create_index == Write({"indexes"})
delete_index == Write({"indexes"})

(***************************************************************************)
(* REST: objects and events.  The change is logged under the same lock.    *)
(***************************************************************************)
list_objects == Blocking(Read({"objects"}))
put_object == Write({"objects", "log"})
get_object == Read({"objects"})
delete_object == Write({"objects", "log"})
put_batch == Write({"objects", "log"})
get_batch == Read({"objects"})
delete_batch == Write({"objects", "log"})
append_event == Write({"events", "log"})
list_events == Read({"events"})

(***************************************************************************)
(* REST: replication, snapshots and backups.                               *)
(***************************************************************************)
replication_events == Read({"log"})
replication_apply == Route("target", "inline", {}, {"objects", "events", "replica"}, {})
replication_status == Read({"log", "replica"})
replication_conflicts == Read({"replica"})
replication_snapshot == Read({"objects", "events", "log"})
replication_snapshot_apply == Route("target", "inline", {}, {"objects", "events", "replica"}, {})
physical_snapshot == [Read({"objects", "events", "links", "jobs", "log"}) EXCEPT !.runs = "worker"]
snapshot_export == [Read({"objects", "events", "links", "jobs"}) EXCEPT !.runs = "stream"]
snapshot_import == [Write({"objects", "events", "links", "jobs"}) EXCEPT !.runs = "import"]

(***************************************************************************)
(* REST: queues and links.  None of these writes is logged for replicas.   *)
(***************************************************************************)
push_job == Write({"jobs"})
claim_job == Write({"jobs"})
claim_jobs_batch == Write({"jobs"})
ack_job == Write({"jobs"})
ack_jobs_batch == Write({"jobs"})
nack_job == Write({"jobs"})
list_jobs == Read({"jobs"})
list_dead_jobs == Read({"jobs"})
create_link == Write({"links"})
get_links == Read({"links"})
get_link_by_id == Read({"links"})
delete_link == Write({"links"})

(***************************************************************************)
(* REST: connectors, queries and schemas.  A pulled row is not logged.     *)
(***************************************************************************)
pull_data == [Write({"objects"}) EXCEPT !.runs = "fetch"]
search == Blocking(Read({"objects", "events"}))
vector_search == Read({"objects"})
aggregate == Read({"objects"})
timeseries == Read({"objects"})
list_schemas == Read({"objects"})
get_schema == Read({"objects"})
current_schema == Read({"schema"})
put_schema_document == Write({"schema"})
list_migrations == Read({"schema"})
record_migration == Write({"schema"})

RestRoutes ==
    {ready, diagnostics, metrics, count_objects, count_objects_in_collection, count_events,
     count_links, list_collections, list_streams, list_queues, retention, clear_default_db,
     list_indexes, create_index, delete_index, list_objects, put_object, get_object,
     delete_object, put_batch, get_batch, delete_batch, append_event, list_events,
     replication_events, replication_apply, replication_status, replication_conflicts,
     replication_snapshot, replication_snapshot_apply, physical_snapshot, snapshot_export,
     snapshot_import, push_job, claim_job, claim_jobs_batch, ack_job, ack_jobs_batch, nack_job,
     list_jobs, list_dead_jobs, create_link, get_links, get_link_by_id, delete_link, pull_data,
     search, vector_search, aggregate, timeseries, list_schemas, get_schema, current_schema,
     put_schema_document, list_migrations, record_migration}

(***************************************************************************)
(* MCP: the handlers of ALL_TOOLS.  A tool audits under the lock it writes *)
(* under; changes of objects and events are logged in a second hold.       *)
(***************************************************************************)
Tool(parts, after) == Route("tool", "inline", {}, parts \cup {"audit"}, after)

handle_thing_search == [Read({"objects", "events"}) EXCEPT !.runs = "tool"]
handle_thing_get == Read({"objects"})
handle_thing_put == Tool({"objects"}, {"log"})
handle_thing_delete == Tool({"objects"}, {"log"})
handle_thing_objects_list == Read({"objects"})
handle_thing_objects_put_batch == Tool({"objects"}, {"log"})
handle_thing_objects_delete_batch == Tool({"objects"}, {"log"})
handle_thing_objects_get_batch == Read({"objects"})
handle_thing_events_append == Tool({"events"}, {"log"})
handle_thing_events_list == Read({"events"})
handle_thing_queue_push == Tool({"jobs"}, {})
handle_thing_queue_claim == Tool({"jobs"}, {})
handle_thing_queue_claim_batch == Tool({"jobs"}, {})
handle_thing_queue_ack == Tool({"jobs"}, {})
handle_thing_queue_ack_batch == Tool({"jobs"}, {})
handle_thing_queue_nack == Tool({"jobs"}, {})
handle_thing_queue_list == Read({"jobs"})
handle_thing_queue_dead == Read({"jobs"})
handle_thing_count_objects == Read({"objects"})
handle_thing_count_objects_in_collection == Read({"objects"})
handle_thing_count_events == Read({"events"})
handle_thing_count_active_jobs == Read({"jobs"})
handle_thing_count_dead_jobs == Read({"jobs"})
handle_thing_list_collections == Read({"objects"})
handle_thing_list_streams == Read({"events"})
handle_thing_list_queues == Read({"jobs"})
handle_thing_create_index == Route("tool", "inline", {}, {"indexes"}, {})
handle_thing_delete_index == Route("tool", "inline", {}, {"indexes"}, {})
handle_thing_list_indexes == Read({"indexes"})
handle_thing_link_create == Tool({"links"}, {})
handle_thing_link_get == Read({"links"})
handle_thing_link_delete == Tool({"links"}, {})
handle_thing_link_neighbors == Read({"links"})
handle_thing_link_count == Read({"links"})
handle_thing_schema == Read({"objects"})
handle_thing_migrations == Read({"schema"})
handle_thing_aggregate == Read({"objects"})
handle_thing_timeseries == Read({"objects"})
handle_thing_vector_search == Read({"objects"})

ObjectTools ==
    {handle_thing_search, handle_thing_get, handle_thing_put, handle_thing_delete,
     handle_thing_objects_list, handle_thing_objects_put_batch,
     handle_thing_objects_delete_batch, handle_thing_objects_get_batch}
EventTools == {handle_thing_events_append, handle_thing_events_list}
QueueTools ==
    {handle_thing_queue_push, handle_thing_queue_claim, handle_thing_queue_claim_batch,
     handle_thing_queue_ack, handle_thing_queue_ack_batch, handle_thing_queue_nack,
     handle_thing_queue_list, handle_thing_queue_dead}
CountTools ==
    {handle_thing_count_objects, handle_thing_count_objects_in_collection,
     handle_thing_count_events, handle_thing_count_active_jobs, handle_thing_count_dead_jobs}
DiscoveryTools ==
    {handle_thing_list_collections, handle_thing_list_streams, handle_thing_list_queues,
     handle_thing_create_index, handle_thing_delete_index, handle_thing_list_indexes}
LinkTools ==
    {handle_thing_link_create, handle_thing_link_get, handle_thing_link_delete,
     handle_thing_link_neighbors, handle_thing_link_count}
SchemaTools == {handle_thing_schema, handle_thing_migrations}
QueryTools == {handle_thing_aggregate, handle_thing_timeseries, handle_thing_vector_search}

ToolRoutes ==
    ObjectTools \cup EventTools \cup QueueTools \cup CountTools \cup DiscoveryTools
        \cup LinkTools \cup SchemaTools \cup QueryTools
=============================================================================
