------------------------------- MODULE Server -------------------------------
(***************************************************************************)
(* The request path of thingd-server: concurrent requests look the engine  *)
(* of their tenant up in the EnginePool, which opens it once, pass the     *)
(* write gate, run inline under the engine lock or in a blocking task that *)
(* a timed out request leaves behind, and may clear the default database   *)
(* under each other's feet.                                                *)
(*                                                                         *)
(* An engine's content is the set of effects <<request, part, gate>> that  *)
(* reached it; what an effect does to the store is the subject of          *)
(* PersistentRecords, PersistentQueue and Replication.                     *)
(***************************************************************************)
EXTENDS Naturals, Sequences, FiniteSets, Routes

CONSTANTS
    Clients,      \* connections, each with one request at a time
    Paths,        \* database directories: one per tenant
    Default,      \* EnginePool.default_path
    Parts,        \* the parts of the store that are followed
    MaxPermits,   \* MAX_BLOCKING_WORKERS
    MaxRequests,  \* bound on requests
    MaxRecords,   \* bound on the records of one import
    MaxClears     \* bound on requests to clear the default database

ASSUME ServerAssumption ==
    /\ Default \in Paths
    /\ MaxPermits \in Nat \ {0}
    /\ MaxRequests \in Nat /\ MaxRecords \in Nat /\ MaxClears \in Nat

VARIABLES
    role,      \* SyncConfig.role
    readOnly,  \* McpConfig.read_only
    pool,      \* EnginePool.writers: path -> engine, 0 when absent
    dir,       \* the engine whose files are in the directory, 0 when there is none
    locked,    \* paths whose directory holds a LOCK file
    engines,   \* every engine opened so far
    req,       \* the request each client is waiting for
    tasks,     \* spawn_blocking tasks that have not ended
    permits,   \* permits left in BLOCKING_GATE
    gauge,     \* BLOCKING_ACTIVE
    acked,     \* per path, the effects clients were told of and no clear has removed
    requests,  \* requests made so far
    clears     \* requests to clear so far

vars == <<role, readOnly, pool, dir, locked, engines, req, tasks, permits, gauge, acked,
          requests, clears>>

store == <<pool, dir, locked, engines>>
workers == <<tasks, permits, gauge>>
bookkeeping == <<role, readOnly, requests, clears>>

\* A route as far as the followed parts go.
Followed(r) == [r EXCEPT !.reads = @ \cap Parts, !.writes = @ \cap Parts]
RouteSet == {Followed(r) : r \in RestRoutes \cup ToolRoutes}

NoRoute == Read({})
Idle == [pc |-> "idle", then |-> "idle", route |-> NoRoute, path |-> Default, engine |-> 0,
         id |-> 0, void |-> FALSE, must |-> {}, left |-> 0]

\* Startup opens the default database, which holds the effects of an earlier
\* request, 0; databases of tenants are opened by their first request.
Init ==
    /\ role \in {"source", "replica"}
    /\ readOnly \in BOOLEAN
    /\ pool = [p \in Paths |-> IF p = Default THEN 1 ELSE 0]
    /\ dir = pool
    /\ locked = {Default}
    /\ \E s \in {"idle", "busy"} :
          engines = <<[path |-> Default, state |-> s, open |-> TRUE,
                       content |-> {<<0, p, IF role = "replica" THEN "target" ELSE "source">> :
                                        p \in Parts}]>>
    /\ req = [c \in Clients |-> Idle]
    /\ tasks = {}
    /\ permits = MaxPermits
    /\ gauge = 0
    /\ acked = [p \in Paths |-> IF p = Default THEN engines[1].content ELSE {}]
    /\ requests = 0
    /\ clears = 0

(***************************************************************************)
(* The gates.                                                              *)
(***************************************************************************)
\* Mutant: the tools forget the role.
MutTurnedAway(route) ==
    \/ route.gate = "source" /\ role = "replica"
    \/ route.gate = "tool" /\ readOnly

\* ensure_source_writable and the MCP gates turn a write away by
\* configuration alone; nothing changes.
TurnedAway(route) ==
    \/ route.gate \in {"source", "tool"} /\ role = "replica"
    \/ route.gate = "tool" /\ readOnly

\* replication_apply and replication_snapshot_apply look at the role after
\* the maintenance state; the identity headers may not match either.
NotATarget(route) == route.gate = "target" /\ role = "source"

\* Where a handler goes once its gates have let it pass, and once it holds
\* an engine.
AfterGate(route) ==
    CASE route.runs = "fetch" -> "fetch"
      [] route.runs = "tool"  -> "admit"
      [] route.runs = "clear" -> "clear"
      [] OTHER                -> "lookup"

AfterLookup(route) ==
    CASE route.runs \in {"inline", "fetch"}  -> "handle"
      [] route.runs \in {"permit", "import"} -> "admit"
      [] OTHER                               -> "spawn"

\* A request arrives: of what was acknowledged before, it must see the parts
\* it reads.
Arrive(c) ==
    /\ req[c].pc = "idle"
    /\ requests < MaxRequests
    /\ \E route \in RouteSet, p \in Paths :
          /\ ~TurnedAway(route)
          /\ route.runs = "clear" => clears < MaxClears
          /\ LET gated == route.gate # "open" IN
             req' = [req EXCEPT ![c] =
                 [pc |-> IF gated THEN "lookup" ELSE AfterGate(route),
                  then |-> IF gated THEN "check" ELSE AfterLookup(route),
                  route |-> [route EXCEPT !.reads = {}], path |-> p, engine |-> 0,
                  id |-> requests + 1, void |-> FALSE,
                  must |-> {x \in acked[p] : x[2] \in route.reads}, left |-> MaxRecords]]
    /\ requests' = requests + 1
    /\ clears' = IF req'[c].route.runs = "clear" THEN clears + 1 ELSE clears
    /\ UNCHANGED <<role, readOnly, store, workers, acked>>

\* Every answer ends the request; the handle of the engine is dropped.
Answer(c) == req' = [req EXCEPT ![c] = Idle]

(***************************************************************************)
(* EnginePool.                                                             *)
(***************************************************************************)
Holding(c, e) == req' = [req EXCEPT ![c].pc = req[c].then, ![c].engine = e]

\* try_get_writer, fast path.
FastPath(c) ==
    /\ req[c].pc = "lookup"
    /\ pool[req[c].path] # 0
    /\ Holding(c, pool[req[c].path])
    /\ UNCHANGED <<store, workers, bookkeeping, acked>>

\* The entry is missing, or try_read fails because a slow path or a clear
\* holds the write lock.
Miss(c) ==
    /\ req[c].pc = "lookup"
    /\ \/ pool[req[c].path] = 0
       \/ \E d \in Clients \ {c} : req[d].pc \in {"slow", "clear"}
    /\ req' = [req EXCEPT ![c].pc = "slow"]
    /\ UNCHANGED <<store, workers, bookkeeping, acked>>

\* create_engine: the directory is created when it is missing, LOCK must not
\* exist, and what the files hold is loaded.  The journal or the index may
\* need recovery.  An invalid directory of a tenant with at most one entry is
\* deleted and made again, which is an open of a missing one.
Opened(p) ==
    /\ p \notin locked
    /\ \E s \in {"idle", "busy"} :
          engines' = Append(engines,
              [path |-> p, state |-> s, open |-> TRUE,
               content |-> IF dir[p] = 0 THEN {} ELSE engines[dir[p]].content])
    /\ locked' = locked \cup {p}
    /\ dir' = [dir EXCEPT ![p] = Len(engines) + 1]
    /\ pool' = [pool EXCEPT ![p] = Len(engines) + 1]

\* Slow path under the write lock: look again, then open.
SlowPath(c) ==
    /\ req[c].pc = "slow"
    /\ IF pool[req[c].path] # 0
       THEN Holding(c, pool[req[c].path]) /\ UNCHANGED store
       ELSE Opened(req[c].path) /\ Holding(c, Len(engines) + 1)
    /\ UNCHANGED <<workers, bookkeeping, acked>>

\* The open fails: get_writer panics and the request is cut off.
OpenFails(c) ==
    /\ req[c].pc = "slow"
    /\ pool[req[c].path] = 0
    /\ Answer(c)
    /\ UNCHANGED <<store, workers, bookkeeping, acked>>

\* Mutant: the directory goes and the entry of the pool stays.
MutClear(c) ==
    /\ req[c].pc = "clear"
    /\ dir' = [dir EXCEPT ![Default] = 0]
    /\ locked' = locked \ {Default}
    /\ acked' = [acked EXCEPT ![Default] = {}]
    /\ Answer(c)
    /\ UNCHANGED <<pool, engines, tasks, permits, gauge, bookkeeping>>

\* clear_default_engine: the entry goes first, then the directory, all under
\* the write lock.  Requests that have arrived by now may act on the old
\* engine; what they are told is void.
Clear(c) ==
    /\ req[c].pc = "clear"
    /\ pool' = [pool EXCEPT ![Default] = 0]
    /\ \/ /\ dir' = [dir EXCEPT ![Default] = 0]
          /\ locked' = locked \ {Default}
          /\ acked' = [acked EXCEPT ![Default] = {}]
          /\ req' = [d \in Clients |-> IF d = c THEN Idle ELSE
                        [req[d] EXCEPT !.void = @ \/ (req[d].pc # "idle" /\ req[d].path = Default)]]
          /\ tasks' = {[t EXCEPT !.void = @ \/ t.path = Default] : t \in tasks}
       \/ /\ Answer(c)   \* remove_dir_all fails and leaves the files
          /\ UNCHANGED <<dir, locked, acked, tasks>>
    /\ UNCHANGED <<engines, permits, gauge, bookkeeping>>

\* The last handle goes: Drop removes the file named LOCK in the directory,
\* whoever made it.
Held(e) ==
    \/ \E p \in Paths : pool[p] = e
    \/ \E c \in Clients : req[c].engine = e
    \/ \E t \in tasks : t.engine = e
    \/ engines[e].state = "busy"

DropEngine(e) ==
    /\ engines[e].open
    /\ ~Held(e)
    /\ engines' = [engines EXCEPT ![e].open = FALSE]
    /\ locked' = locked \ {engines[e].path}
    /\ UNCHANGED <<pool, dir, req, workers, bookkeeping, acked>>

(***************************************************************************)
(* Storage maintenance, as far as the gate sees it; SearchIndex has the    *)
(* worker itself.                                                          *)
(***************************************************************************)
\* ensure_storage_recovery: a journal at its limit starts a recovery, and
\* any state but idle turns the write away.
Check(c) ==
    LET e == req[c].engine IN
    /\ req[c].pc = "check"
    /\ \E s \in {engines[e].state, "busy"} :
          /\ engines' = [engines EXCEPT ![e].state = s]
          /\ IF s # "idle" \/ NotATarget(req[c].route)
             THEN Answer(c)
             ELSE req' = [req EXCEPT ![c].pc = AfterGate(req[c].route),
                                     ![c].then = AfterLookup(req[c].route), ![c].engine = 0]
    /\ UNCHANGED <<pool, dir, locked, workers, bookkeeping, acked>>

Recovered(e) ==
    /\ engines[e].state = "busy"
    /\ engines' = [engines EXCEPT ![e].state = "idle"]
    /\ UNCHANGED <<pool, dir, locked, req, workers, bookkeeping, acked>>

(***************************************************************************)
(* Handlers.                                                               *)
(***************************************************************************)
Core(route) == route.writes \ {"log", "audit"}

\* What one hold of the engine lock leaves behind: everything, everything but
\* the log entry or the audit event, or after an error nothing or the part
\* written before it.
Outcomes(route) ==
    {[ok |-> TRUE,  parts |-> route.writes], [ok |-> TRUE, parts |-> Core(route)]}
    \cup IF route.writes = {} THEN {}
         ELSE {[ok |-> FALSE, parts |-> {}], [ok |-> FALSE, parts |-> Core(route)]}

\* A record of an import writes one part.
RecordOutcomes(route) ==
    {[ok |-> TRUE, parts |-> {p}] : p \in route.writes} \cup {[ok |-> FALSE, parts |-> {}]}

With(e, id, parts, gate) ==
    [engines EXCEPT ![e].content = @ \cup {<<id, p, gate>> : p \in parts}]

\* The client is told: its effects in the engine that took them are
\* acknowledged, unless the database was cleared while it waited.
Ack(r, engs, e) ==
    IF r.void THEN acked
    ELSE [acked EXCEPT ![r.path] = @ \cup {x \in engs[e].content : x[1] = r.id}]

\* A handler that runs inline: lock, operation, answer.
Handle(c) ==
    LET r == req[c] IN
    /\ r.pc = "handle"
    /\ \E o \in Outcomes(r.route) :
          /\ engines' = With(r.engine, r.id, o.parts, r.route.gate)
          /\ IF o.ok /\ r.route.after # {}
             THEN /\ req' = [req EXCEPT ![c].pc = "lookup", ![c].then = "after", ![c].engine = 0]
                  /\ acked' = acked
             ELSE /\ Answer(c)
                  /\ acked' = IF o.ok THEN Ack(r, engines', r.engine) ELSE acked
    /\ UNCHANGED <<pool, dir, locked, workers, bookkeeping>>

\* handle_mcp_request, after the tool: the engine is looked up and locked
\* again for the log; a failure there is only logged.
After(c) ==
    LET r == req[c] IN
    /\ r.pc = "after"
    /\ \E parts \in {r.route.after \cap Parts, {}} :
          /\ engines' = With(r.engine, r.id, parts, r.route.gate)
          /\ acked' = Ack(r, engines', r.engine)
    /\ Answer(c)
    /\ UNCHANGED <<pool, dir, locked, workers, bookkeeping>>

\* pull_data waits for the connector between the gate and the engine.
Fetched(c) ==
    /\ req[c].pc = "fetch"
    /\ req' = [req EXCEPT ![c].pc = "lookup"]
    /\ UNCHANGED <<store, workers, bookkeeping, acked>>

(***************************************************************************)
(* Blocking tasks.                                                         *)
(***************************************************************************)
Counted(route) == route.runs \in {"permit", "import", "tool"}

Task(c) == [client |-> c, id |-> req[c].id, path |-> req[c].path, route |-> req[c].route,
            engine |-> req[c].engine, void |-> req[c].void, must |-> req[c].must,
            stage |-> "run", ok |-> FALSE]

\* blocking_permit and spawn_blocking.
Admit(c) ==
    /\ req[c].pc = "admit"
    /\ permits > 0
    /\ permits' = permits - 1
    /\ gauge' = gauge + 1
    /\ tasks' = tasks \cup {Task(c)}
    /\ req' = [req EXCEPT ![c].pc = "await"]
    /\ UNCHANGED <<store, bookkeeping, acked>>

\* blocking_permit when every permit is taken: 503.
Overloaded(c) ==
    /\ req[c].pc = "admit"
    /\ permits = 0
    /\ Answer(c)
    /\ UNCHANGED <<store, workers, bookkeeping, acked>>

\* physical_snapshot and snapshot_export take no permit; the export answers
\* at once and leaves its task behind.
Spawn(c) ==
    /\ req[c].pc = "spawn"
    /\ tasks' = tasks \cup {Task(c)}
    /\ IF req[c].route.runs = "stream" THEN Answer(c)
       ELSE req' = [req EXCEPT ![c].pc = "await"]
    /\ UNCHANGED <<store, permits, gauge, bookkeeping, acked>>

\* A search started by MCP looks its engine up in the task.
TaskLookup(t) ==
    /\ t.stage = "run" /\ t.engine = 0
    /\ pool[t.path] # 0
    /\ tasks' = (tasks \ {t}) \cup {[t EXCEPT !.engine = pool[t.path]]}
    /\ UNCHANGED <<store, req, permits, gauge, bookkeeping, acked>>

TaskOpens(t) ==
    /\ t.stage = "run" /\ t.engine = 0
    /\ pool[t.path] = 0
    /\ Opened(t.path)
    /\ tasks' = (tasks \ {t}) \cup {[t EXCEPT !.engine = Len(engines) + 1]}
    /\ UNCHANGED <<req, permits, gauge, bookkeeping, acked>>

\* The open panics in the task; BlockingCompletion is dropped all the same.
TaskPanics(t) ==
    /\ t.stage = "run" /\ t.engine = 0
    /\ pool[t.path] = 0
    /\ tasks' = (tasks \ {t}) \cup {[t EXCEPT !.stage = "drop"]}
    /\ gauge' = gauge - 1
    /\ UNCHANGED <<store, req, permits, bookkeeping, acked>>

\* The task's hold of the engine lock, and finish_blocking.  An export holds
\* it once for every page; this is its last page, or the client has gone.  The
\* pages before it change nothing and are no action.
RunTask(t) ==
    /\ t.stage = "run" /\ t.engine # 0
    /\ \E o \in IF t.route.runs = "import" THEN RecordOutcomes(t.route) ELSE Outcomes(t.route) :
          /\ engines' = With(t.engine, t.id, o.parts, t.route.gate)
          /\ tasks' = (tasks \ {t}) \cup {[t EXCEPT !.stage = "drop", !.ok = o.ok]}
    /\ gauge' = IF Counted(t.route) THEN gauge - 1 ELSE gauge
    /\ UNCHANGED <<pool, dir, locked, req, permits, bookkeeping, acked>>

\* A record of an import that does not decode leaves the task with `?`,
\* before finish_blocking.
BadRecord(t) ==
    /\ t.stage = "run" /\ t.route.runs = "import"
    /\ tasks' = (tasks \ {t}) \cup {[t EXCEPT !.stage = "drop"]}
    /\ UNCHANGED <<store, req, permits, gauge, bookkeeping, acked>>

\* Mutants: the permit is kept when the request has gone; such a task never ends.
MutEndTask(t) ==
    LET c == t.client
        waiting == req[c].pc = "await" /\ req[c].id = t.id
    IN
    /\ t.stage = "drop"
    /\ tasks' = tasks \ {t}
    /\ permits' = IF Counted(t.route) /\ waiting THEN permits + 1 ELSE permits
    /\ req' = IF waiting THEN [req EXCEPT ![c] = Idle] ELSE req
    /\ UNCHANGED <<store, gauge, bookkeeping, acked>>

MutEndTaskWaits(t) ==
    LET c == t.client IN
    /\ t.stage = "drop"
    /\ req[c].pc = "await" /\ req[c].id = t.id
    /\ tasks' = tasks \ {t}
    /\ permits' = IF Counted(t.route) THEN permits + 1 ELSE permits
    /\ Answer(c)
    /\ UNCHANGED <<store, gauge, bookkeeping, acked>>

\* The task ends, its permit and its handle go, and the request goes on if it
\* is still waiting: an import to its next record, anything else to its answer.
EndTask(t) ==
    LET c == t.client
        waiting == req[c].pc = "await" /\ req[c].id = t.id
    IN
    /\ t.stage = "drop"
    /\ tasks' = tasks \ {t}
    /\ permits' = IF Counted(t.route) THEN permits + 1 ELSE permits
    /\ \/ /\ waiting /\ t.ok /\ t.route.runs = "import" /\ req[c].left > 1
          /\ req' = [req EXCEPT ![c].pc = "admit", ![c].left = @ - 1]
          /\ acked' = acked
       \/ /\ waiting
          /\ Answer(c)
          /\ acked' = IF t.ok THEN Ack(t, engines, t.engine) ELSE acked
       \/ /\ ~waiting
          /\ UNCHANGED <<req, acked>>
    /\ UNCHANGED <<store, gauge, bookkeeping>>

\* TimeoutLayer answers 408 at an await; the task goes on.
TimeOut(c) ==
    /\ req[c].pc \in {"await", "fetch"}
    /\ Answer(c)
    /\ UNCHANGED <<store, workers, bookkeeping, acked>>

Serve(c) ==
    \/ FastPath(c) \/ Miss(c) \/ SlowPath(c) \/ OpenFails(c)
    \/ Check(c) \/ Handle(c) \/ After(c) \/ Fetched(c)
    \/ Admit(c) \/ Overloaded(c) \/ Spawn(c) \/ Clear(c)

Work(t) == TaskLookup(t) \/ TaskOpens(t) \/ TaskPanics(t) \/ RunTask(t) \/ BadRecord(t) \/ EndTask(t)

Next ==
    \/ \E c \in Clients : Arrive(c) \/ Serve(c) \/ TimeOut(c)
    \/ \E t \in tasks : Work(t)
    \/ \E e \in 1..Len(engines) : Recovered(e) \/ DropEngine(e)

\* An export waits in blocking_send for a client that may never read, and with
\* a page of events or more it starts over for ever: nothing says that it ends.
Exporting(t) == t.route.runs = "stream" /\ t.stage = "run"

\* The runtime polls every ready task and every other blocking thread goes on.
Fairness ==
    /\ \A c \in Clients : WF_vars(Serve(c))
    /\ WF_vars(\E t \in tasks : ~Exporting(t) /\ Work(t))

Spec == Init /\ [][Next]_vars /\ Fairness

(***************************************************************************)
(* Properties.                                                             *)
(***************************************************************************)
Parties == {req[c] : c \in Clients} \cup tasks

TypeOK ==
    /\ role \in {"source", "replica"} /\ readOnly \in BOOLEAN
    /\ pool \in [Paths -> 0..Len(engines)] /\ dir \in [Paths -> 0..Len(engines)]
    /\ locked \subseteq Paths
    /\ \A r \in Parties : r.engine \in 0..Len(engines) /\ r.path \in Paths
    /\ permits \in 0..MaxPermits /\ gauge \in 0..MaxRequests * MaxRecords

\* What a client was told is in the engine that owns the directory, and the
\* pool serves no other engine: through concurrent first opens, a clear that
\* deletes or fails, and engines dropped late (EnginePool, try_get_writer and
\* clear_default_engine).  A request or a task that holds an engine sees in it
\* everything that it reads and that was acknowledged before the request
\* arrived, unless the database was cleared since (get_engine in every handler).
AckedServed ==
    /\ \A p \in Paths :
          /\ pool[p] # 0 => pool[p] = dir[p]
          /\ acked[p] # {} => dir[p] # 0 /\ acked[p] \subseteq engines[dir[p]].content
    /\ \A r \in Parties : r.engine # 0 /\ ~r.void => r.must \subseteq engines[r.engine].content

\* Only replication writes to a replica, replication never writes to a source,
\* and no tool writes through a read-only MCP endpoint, whichever handler and
\* whichever path the request takes (the gates of every handler).
RoleRespected ==
    \A e \in 1..Len(engines) : \A x \in engines[e].content :
        /\ role = "replica" <=> x[3] = "target"
        /\ readOnly => x[3] # "tool"

\* Permits are neither lost nor made by tasks that outlive their request, fail
\* or panic, and the gauge never reports fewer workers than are running
\* (blocking_permit, finish_blocking).
PermitsConserved ==
    /\ permits + Cardinality({t \in tasks : Counted(t.route)}) = MaxPermits
    /\ gauge >= Cardinality({t \in tasks : Counted(t.route) /\ t.stage = "run"})

\* Every request is answered, whatever exports go on for ever beside it, and
\* every other task ends and gives its permit back, also the task of a request
\* that timed out.
AllAnswered == <>[]((\A t \in tasks : Exporting(t)) /\ \A c \in Clients : req[c].pc = "idle")
=============================================================================
