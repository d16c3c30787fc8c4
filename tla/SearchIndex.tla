----------------------------- MODULE SearchIndex -----------------------------
(***************************************************************************)
(* The full-text index of the persistent engine                            *)
(* (crates/thingd/src/persistent.rs) and the thread of the server that     *)
(* repairs it (spawn_storage_recovery in crates/thingd-server/src/         *)
(* engine.rs).                                                             *)
(*                                                                         *)
(* Every operation of the engine runs under the engine lock and is one     *)
(* action.  The worker thread that feeds Tantivy runs beside them; it has  *)
(* one action for each region in which it holds the lock of the queue.     *)
(* stop_search_worker waits for the worker with the engine lock held, so   *)
(* the operations that call it have an action on each side of the join.    *)
(* Databases are on disk and not encrypted.  Tantivy is external: an index *)
(* is the documents it holds under every doc_key.                          *)
(***************************************************************************)
EXTENDS Naturals, Sequences, FiniteSets, SequencesExt

CONSTANTS
    Objects, Events,   \* record keys, ordered as the keyspaces are
    Bodies,            \* what a record says
    Relevance,         \* the score Tantivy gives to the documents of a key
    Modes,             \* the PersistentSearchModes an open may ask for
    QueueMax,          \* search_queue_max_keys
    BatchSize,         \* search_commit_batch_size
    ReplayLimit,       \* SEARCH_REBUILD_REPLAY_LIMIT
    RecoveryBatch,     \* recovery_batch_size
    MaxRetries,        \* recovery_max_retries
    Threads,           \* names for the recovery threads that may run at once
    MaxWrites, MaxOpens, MaxRequests, MaxFailures   \* bounds of a run

Keys == Objects \cup Events
None == "none"
AllModes == {"persistent", "async", "recovery", "no_rebuild", "disabled"}

ASSUME SearchConstants ==
    /\ Keys \subseteq Nat \ {0} /\ Objects \cap Events = {}
    /\ None \notin Bodies /\ Relevance \in [Keys -> Nat]
    /\ Modes \subseteq AllModes
    /\ {QueueMax, BatchSize, RecoveryBatch} \subseteq Nat \ {0}
    /\ {ReplayLimit, MaxRetries, MaxWrites, MaxOpens, MaxRequests, MaxFailures} \subseteq Nat

VARIABLES
    primary,   \* the keyspaces objects and events
    disk,      \* the search directories and the rebuild marker
    eng,       \* fields of PersistentEngine
    rebuild,   \* search_rebuild
    queue,     \* the SearchMutationQueue the worker holds
    worker,    \* the thread thingd-search-index: where it is, its batch
    rec,       \* the thread thingd-storage-recovery
    lost,      \* history: what the index on disk has missed for good: "mutation",
               \* or "delete" of an event whose sequence came back during a rebuild
    used       \* how much of the bounds is used up

vars == <<primary, disk, eng, rebuild, queue, worker, rec, lost, used>>

-----------------------------------------------------------------------------
(* Documents.  Body None in a mutation is a delete. *)
Docs == [Keys -> Seq(Bodies)]
NoDocs == [k \in Keys |-> <<>>]
NoDir == [k \in {} |-> <<>>]

Exact(db) == [k \in Keys |-> IF db[k] = None THEN <<>> ELSE <<db[k]>>]

(* apply_search_mutation: the old documents of the key go first. *)
Applied(docs, muts) ==
    [k \in Keys |-> IF k \notin DOMAIN muts THEN docs[k]
                    ELSE IF muts[k] = None THEN <<>> ELSE <<muts[k]>>]

(* index_object_for_search_with_commit deletes the doc_key first,           *)
(* index_event_for_search_with_commit only adds.                            *)
Indexed(docs, S, db) ==
    [k \in Keys |-> IF k \notin S THEN docs[k]
                    ELSE IF k \in Objects THEN <<db[k]>> ELSE Append(docs[k], db[k])]

(* replay_search_mutation: upserts read the record as it is now. *)
Replayed(docs, replay, db) ==
    LET upserts == {k \in DOMAIN replay : replay[k] = "upsert" /\ db[k] # None}
        deletes == DOMAIN replay \ upserts
    IN  Indexed([k \in Keys |-> IF k \in deletes THEN <<>> ELSE docs[k]], upserts, db)

-----------------------------------------------------------------------------
(* The mutation queue. *)
NoMutations == [k \in {} |-> None]
NewQueue == [pending |-> NoMutations, inFlight |-> FALSE, stale |-> FALSE, shutdown |-> FALSE]

Put(f, k, v) == [x \in DOMAIN f \cup {k} |-> IF x = k THEN v ELSE f[x]]
Without(f, S) == [x \in DOMAIN f \ S |-> f[x]]

Enqueued(q, k, b) ==
    IF k \in DOMAIN q.pending \/ Cardinality(DOMAIN q.pending) < QueueMax
    THEN [q EXCEPT !.pending = Put(@, k, b)]
    ELSE [q EXCEPT !.pending = NoMutations, !.stale = TRUE]

MutNeedsFallback(q) == DOMAIN q.pending # {} \/ q.stale
NeedsFallback(q) == q.inFlight \/ DOMAIN q.pending # {} \/ q.stale

(* record_search_mutation: only while a rebuild is under way. *)
Recorded(r, k, kind) ==
    CASE r.phase = None -> r
      [] r.phase # None /\ k \notin DOMAIN r.replay
           /\ Cardinality(DOMAIN r.replay) >= ReplayLimit -> [r EXCEPT !.overflow = TRUE]
      [] OTHER -> [r EXCEPT !.replay = Put(@, k, kind)]

-----------------------------------------------------------------------------
(* The engine.  index is the directory of search_index; queue.attached says *)
(* that search_queue is Some.  rebuild.reused is history.                   *)
NoRebuild == [phase |-> None, cursor |-> 0, replay |-> NoMutations,
              overflow |-> FALSE, error |-> FALSE, reused |-> FALSE]
NewRebuild == [NoRebuild EXCEPT !.phase = "objects"]
Idle == [at |-> "off", compacted |-> FALSE]

Locked == eng.at = "open"
ShouldRunWorker(e) ==
    e.index # None /\ e.writer /\ e.reader /\ e.mode # "no_rebuild" /\ ~e.required

Started(e) == [e EXCEPT !.attached = ShouldRunWorker(e)]
WorkerFor(e) == [at |-> IF ShouldRunWorker(e) THEN "take" ELSE "off", batch |-> NoMutations]

IsStale == eng.attached /\ queue.stale
RebuildRequired == eng.required \/ IsStale

(* search: what it reads, and whether that is Tantivy. *)
Serves ==
    /\ eng.at = "open" /\ eng.state = "idle" /\ rebuild.phase = None
    /\ eng.mode # "no_rebuild"
    /\ ~(eng.attached /\ NeedsFallback(queue))
    /\ eng.index # None /\ eng.reader
OpenDocs == IF eng.index = "search" THEN disk.search ELSE disk.rebuild

(* The documents in the order of their addresses. *)
Documents(docs) ==
    LET under(k) == [i \in DOMAIN docs[k] |-> [key |-> k, body |-> docs[k][i]]]
        all == FoldLeft(LAMBDA q, k : q \o under(k), <<>>, SetToSortSeq(DOMAIN docs, LAMBDA a, b : a < b))
    IN  [i \in DOMAIN all |-> [key |-> all[i].key, body |-> all[i].body, address |-> i]]

(* RankedSearchDoc: the better score, then the lower address. *)
Better(d, e) ==
    \/ Relevance[d.key] > Relevance[e.key]
    \/ Relevance[d.key] = Relevance[e.key] /\ d.address < e.address

(* retain_top_search_hit: the worst of the heap makes room. *)
Retain(heap, d, limit) ==
    LET worst == {w \in heap : \A h \in heap \ {w} : Better(h, w)}
    IN  IF Cardinality(heap) < limit THEN heap \cup {d}
        ELSE IF \A w \in worst : Better(d, w) THEN (heap \ worst) \cup {d} ELSE heap

(* The collector: the documents the options allow go through the heap,      *)
(* which is then sorted.                                                    *)
TopDocs(docs, want, limit) ==
    SetToSortSeq(FoldLeft(LAMBDA heap, d : IF d.key \in want THEN Retain(heap, d, limit) ELSE heap,
                          {}, docs),
                 Better)

(* search_tantivy: a hit needs its record. *)
SearchTantivy(want, limit) ==
    LET hits == SelectSeq(TopDocs(Documents(OpenDocs), want, limit),
                          LAMBDA d : primary[d.key] # None)
    IN  [i \in DOMAIN hits |-> <<hits[i].key, hits[i].body>>]

(* search_naive: a scan of the objects, then of the events. *)
SearchNaive(want, limit) ==
    LET stored(S) == SetToSortSeq({k \in S \cap want : primary[k] # None}, LAMBDA a, b : a < b)
        all == stored(Objects) \o stored(Events)
        hits == SubSeq(all, 1, IF limit < Len(all) THEN limit ELSE Len(all))
    IN  [i \in DOMAIN hits |-> <<hits[i], primary[hits[i]]>>]

(* search, for a query that the bodies of all records match; want are the   *)
(* keys its collections and its filter allow.                               *)
Search(want, limit) == IF Serves THEN SearchTantivy(want, limit) ELSE SearchNaive(want, limit)

Missed(what, if) == IF if THEN {what} ELSE {}

(* delete_stream gives the sequences of a stream back.  An event the        *)
(* rebuild has scanned is gone and its sequence is used again: the upsert   *)
(* takes the place of the delete in the replay map.                         *)
Reuses(k, b) ==
    /\ k \in Events /\ b # None /\ rebuild.phase # None
    /\ k \in DOMAIN disk.rebuild /\ disk.rebuild[k] # <<>>

(* put_object, append_event, delete_object, delete_stream and the rest:     *)
(* the record is durable, then the derived state is told.                   *)
Write(k, b) ==
    /\ Locked /\ used.writes < MaxWrites
    /\ IF b = None THEN primary[k] # None ELSE k \in Events => primary[k] = None
    /\ primary' = [primary EXCEPT ![k] = b]
    /\ rebuild' = [Recorded(rebuild, k, IF b = None THEN "delete" ELSE "upsert")
                      EXCEPT !.reused = @ \/ Reuses(k, b)]
    /\ queue' = IF eng.attached /\ eng.mode # "no_rebuild" THEN Enqueued(queue, k, b) ELSE queue
    /\ lost' = lost \cup Missed("mutation", ~eng.attached /\ ~eng.required)
    /\ used' = [used EXCEPT !.writes = @ + 1]
    /\ UNCHANGED <<disk, eng, worker, rec>>

-----------------------------------------------------------------------------
(* The worker thread. *)
Take(n) ==
    \E S \in SUBSET DOMAIN queue.pending :
        /\ Cardinality(S) = n
        /\ queue' = [queue EXCEPT !.inFlight = (S # {}), !.pending = Without(@, S)]
        /\ worker' = [at |-> IF S = {} THEN "empty" ELSE "got",
                      batch |-> [k \in S |-> queue.pending[k]]]

MinOf(a, b) == IF a < b THEN a ELSE b
Waiting == Cardinality(DOMAIN queue.pending)
TakeBatch == Take(MinOf(Waiting, BatchSize))
Goes(at) == worker' = [worker EXCEPT !.at = at] /\ UNCHANGED queue
Frame == UNCHANGED <<primary, eng, rebuild, rec, lost>>

(* take_batch up to its first wait *)
WorkerTakes ==
    /\ worker.at = "take"
    /\ CASE queue.stale \/ (Waiting = 0 /\ queue.shutdown) -> Goes("empty")
         [] ~queue.stale /\ Waiting = 0 /\ ~queue.shutdown -> Goes("wait")
         [] ~queue.stale /\ Waiting > 0 /\ Waiting < BatchSize /\ ~queue.shutdown -> Goes("window")
         [] OTHER -> TakeBatch
    /\ Frame /\ UNCHANGED <<disk, used>>

(* from the first wait, woken or timed out *)
MutWorkerWakes ==
    /\ worker.at = "wait"
    /\ CASE queue.shutdown \/ queue.stale -> Goes("empty")
         [] ~queue.shutdown /\ ~queue.stale /\ Waiting < BatchSize -> Goes("wait")
         [] OTHER -> TakeBatch
    /\ Frame /\ UNCHANGED <<disk, used>>
WorkerWakes ==
    /\ worker.at = "wait"
    /\ CASE queue.shutdown \/ queue.stale \/ Waiting = 0 -> Goes("empty")
         [] ~(queue.shutdown \/ queue.stale \/ Waiting = 0) /\ Waiting < BatchSize -> Goes("window")
         [] OTHER -> TakeBatch
    /\ Frame /\ UNCHANGED <<disk, used>>

(* the debounce interval is over: stale and shutdown are not looked at *)
WorkerWindowEnds ==
    /\ worker.at = "window"
    /\ TakeBatch
    /\ Frame /\ UNCHANGED <<disk, used>>

MutWorkerChecks ==
    /\ worker.at = "empty"
    /\ Goes(IF queue.shutdown THEN "empty" ELSE "take")
    /\ Frame /\ UNCHANGED <<disk, used>>
WorkerChecks ==
    /\ worker.at = "empty"
    /\ Goes(IF queue.shutdown THEN "off" ELSE "take")
    /\ Frame /\ UNCHANGED <<disk, used>>

WorkerCommits ==
    /\ worker.at = "got"
    /\ disk' = [disk EXCEPT !.search = Applied(@, worker.batch)]
    /\ worker' = [at |-> "take", batch |-> NoMutations]
    /\ queue' = [queue EXCEPT !.inFlight = FALSE]
    /\ Frame /\ UNCHANGED used

(* record_error.  What of the batch Tantivy kept is not known. *)
WorkerFails ==
    /\ worker.at = "got" /\ used.failures < MaxFailures
    /\ \E S \in SUBSET DOMAIN worker.batch :
          disk' = [disk EXCEPT !.search = Applied(@, [k \in S |-> worker.batch[k]])]
    /\ worker' = [at |-> "take", batch |-> NoMutations]
    /\ queue' = [queue EXCEPT !.inFlight = FALSE, !.stale = TRUE]
    /\ used' = [used EXCEPT !.failures = @ + 1]
    /\ Frame

-----------------------------------------------------------------------------
(* Opening and closing. *)
Closed(m) == [at |-> "closed", mode |-> m, index |-> None, writer |-> FALSE, reader |-> FALSE,
              attached |-> FALSE, required |-> FALSE, state |-> "idle", retries |-> 0]

(* init_search_index, as a missing directory or marker makes it decide. *)
Found(m) ==
    /\ m # "disabled"
    /\ disk.search # NoDir
    /\ disk.marker => m = "persistent"

Opened(m) ==
    LET found == Found(m)
        sync == m = "persistent" /\ ~found
        required == m \in {"async", "recovery"} /\ ~found
    IN  [Closed(m) EXCEPT
            !.at = "open",
            !.index = IF found \/ sync THEN "search" ELSE None,
            !.writer = (found \/ sync) /\ m # "no_rebuild",
            !.reader = found \/ sync,
            !.required = required,
            !.state = IF required THEN "rebuilding_search" ELSE "idle"]

(* spawn_storage_recovery *)
Spawned == [rec EXCEPT ![CHOOSE t \in Threads : rec[t].at = "off"].at = "run"]

(* open_from_database, then EnginePool: the recovery thread starts when a   *)
(* rebuild is due.  Mode persistent builds a missing index before it        *)
(* returns and drops the marker.                                            *)
Open(m) ==
    /\ eng.at = "closed" /\ used.opens < MaxOpens
    /\ eng' = Started(Opened(m))
    /\ disk' = [disk EXCEPT
          !.search = IF m = "persistent" /\ ~Found(m) THEN Exact(primary) ELSE @,
          !.marker = @ /\ m # "persistent"]
    /\ lost' = IF m = "persistent" /\ ~Found(m) THEN {} ELSE lost
    /\ queue' = NewQueue
    /\ worker' = WorkerFor(Opened(m))
    /\ rec' = IF Opened(m).required THEN Spawned ELSE rec
    /\ used' = [used EXCEPT !.opens = @ + 1]
    /\ UNCHANGED <<primary, rebuild>>

(* What is lost when a session ends: mutations the queue still holds or has *)
(* dropped, and everything a rebuild that was due would have found.         *)
Leaves ==
    lost \cup Missed("mutation", eng.required \/ (eng.attached /\ NeedsFallback(queue)))

Crash ==
    /\ eng.at # "closed"
    /\ lost' = Leaves
    /\ eng' = Closed(eng.mode)
    /\ rebuild' = NoRebuild /\ queue' = NewQueue /\ rec' = [t \in Threads |-> Idle]
    /\ worker' = [at |-> "off", batch |-> NoMutations]
    /\ UNCHANGED <<primary, disk, used>>

(* Drop for PersistentEngine: stop_search_worker, then a last commit. *)
Drop ==
    /\ Locked /\ \A t \in Threads : rec[t].at = "off"
    /\ eng' = [eng EXCEPT !.at = "closing"]
    /\ queue' = [queue EXCEPT !.shutdown = TRUE]
    /\ UNCHANGED <<primary, disk, rebuild, worker, rec, lost, used>>

DropReturns ==
    /\ eng.at = "closing" /\ worker.at = "off"
    /\ lost' = Leaves
    /\ eng' = Closed(eng.mode)
    /\ rebuild' = NoRebuild /\ queue' = NewQueue
    /\ UNCHANGED <<primary, disk, worker, rec, used>>

-----------------------------------------------------------------------------
(* The recovery threads.  A step that meets a stale queue stops the worker, *)
(* and waits for it between StepStopsWorker and WorkerJoined.  A step that  *)
(* finds nothing to do leaves everything as it is and is no action.         *)
Ends(t) == rec' = [rec EXCEPT ![t] = Idle]
Returns(t) == rec' = [rec EXCEPT ![t].at = "judge"]

(* request_storage_recovery: the journal is over its ceiling. *)
Request ==
    /\ Locked /\ eng.state = "idle" /\ used.requests < MaxRequests
    /\ \E t \in Threads : rec[t].at = "off"
    /\ rec' = Spawned
    /\ eng' = [eng EXCEPT !.state = "compacting"]
    /\ used' = [used EXCEPT !.requests = @ + 1]
    /\ UNCHANGED <<primary, disk, rebuild, queue, worker, lost>>

Runs(t) == Locked /\ rec[t].at = "run"

RecoveryEnds(t) ==
    /\ Runs(t) /\ ~RebuildRequired /\ eng.state = "idle"
    /\ Ends(t)
    /\ UNCHANGED <<primary, disk, eng, rebuild, queue, worker, lost, used>>

(* fail_storage_recovery when the memory ceiling is exceeded. *)
RecoveryOutOfMemory(t) ==
    /\ Runs(t) /\ used.failures < MaxFailures
    /\ eng' = [eng EXCEPT !.state = "failed"]
    /\ Ends(t)
    /\ used' = [used EXCEPT !.failures = @ + 1]
    /\ UNCHANGED <<primary, disk, rebuild, queue, worker, lost>>

Working(t) == Runs(t) /\ (RebuildRequired \/ eng.state # "idle")

(* compact_storage: a stale queue alone does not make it ask for a rebuild. *)
Compact(t) ==
    /\ Working(t) /\ ~rec[t].compacted
    /\ \/ /\ eng' = [eng EXCEPT !.state = IF eng.required THEN "rebuilding_search" ELSE "idle"]
          /\ rec' = [rec EXCEPT ![t] = [at |-> "judge", compacted |-> TRUE]]
          /\ UNCHANGED used
       \/ /\ used.failures < MaxFailures
          /\ eng' = [eng EXCEPT !.state = "failed"]
          /\ Ends(t)
          /\ used' = [used EXCEPT !.failures = @ + 1]
    /\ UNCHANGED <<primary, disk, rebuild, queue, worker, lost>>

StepStopsWorker(t) ==
    /\ Working(t) /\ rec[t].compacted
    /\ IsStale /\ rebuild.phase = None
    /\ eng' = [eng EXCEPT !.at = "stopping", !.required = TRUE]
    /\ queue' = [queue EXCEPT !.shutdown = TRUE]
    /\ UNCHANGED <<primary, disk, rebuild, worker, rec, lost, used>>

WorkerJoined ==
    /\ eng.at = "stopping" /\ worker.at = "off"
    /\ eng' = [eng EXCEPT !.at = "open", !.attached = FALSE, !.index = None,
                          !.writer = FALSE, !.reader = FALSE]
    /\ UNCHANGED <<primary, disk, rebuild, queue, worker, rec, lost, used>>

Steps(t) == Working(t) /\ rec[t].compacted /\ eng.required /\ ~eng.attached

(* A new generation: directory, marker, writer, reader; an index that is    *)
(* already there is used as it is.                                          *)
Creates == rebuild.phase = None /\ eng.index = None
StepCannotCreate(t) ==
    /\ Steps(t) /\ Creates /\ used.failures < MaxFailures
    /\ \/ UNCHANGED eng /\ disk' = [disk EXCEPT !.rebuild = NoDir]
       \/ \E m, w \in BOOLEAN :
             /\ w => m
             /\ eng' = [eng EXCEPT !.index = "rebuild", !.writer = w]
             /\ disk' = [disk EXCEPT !.rebuild = NoDocs, !.marker = @ \/ m]
    /\ Ends(t)
    /\ used' = [used EXCEPT !.failures = @ + 1]
    /\ UNCHANGED <<primary, rebuild, queue, worker, lost>>

(* The next batch after the cursor, and the phase it leaves the rebuild in. *)
Scanned(r) == IF r.phase = "objects" THEN Objects ELSE Events
Rest(r) == {k \in Scanned(r) : k > r.cursor /\ primary[k] # None}
Batch(r) == {k \in Rest(r) : Cardinality({o \in Rest(r) : o < k}) < RecoveryBatch}
MutAdvanced(r) ==
    IF Rest(r) = {}
    THEN [r EXCEPT !.phase = IF r.phase = "objects" THEN "events" ELSE "replay"]
    ELSE r
Advanced(r) ==
    IF Rest(r) = Batch(r)
    THEN [r EXCEPT !.phase = IF r.phase = "objects" THEN "events" ELSE "replay", !.cursor = 0]
    ELSE [r EXCEPT !.cursor = Max(Batch(r))]

StepScans(t) ==
    LET r == IF rebuild.phase = None THEN NewRebuild ELSE rebuild
        docs == IF Creates THEN NoDocs ELSE disk.rebuild
    IN  /\ Steps(t) /\ ~r.error /\ ~r.overflow /\ r.phase # "replay"
        /\ eng' = IF Creates
                  THEN [eng EXCEPT !.index = "rebuild", !.writer = TRUE, !.reader = TRUE]
                  ELSE eng
        /\ disk' = [disk EXCEPT
              !.rebuild = IF eng'.writer THEN Indexed(docs, Batch(r), primary) ELSE docs,
              !.marker = @ \/ Creates]
        /\ rebuild' = Advanced(r)
        /\ Returns(t)
        /\ UNCHANGED <<primary, queue, worker, lost, used>>

StepBlocked(t) ==
    /\ Steps(t) /\ rebuild.phase # None /\ (rebuild.error \/ rebuild.overflow)
    /\ eng' = [eng EXCEPT !.state = IF rebuild.overflow THEN "degraded" ELSE @]
    /\ Returns(t)
    /\ UNCHANGED <<primary, disk, rebuild, queue, worker, lost, used>>

(* Replay, promote_search_generation and the start of a new worker. *)
Replays(t) == Steps(t) /\ rebuild.phase = "replay" /\ ~rebuild.error /\ ~rebuild.overflow
Rebuilt == IF eng.writer THEN Replayed(disk.rebuild, rebuild.replay, primary) ELSE disk.rebuild
Promoted == [eng EXCEPT !.index = "search", !.writer = TRUE, !.reader = TRUE,
                        !.required = FALSE, !.state = "idle"]
StepPromotes(t) ==
    /\ Replays(t)
    /\ disk' = [search |-> Rebuilt, rebuild |-> NoDir, marker |-> FALSE]
    /\ eng' = Started(Promoted)
    /\ rebuild' = NoRebuild
    /\ queue' = NewQueue
    /\ worker' = WorkerFor(Promoted)
    /\ lost' = Missed("mutation", ~eng.writer) \cup Missed("delete", rebuild.reused)
    /\ UNCHANGED <<primary, rec, used>>

(* A rename fails before or between the two renames, or the promoted index  *)
(* cannot be opened.                                                        *)
StepCannotPromote(t) ==
    /\ Replays(t) /\ used.failures < MaxFailures
    /\ disk' \in {[disk EXCEPT !.rebuild = Rebuilt],
                  [disk EXCEPT !.search = NoDir, !.rebuild = Rebuilt],
                  [disk EXCEPT !.search = Rebuilt, !.rebuild = NoDir]}
    /\ eng' = [eng EXCEPT !.index = None, !.writer = FALSE, !.reader = FALSE, !.state = "failed"]
    /\ rebuild' = [rebuild EXCEPT !.error = TRUE, !.replay = NoMutations]
    /\ Ends(t)
    /\ used' = [used EXCEPT !.failures = @ + 1]
    /\ UNCHANGED <<primary, queue, worker, lost>>

(* After Ok(false): retry_search_rebuild, give up, or go on.  retry_count   *)
(* stays at zero: the step returns at its top when the replay overflowed    *)
(* and never comes to the line that counts.                                 *)
Retry(t) ==
    /\ Locked /\ rec[t].at = "judge"
    /\ eng.state = "degraded" /\ eng.retries < MaxRetries
    /\ disk' = [search |-> NoDir, rebuild |-> NoDir, marker |-> FALSE]
    /\ eng' = [eng EXCEPT !.index = None, !.writer = FALSE, !.reader = FALSE,
                          !.required = TRUE, !.state = "rebuilding_search"]
    /\ rebuild' = NoRebuild
    /\ rec' = [rec EXCEPT ![t].at = "run"]
    /\ used' = [used EXCEPT !.retries = @ + 1]
    /\ UNCHANGED <<primary, queue, worker, lost>>

Judge(t) ==
    /\ Locked /\ rec[t].at = "judge"
    /\ ~(eng.state = "degraded" /\ eng.retries < MaxRetries)
    /\ IF eng.state \in {"degraded", "failed"} THEN Ends(t)
       ELSE rec' = [rec EXCEPT ![t].at = "run"]
    /\ UNCHANGED <<primary, disk, eng, rebuild, queue, worker, lost, used>>

-----------------------------------------------------------------------------
Init ==
    /\ primary = [k \in Keys |-> None]
    /\ disk = [search |-> NoDir, rebuild |-> NoDir, marker |-> FALSE]
    /\ eng \in {Closed(m) : m \in Modes}
    /\ rebuild = NoRebuild /\ queue = NewQueue
    /\ worker = [at |-> "off", batch |-> NoMutations]
    /\ rec = [t \in Threads |-> Idle]
    /\ lost = {}
    /\ used = [writes |-> 0, opens |-> 0, requests |-> 0, failures |-> 0,
               retries |-> 0]

WorkerNext ==
    \/ WorkerTakes \/ WorkerWakes \/ WorkerWindowEnds
    \/ WorkerChecks \/ WorkerCommits \/ WorkerFails

RecoveryNext(t) ==
    \/ RecoveryEnds(t) \/ RecoveryOutOfMemory(t) \/ Compact(t)
    \/ StepStopsWorker(t) \/ StepCannotCreate(t) \/ StepScans(t) \/ StepBlocked(t)
    \/ StepPromotes(t) \/ StepCannotPromote(t) \/ Retry(t) \/ Judge(t)

Next ==
    \/ \E k \in Keys, b \in Bodies \cup {None} : Write(k, b)
    \/ \E m \in Modes : Open(m)
    \/ Crash \/ Drop \/ DropReturns \/ WorkerJoined \/ Request
    \/ WorkerNext
    \/ \E t \in Threads : RecoveryNext(t)

(* The threads run; a join returns when the worker has ended. *)
Spec ==
    /\ Init /\ [][Next]_vars
    /\ WF_vars(WorkerNext) /\ WF_vars(DropReturns) /\ WF_vars(WorkerJoined)
    /\ \A t \in Threads : WF_vars(RecoveryNext(t))

-----------------------------------------------------------------------------
(* What a search answers, whether the index or the scan serves it: no       *)
(* record that is gone, no body that is out of date, no object twice; it    *)
(* misses a record only when its limit is used up, by better hits when      *)
(* Tantivy answers.                                                         *)
AnswersRight ==
    \A limit \in 1..2, want \in {Keys, Events} :
        LET hits == Search(want, limit)
            missed == {k \in want : primary[k] # None /\ \A i \in DOMAIN hits : hits[i][1] # k}
        IN  /\ \A i \in DOMAIN hits : hits[i][1] \in want /\ hits[i][2] = primary[hits[i][1]]
            /\ \A i, j \in DOMAIN hits : i # j /\ hits[i] = hits[j] => hits[i][1] \in Events
            /\ missed # {} => Len(hits) = limit
            /\ Serves => \A k \in missed, i \in DOMAIN hits : Relevance[k] <= Relevance[hits[i][1]]

(* A search answers right at any point of a write, a commit of the worker   *)
(* or a rebuild.  Mutations that are queued, taken by the worker, dropped   *)
(* on overflow or failed must send it to the scan, and a promoted rebuild   *)
(* must have replayed every write made while it scanned.  Not covered are   *)
(* an index that missed mutations of an earlier session, and one whose      *)
(* rebuild forgot the delete of an event (lost).                            *)
SearchIsCurrent == eng.at = "open" /\ lost = {} => AnswersRight

(* The test async_search_rebuild_interleaves_writes_and_replays_mutations   *)
(* (persistent.rs:6951) says that a rebuild replays the writes made while   *)
(* it scanned: also when delete_stream gave a sequence back and an append   *)
(* uses it again.                                                           *)
SearchIsCurrentAfterReuse == eng.at = "open" /\ "mutation" \notin lost => AnswersRight

(* The worker commits what it is given: a queue with mutations becomes      *)
(* empty or stale, or the engine stops.                                     *)
QueueDrains ==
    (eng.attached /\ Waiting > 0) ~> (~eng.attached \/ Waiting = 0 \/ queue.stale)

(* Dropping the engine returns: the worker it joins sees the shutdown from  *)
(* wherever it is.                                                          *)
DropEnds == eng.at \in {"closing", "stopping"} ~> eng.at \in {"closed", "open"}

(* A rebuild that is due and has its recovery thread comes to an end, even  *)
(* when writes overflow its replay map: promoted, stopped by an error, or   *)
(* the engine is gone.                                                      *)
RebuildEnds ==
    (eng.at = "open" /\ eng.required /\ \E t \in Threads : rec[t].at # "off")
        ~> (eng.at = "closed" \/ ~eng.required \/ rebuild.error \/ \A t \in Threads : rec[t].at = "off")
=============================================================================
