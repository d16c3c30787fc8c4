------------------------------ MODULE Checkpoint ------------------------------
(***************************************************************************)
(* The threads of a durable ThingDB (crates/thingdb/src/lib.rs): callers   *)
(* that send commit requests through a bounded channel, the writer thread  *)
(* that forms groups of them (writer_loop, process_group), the background  *)
(* flusher it schedules when the memtable or the WAL is over its bound     *)
(* (schedule_background_flush, background_flush_worker), and the drop of   *)
(* the database.  What commits and flushes do on disk is module ThingDB;   *)
(* here they only move two byte counts, pending_table_bytes and            *)
(* journal_bytes, in one unit: a request of n bytes adds a frame of n      *)
(* bytes and memtable entries of n bytes.  A memtable bound of one byte,   *)
(* with which the writer flushes by itself, is left to module ThingDB.     *)
(*                                                                         *)
(* A step under the inner lock is one action; the writer holds commit_gate *)
(* but not the inner lock while it writes the WAL.                         *)
(***************************************************************************)
EXTENDS Integers, Sequences, FiniteSets

CONSTANTS
    Clients,           \* threads that commit
    Sizes,             \* encoded bytes of a request
    QueueCapacity,     \* WRITER_QUEUE_CAPACITY
    MaxGroupBytes,     \* MAX_GROUP_BYTES (stands for MAX_GROUP_OPERATIONS too)
    MaxMemtableBytes,  \* DatabaseBuilder::max_memtable_bytes
    MaxJournalingSize, \* DatabaseBuilder::max_journaling_size
    Threads,           \* identities for thingdb-flush threads
    MaxRequests,       \* bound on the commits of one behaviour
    MaxErrors          \* bound on failing flushes, commits and spawns

ASSUME CheckpointConstants ==
    /\ IsFiniteSet(Clients) /\ IsFiniteSet(Threads)
    /\ Sizes \subseteq Nat \ {0} /\ IsFiniteSet(Sizes) /\ Sizes # {}
    /\ QueueCapacity \in Nat \ {0}
    /\ MaxGroupBytes \in Nat \ {0}
    /\ MaxMemtableBytes \in Nat \ {0, 1}
    /\ MaxJournalingSize \in Nat
    /\ MaxRequests \in Nat /\ MaxErrors \in Nat

VARIABLES
    answer,     \* per client: idle, sending, waiting, ok or err
    size,       \* per client: the bytes of its request
    queue,      \* the sync_channel
    carried,    \* writer_loop's `pending`: a request that did not fit
    group,      \* the requests of the group being formed or committed
    groupBytes, \* writer_loop's operation_bytes
    wpc,        \* position of the writer thread
    memBytes,   \* pending_table_bytes
    walBytes,   \* diagnostics.journal_bytes
    recovery,   \* recovery_required
    gate,       \* is commit_gate held by the writer across WAL I/O
    scheduled,  \* flush_scheduled
    worker,     \* per flush thread: its position
    app,        \* the last Database handle: open, dropping, dropped
    requests, errors   \* bounded counters

callers == <<answer, size, requests>>
channel == <<queue, carried, group, groupBytes, wpc>>
bytes == <<memBytes, walBytes, recovery>>
flusher == <<scheduled, worker>>
vars == <<callers, channel, bytes, gate, flusher, app, errors>>

Init ==
    /\ answer = [c \in Clients |-> "idle"]
    /\ size = [c \in Clients |-> CHOOSE n \in Sizes : TRUE]
    /\ queue = <<>> /\ carried = {}
    /\ group = {} /\ groupBytes = 0 /\ wpc = "recv"
    /\ memBytes = 0 /\ walBytes = 0 /\ recovery = FALSE
    /\ gate = "free"
    /\ scheduled = FALSE /\ worker = [t \in Threads |-> "none"]
    /\ app = "open"
    /\ requests = 0 /\ errors = 0

-----------------------------------------------------------------------------
(* commit_operations *)

Busy(c) == answer[c] \in {"sending", "waiting"}

Call(c, n) ==
    /\ app = "open" /\ ~Busy(c)
    /\ requests < MaxRequests /\ requests' = requests + 1
    /\ answer' = [answer EXCEPT ![c] = "sending"]
    /\ size' = [size EXCEPT ![c] = n]
    /\ UNCHANGED <<channel, bytes, gate, flusher, app, errors>>

(* SyncSender::send blocks while the channel is full. *)
Send(c) ==
    /\ answer[c] = "sending" /\ Len(queue) < QueueCapacity
    /\ queue' = Append(queue, c)
    /\ answer' = [answer EXCEPT ![c] = "waiting"]
    /\ UNCHANGED <<size, requests, carried, group, groupBytes, wpc, bytes, gate,
                   flusher, app, errors>>

Answer(S, a) == answer' = [c \in Clients |-> IF c \in S THEN a ELSE answer[c]]

-----------------------------------------------------------------------------
(* writer_loop: one group *)

(* pending.take().or_else(recv) *)
WriterRecv ==
    /\ wpc = "recv"
    /\ \E c \in Clients :
          /\ \/ c \in carried /\ carried' = {} /\ UNCHANGED queue
             \/ /\ carried = {} /\ queue # <<>> /\ c = Head(queue)
                /\ queue' = Tail(queue) /\ UNCHANGED carried
          /\ group' = {c} /\ groupBytes' = size[c]
    /\ wpc' = "try"
    /\ UNCHANGED <<callers, bytes, gate, flusher, app, errors>>

MutTake ==
    /\ queue # <<>> /\ queue' = Tail(queue)
    /\ LET c == Head(queue)
           all == groupBytes + size[c]
       IN  \/ /\ all <= MaxGroupBytes
              /\ group' = group \cup {c} /\ groupBytes' = all
              /\ wpc' = "window"
              /\ UNCHANGED carried
           \/ /\ all > MaxGroupBytes
              /\ wpc' = "gate"
              /\ UNCHANGED <<carried, group, groupBytes>>
(* The next request joins the group, or waits for the next one if it would  *)
(* make the group too large.                                                *)
Take ==
    /\ queue # <<>> /\ queue' = Tail(queue)
    /\ LET c == Head(queue)
           all == groupBytes + size[c]
       IN  \/ /\ all <= MaxGroupBytes
              /\ group' = group \cup {c} /\ groupBytes' = all
              /\ wpc' = "window"
              /\ UNCHANGED carried
           \/ /\ all > MaxGroupBytes
              /\ carried' = {c}
              /\ wpc' = "gate"
              /\ UNCHANGED <<group, groupBytes>>

(* try_recv: an isolated request goes ahead at once. *)
WriterTry ==
    /\ wpc = "try"
    /\ \/ /\ queue = <<>> /\ wpc' = "gate"
          /\ UNCHANGED <<queue, carried, group, groupBytes>>
       \/ Take
    /\ UNCHANGED <<callers, bytes, gate, flusher, app, errors>>

(* Otherwise requests join until the group is full or the window closes. *)
WriterWindow ==
    /\ wpc = "window"
    /\ \/ wpc' = "gate" /\ UNCHANGED <<queue, carried, group, groupBytes>>
       \/ groupBytes < MaxGroupBytes /\ Take
    /\ UNCHANGED <<callers, bytes, gate, flusher, app, errors>>

MutWriterStops ==
    /\ wpc = "recv" /\ carried = {} /\ queue = <<>> /\ app = "dropped"
    /\ wpc' = "stopped"
    /\ UNCHANGED <<callers, queue, carried, group, groupBytes, bytes, gate, flusher,
                   app, errors>>
(* The channel is closed and empty: the writer thread ends. *)
WriterStops ==
    /\ wpc = "recv" /\ carried = {} /\ queue = <<>> /\ app = "dropping"
    /\ wpc' = "stopped"
    /\ UNCHANGED <<callers, queue, carried, group, groupBytes, bytes, gate, flusher,
                   app, errors>>

-----------------------------------------------------------------------------
(* process_group and execute_group *)

Fails == errors < MaxErrors /\ errors' = errors + 1

(* Every request gets its answer, then the gate is released. *)
EndGroup(a) ==
    /\ Answer(group, a)
    /\ group' = {} /\ groupBytes' = 0 /\ wpc' = "recv" /\ gate' = "free"
    /\ UNCHANGED <<size, requests, queue, carried, app>>

MutBackpressure == memBytes > 2 * MaxMemtableBytes
Backpressure == memBytes >= 2 * MaxMemtableBytes

(* The gate is taken; a memtable at twice its bound is flushed first. *)
WriterBegin ==
    /\ wpc = "gate" /\ gate = "free" /\ ~recovery
    /\ gate' = "writer" /\ wpc' = "commit"
    /\ memBytes' = IF Backpressure THEN 0 ELSE memBytes
    /\ walBytes' = IF Backpressure THEN 0 ELSE walBytes
    /\ UNCHANGED <<callers, queue, carried, group, groupBytes, recovery, flusher, app,
                   errors>>

MutWriterRefuses ==
    /\ wpc = "gate" /\ gate = "free"
    /\ ~recovery /\ Backpressure /\ Fails
    /\ recovery' = TRUE
    /\ EndGroup("err")
    /\ UNCHANGED <<memBytes, walBytes, flusher>>
(* The group is refused: a reopen is due, or the backpressure flush fails. *)
WriterRefuses ==
    /\ wpc = "gate" /\ gate = "free"
    /\ \/ recovery /\ UNCHANGED errors
       \/ ~recovery /\ Backpressure /\ Fails
    /\ recovery' = TRUE
    /\ EndGroup("err")
    /\ UNCHANGED <<memBytes, walBytes, flusher>>

MutSchedule(spawned) ==
    /\ spawned = TRUE /\ scheduled' = TRUE
    /\ \E t \in Threads : worker[t] = "none" /\ worker' = [worker EXCEPT ![t] = "start"]
    /\ UNCHANGED errors
(* schedule_background_flush: whoever turns flush_scheduled on starts the   *)
(* thread, and turns it off again if that fails.                            *)
Schedule(spawned) ==
    \/ spawned = TRUE /\ scheduled /\ UNCHANGED <<flusher, errors>>
    \/ /\ spawned = TRUE /\ ~scheduled /\ scheduled' = TRUE
       /\ \E t \in Threads : /\ worker[t] = "none"
                             /\ worker' = [worker EXCEPT ![t] = "start"]
       /\ UNCHANGED errors
    \/ /\ spawned = FALSE /\ ~scheduled /\ Fails
       /\ UNCHANGED flusher

OverBudget(mem, w) ==
    \/ mem >= MaxMemtableBytes
    \/ MaxJournalingSize > 0 /\ w >= MaxJournalingSize

(* The WAL is synced, the group applied; the new entries may replace some   *)
(* of the memtable's.  Over budget the flusher is scheduled; if no thread   *)
(* can be started the group is applied but answered with an error.          *)
WriterCommit ==
    /\ wpc = "commit"
    /\ \E mem \in groupBytes..(memBytes + groupBytes) :
       LET w == walBytes + groupBytes
       IN  /\ memBytes' = mem /\ walBytes' = w
           /\ \/ /\ ~OverBudget(mem, w) /\ EndGroup("ok")
                 /\ UNCHANGED <<recovery, flusher, errors>>
              \/ /\ OverBudget(mem, w)
                 /\ Schedule(TRUE) /\ EndGroup("ok") /\ UNCHANGED recovery
              \/ /\ OverBudget(mem, w)
                 /\ Schedule(FALSE) /\ EndGroup("err") /\ recovery' = TRUE

(* The commit fails: before the sync nothing is kept, after it a reopen is  *)
(* due.                                                                     *)
WriterCommitFails ==
    /\ wpc = "commit" /\ Fails
    /\ \/ UNCHANGED bytes
       \/ /\ walBytes' = walBytes + groupBytes
          /\ recovery' = TRUE
          /\ UNCHANGED memBytes
    /\ EndGroup("err")
    /\ UNCHANGED flusher

-----------------------------------------------------------------------------
(* background_flush_worker *)

(* Who keeps Inner alive, and with it the LOCK file (Drop for Inner). *)
Locked ==
    \/ app = "open"
    \/ wpc \notin {"recv", "stopped"}
    \/ \E t \in Threads : worker[t] = "flush"

Moves(t, pc) == worker' = [worker EXCEPT ![t] = pc]

(* inner_weak.upgrade() *)
WorkerUpgrade(t) ==
    /\ worker[t] = "start"
    /\ Moves(t, IF Locked THEN "flush" ELSE "exit")
    /\ UNCHANGED <<callers, channel, bytes, gate, scheduled, app, errors>>

(* With the gate and the inner lock: flush, and compact if need be; either  *)
(* may fail.  After a flush pending_table_bytes is zero, so the loop ends.  *)
WorkerFlush(t) ==
    /\ worker[t] = "flush" /\ gate = "free"
    /\ \/ /\ recovery \/ memBytes = 0
          /\ UNCHANGED <<bytes, errors>>
       \/ /\ ~recovery /\ memBytes > 0
          /\ memBytes' = 0 /\ walBytes' = 0
          /\ UNCHANGED <<recovery, errors>>
       \/ /\ ~recovery /\ memBytes > 0
          /\ Fails /\ recovery' = TRUE
          /\ \/ UNCHANGED <<memBytes, walBytes>>
             \/ memBytes' = 0 /\ walBytes' = 0
    /\ Moves(t, "exit")
    /\ UNCHANGED <<callers, channel, gate, scheduled, app>>

(* scheduled.store(false) *)
WorkerStore(t) ==
    /\ worker[t] = "exit"
    /\ scheduled' = FALSE
    /\ Moves(t, "recheck")
    /\ UNCHANGED <<callers, channel, bytes, gate, app, errors>>

MutReschedule == FALSE
(* The memtable filled up again before flush_scheduled was turned off. *)
Reschedule == Locked /\ ~recovery /\ memBytes >= MaxMemtableBytes

WorkerRecheck(t) ==
    /\ worker[t] = "recheck"
    /\ Moves(t, IF Reschedule THEN "respawn" ELSE "none")
    /\ UNCHANGED <<callers, channel, bytes, gate, scheduled, app, errors>>

(* schedule_background_flush again; the new thread takes over this one's    *)
(* identity.                                                                *)
WorkerRespawn(t) ==
    /\ worker[t] = "respawn"
    /\ \/ /\ Locked /\ ~scheduled
          /\ scheduled' = TRUE /\ Moves(t, "start")
          /\ UNCHANGED <<recovery, errors>>
       \/ /\ Locked /\ ~scheduled /\ Fails
          /\ recovery' = TRUE /\ Moves(t, "none")
          /\ UNCHANGED scheduled
       \/ /\ scheduled \/ ~Locked
          /\ Moves(t, "none")
          /\ UNCHANGED <<scheduled, recovery, errors>>
    /\ UNCHANGED <<callers, channel, memBytes, walBytes, gate, app>>

-----------------------------------------------------------------------------
(* persist() or compact() by a caller.  One that fails leaves the database   *)
(* open and the memtable as it was; a compact() that has installed its      *)
(* table and cannot cut the WAL leaves only the journal.                    *)
Persist ==
    /\ app = "open" /\ gate = "free" /\ ~recovery
    /\ \/ memBytes' = 0 /\ walBytes' = 0 /\ UNCHANGED errors
       \/ Fails /\ memBytes' \in {0, memBytes} /\ UNCHANGED walBytes
    /\ UNCHANGED <<callers, channel, recovery, gate, flusher, app>>

(* The last handle is dropped: first its reference to Inner and the         *)
(* sender, then it joins the writer thread (Drop for WriterCoordinator).    *)
Drop ==
    /\ app = "open" /\ \A c \in Clients : ~Busy(c)
    /\ app' = "dropping"
    /\ UNCHANGED <<callers, channel, bytes, gate, flusher, errors>>

DropReturns ==
    /\ app = "dropping" /\ wpc = "stopped"
    /\ app' = "dropped"
    /\ UNCHANGED <<callers, channel, bytes, gate, flusher, errors>>

WriterNext ==
    \/ WriterRecv \/ WriterTry \/ WriterWindow \/ WriterStops
    \/ WriterBegin \/ WriterRefuses \/ WriterCommit \/ WriterCommitFails

WorkerNext(t) ==
    \/ WorkerUpgrade(t) \/ WorkerFlush(t) \/ WorkerStore(t)
    \/ WorkerRecheck(t) \/ WorkerRespawn(t)

Next ==
    \/ \E c \in Clients, n \in Sizes : Call(c, n)
    \/ \E c \in Clients : Send(c)
    \/ WriterNext
    \/ \E t \in Threads : WorkerNext(t)
    \/ Persist \/ Drop \/ DropReturns

(* Threads that can run do run; nobody has to call, persist or drop. *)
Fairness ==
    /\ WF_vars(WriterNext)
    /\ WF_vars(DropReturns)
    /\ \A c \in Clients : WF_vars(Send(c))
    /\ \A t \in Threads : WF_vars(WorkerNext(t))

Spec == Init /\ [][Next]_vars /\ Fairness

-----------------------------------------------------------------------------
(* Properties *)

(* Every variable keeps its type. *)
TypeOK ==
    /\ answer \in [Clients -> {"idle", "sending", "waiting", "ok", "err"}]
    /\ size \in [Clients -> Sizes]
    /\ queue \in Seq(Clients) /\ carried \subseteq Clients
    /\ group \subseteq Clients /\ groupBytes \in Nat
    /\ wpc \in {"recv", "try", "window", "gate", "commit", "stopped"}
    /\ memBytes \in Nat /\ walBytes \in Nat /\ recovery \in BOOLEAN
    /\ gate \in {"free", "writer"}
    /\ scheduled \in BOOLEAN
    /\ worker \in [Threads -> {"none", "start", "flush", "exit", "recheck", "respawn"}]
    /\ app \in {"open", "dropping", "dropped"}
    /\ requests \in Nat /\ errors \in Nat

Flushing(t) == worker[t] \in {"start", "flush", "exit"}

(* flush_scheduled admits one flusher at a time, through every race of the  *)
(* writer's swap with the worker's store and its own rescheduling.          *)
SingleFlusher ==
    /\ \A t, u \in Threads : Flushing(t) /\ Flushing(u) => t = u
    /\ scheduled <=> \E t \in Threads : Flushing(t)

Queued == {queue[i] : i \in DOMAIN queue}

(* A request is in exactly one place, the channel, `pending` or the group,  *)
(* from the moment it was sent until it is answered: the writer neither     *)
(* drops one that does not fit nor commits one twice.                       *)
RequestInOnePlace ==
    /\ \A i, j \in DOMAIN queue : queue[i] = queue[j] => i = j
    /\ Queued \cap carried = {} /\ Queued \cap group = {} /\ carried \cap group = {}
    /\ \A c \in Clients :
          answer[c] = "waiting" <=> c \in Queued \cup carried \cup group

(* Backpressure bounds memory: however far the flusher falls behind, the    *)
(* memtable stays below twice its bound and one group, which is at most     *)
(* MAX_GROUP_BYTES or a single larger request.                              *)
MemtableBounded ==
    \E n \in Sizes \cup {MaxGroupBytes} : memBytes < 2 * MaxMemtableBytes + n

(* Every commit call returns, with the channel full, after a failure and    *)
(* while the database needs a reopen.                                       *)
EveryCallReturns == \A c \in Clients : Busy(c) ~> ~Busy(c)

(* No wakeup is lost for the memtable: over its bound it gets flushed, even *)
(* if the commit that filled it found a flusher that was about to end.      *)
MemtableFlushed ==
    memBytes >= MaxMemtableBytes ~>
        memBytes < MaxMemtableBytes \/ recovery \/ app # "open"

(* The journal ceiling: a WAL over its bound gets flushed. *)
JournalFlushed ==
    MaxJournalingSize > 0 /\ walBytes >= MaxJournalingSize ~>
        walBytes < MaxJournalingSize \/ recovery \/ app # "open"

(* Dropping the database ends: the writer thread is joined and, once the    *)
(* flusher is through, the LOCK file is removed.                            *)
DropCompletes == app = "dropping" ~> app = "dropped" /\ ~Locked
=============================================================================
