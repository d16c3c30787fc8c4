------------------------------- MODULE ThingDB -------------------------------
(***************************************************************************)
(* The durable mode of the ThingDB key-value engine                        *)
(* (crates/thingdb/src/lib.rs): group commit through the write-ahead log,  *)
(* the mutable tables, flush and compaction into immutable tables, the     *)
(* manifest, crashes at every disk step, and recovery on open.             *)
(*                                                                         *)
(* Every operation that changes the database holds commit_gate from start  *)
(* to end; a group commit releases the `inner` lock while it writes and    *)
(* syncs the WAL, a flush or a compaction keeps it.  An action is the code *)
(* between two points at which a crash, an I/O error or another thread can *)
(* be noticed.                                                             *)
(*                                                                         *)
(* Maps from keys to bytes are total functions over Keys; Absent is "no    *)
(* entry", Tombstone is the None that pending_table and tables store for a *)
(* deleted key.  WAL offsets are counted in frames.                        *)
(***************************************************************************)
EXTENDS Integers, Sequences, FiniteSets, FiniteSetsExt

CONSTANTS
    Keys,             \* physical keys (namespace and user key)
    Values,           \* stored values
    Absent,           \* no entry for the key
    Tombstone,        \* the entry of a deleted key
    Batches,          \* the batches clients may commit
    MaxGroup,         \* bound on the requests one group commit carries
    MaxSequence,      \* bound on the commit sequence
    MaxOpens,         \* bound on how often the database is opened
    MaxMemtableBytes, \* DatabaseBuilder::max_memtable_bytes
    MaxTableLayers,   \* DatabaseBuilder::max_table_layers
    Faults,           \* the steps at which an I/O error may strike
    MaxErrors         \* bound on the I/O errors of one behaviour

Slot == Values \cup {Absent, Tombstone}
Map == [Keys -> Slot]
EmptyMap == [k \in Keys |-> Absent]

ASSUME KeysAssumption == Keys # {} /\ IsFiniteSet(Keys)
ASSUME ValuesAssumption ==
    /\ Absent \notin Values
    /\ Tombstone \notin Values
    /\ Absent # Tombstone
ASSUME BatchesAssumption == Batches \subseteq Map \ {EmptyMap}
ASSUME BoundsAssumption ==
    /\ MaxGroup \in Nat \ {0}
    /\ MaxSequence \in Nat
    /\ MaxOpens \in Nat
    /\ MaxErrors \in Nat
    /\ MaxMemtableBytes \in Nat \ {0}
    /\ MaxTableLayers \in Nat \ {0}

(* Where an I/O error may strike.  The steps of a flush or a compaction are *)
(* named after the value of fpc; "write" fails before any byte is written,  *)
(* "torn" after some; "truncate" is the set_len that drops a frame whose    *)
(* sync failed; "apply" is the test hook after-wal-sync-before-state-apply; *)
(* "spawn" is starting the background flusher; "reload" is re-reading the   *)
(* table after the manifest was published.                                  *)
FaultPoints == {"write", "torn", "sync", "truncate", "apply", "spawn", "table",
                "manifest", "dirsync", "reload", "setlen", "walsync"}
ASSUME FaultsAssumption == Faults \subseteq FaultPoints

(* A table file, as its name compares: table-<sequence>-<number of tables>  *)
(* for a flush, table-<sequence>-compact, which sorts after every number,   *)
(* for a compaction.  Numbers compare as such up to their four digits.      *)
TableName == Nat \X {0, 1} \X Nat
FlushName(seq, count) == <<seq, 0, count>>
CompactName(seq) == <<seq, 1, 0>>
NameLess(a, b) ==
    \/ a[1] < b[1]
    \/ a[1] = b[1] /\ (a[2] < b[2] \/ (a[2] = b[2] /\ a[3] < b[3]))

Frame == [seq : Nat, batch : Map, whole : BOOLEAN]
Manifest == [files : Seq(TableName), seq : Nat]
Job == [kind : {"flush", "compact"},
        by : {"persist", "compact", "worker", "backpressure", "writer"},
        entries : Map, name : TableName, files : Seq(TableName)]

VARIABLES
    \* the directory
    wal,              \* the WAL as the operating system shows it
    walDurable,       \* the WAL a power failure leaves behind
    manifest,         \* MANIFEST.json as the operating system shows it
    manifestDurable,  \* MANIFEST.json a power failure leaves behind
    tables,           \* table files: name -> entries
    \* struct Inner
    up,               \* "open", "closed", or "locked": dead, LOCK left behind
    state,            \* Inner::state
    pending,          \* Inner::pending_table
    layers,           \* Inner::table_layers, oldest first
    tableFiles,       \* Inner::table_files
    sequence,         \* Inner::sequence
    recovery,         \* Inner::recovery_required
    journal,          \* diagnostics.journal_bytes, in frames
    \* the threads
    gate,             \* holder of commit_gate: "free", "writer", "maint"
    wpc, group, walStart, moved,  \* writer thread: process_group, execute_group
    fpc, job,         \* flush_table_locked or compact_tables_locked in progress
    \* history
    log,              \* log[s]: the batch committed with sequence s
    replayed,         \* keys last written by a batch that came back by replay
    unacked,          \* sequences that came back though their caller died waiting
    opens,            \* how often the database has been opened
    errors            \* how many I/O errors have struck

disk == <<wal, walDurable, manifest, manifestDurable, tables>>
memory == <<state, pending, layers, tableFiles, sequence, journal>>
writer == <<wpc, group, walStart, moved>>
past == <<log, replayed, unacked, opens>>
history == <<past, errors>>
vars == <<disk, up, memory, recovery, gate, writer, fpc, job, history>>

-----------------------------------------------------------------------------
(* Maps *)

Strip(slot) == IF slot = Tombstone THEN Absent ELSE slot

(* The entry for k in the newest of the maps f[i], i in I, that has one. *)
Newest(I, f, k) ==
    LET T == {i \in I : f[i][k] # Absent}
    IN  IF T = {} THEN Absent ELSE f[Max(T)][k]

(* The entries the batches of g leave behind, applied in order. *)
GroupEffect(g) == [k \in Keys |-> Newest(DOMAIN g, g, k)]

(* apply_operation: the recovered and the in-memory map hold no tombstones. *)
Applied(m, b) == [k \in Keys |-> IF b[k] = Absent THEN m[k] ELSE Strip(b[k])]

MutRecorded(m, b) == Applied(m, b)
(* apply_operation_with_pending keeps a tombstone for a deleted key. *)
Recorded(m, b) == [k \in Keys |-> IF b[k] = Absent THEN m[k] ELSE b[k]]

(* pending_table_bytes for keys and values of one byte each. *)
PendingBytes(m) ==
    3 * Cardinality({k \in Keys : m[k] \in Values})
        + 2 * Cardinality({k \in Keys : m[k] = Tombstone})

(* The read path: pending_table, then state, then the newest table layer.   *)
Get(k) ==
    IF pending[k] # Absent THEN Strip(pending[k])
    ELSE IF state[k] # Absent THEN state[k]
    ELSE Strip(Newest(DOMAIN layers, layers, k))

(* materialize_state: tables, then state, then pending_table on top. *)
Materialize ==
    LET tabled == [k \in Keys |-> Strip(Newest(DOMAIN layers, layers, k))]
    IN  Applied(Recorded(tabled, state), pending)

(* What the commits so far say a reader should see. *)
Expected(k) == Strip(Newest(DOMAIN log, log, k))

-----------------------------------------------------------------------------
(* Recovery: validate_manifest, table checks, replay_wal *)

ManifestOpens(m) ==
    /\ m.files = <<>> => m.seq = 0
    /\ \A i \in 1..(Len(m.files) - 1) : NameLess(m.files[i], m.files[i + 1])
    /\ \A i \in DOMAIN m.files :
           m.files[i] \in DOMAIN tables /\ m.files[i][1] <= m.seq

(* Frames before the first torn one; replay gets no further.  A torn frame  *)
(* at the end is cut off; one with frames behind it lacks bytes, which      *)
(* replay_wal takes from them, and then the checksum, the length or the     *)
(* next magic is wrong and the open is refused, unless what is behind is    *)
(* shorter than what the frame lacks.                                       *)
Readable(w) == {i \in DOMAIN w : \A j \in 1..i : w[j].whole}

MutAccepted(w, tableSeq) ==
    {i \in Readable(w) :
        w[i].seq > tableSeq + 1 /\ \A j \in 1..(i - 1) : w[j].seq < w[i].seq}
(* Frames whose operations replay applies: the sequence must exceed the    *)
(* table sequence and every sequence seen before.                          *)
Accepted(w, tableSeq) ==
    {i \in Readable(w) :
        w[i].seq > tableSeq /\ \A j \in 1..(i - 1) : w[j].seq < w[i].seq}

(* The sequence the database continues from. *)
LastReplayed(w, tableSeq) ==
    LET A == Accepted(w, tableSeq) IN IF A = {} THEN tableSeq ELSE w[Max(A)].seq

(* replay_wal writes into state only: a replayed delete leaves nothing.     *)
ReplayedState(w, tableSeq) ==
    [k \in Keys |->
        Strip(Newest(Accepted(w, tableSeq), [i \in DOMAIN w |-> w[i].batch], k))]

(* The batch that replay brings back under sequence s. *)
ReplayedBatch(w, tableSeq, s) ==
    LET I == {i \in Accepted(w, tableSeq) : w[i].seq = s}
    IN  IF I = {} THEN EmptyMap ELSE w[CHOOSE i \in I : TRUE].batch

-----------------------------------------------------------------------------
FreshMemory ==
    /\ state' = EmptyMap
    /\ pending' = EmptyMap
    /\ layers' = <<>>
    /\ tableFiles' = <<>>
    /\ sequence' = 0
    /\ journal' = 0

NoJob == [kind |-> "flush", by |-> "persist", entries |-> EmptyMap,
          name |-> FlushName(0, 0), files |-> <<>>]

(* An empty directory, opened for the first time. *)
Init ==
    /\ wal = <<>> /\ walDurable = <<>>
    /\ manifest = [files |-> <<>>, seq |-> 0]
    /\ manifestDurable = manifest
    /\ tables = [n \in {} |-> EmptyMap]
    /\ up = "open"
    /\ state = EmptyMap /\ pending = EmptyMap
    /\ layers = <<>> /\ tableFiles = <<>>
    /\ sequence = 0 /\ journal = 0 /\ recovery = FALSE
    /\ gate = "free"
    /\ wpc = "idle" /\ group = <<>> /\ walStart = 0 /\ moved = FALSE
    /\ fpc = "idle" /\ job = NoJob
    /\ log = <<>> /\ replayed = {} /\ unacked = {} /\ opens = 1 /\ errors = 0

-----------------------------------------------------------------------------
(* The group commit: process_group and execute_group *)

Frames(g, first) ==
    [i \in 1..Len(g) |->
        [seq |-> first + i - 1, batch |-> g[i], whole |-> TRUE]]

Touched(m) == {k \in Keys : m[k] # Absent}

(* set_len on the WAL; past the end it pads with bytes that are no frame.   *)
SetLen(w, n) ==
    [i \in 1..n |-> IF i \in DOMAIN w THEN w[i]
                    ELSE [seq |-> 0, batch |-> EmptyMap, whole |-> FALSE]]

ReleaseWriter ==
    /\ gate' = "free"
    /\ wpc' = "idle" /\ group' = <<>> /\ walStart' = 0 /\ moved' = FALSE

FlushJob(by, updates, seq) ==
    LET name == FlushName(seq, Len(tableFiles))
    IN  [kind |-> "flush", by |-> by, entries |-> updates,
         name |-> name, files |-> Append(tableFiles, name)]

CompactJob(by) ==
    LET name == CompactName(sequence)
    IN  [kind |-> "compact", by |-> by, entries |-> Materialize,
         name |-> name, files |-> <<name>>]

(* The writer thread takes the gate for a group.  A memtable that has       *)
(* reached twice its bound is flushed first; otherwise the WAL length, the  *)
(* next sequence and the state generation are sampled.                      *)
WriterBegin(g) ==
    /\ up = "open" /\ gate = "free" /\ fpc = "idle" /\ ~recovery
    /\ sequence + Len(g) <= MaxSequence
    /\ gate' = "writer" /\ group' = g
    /\ LET full == /\ MaxMemtableBytes > 1
                   /\ PendingBytes(pending) >= 2 * MaxMemtableBytes
       IN  /\ wpc' = IF full THEN "backpressure" ELSE "write"
           /\ fpc' = IF full THEN "table" ELSE fpc
           /\ job' = IF full THEN FlushJob("backpressure", pending, sequence)
                             ELSE job
           /\ walStart' = journal
           /\ moved' = FALSE
    /\ UNCHANGED <<disk, up, memory, recovery, history>>

(* An I/O error strikes. *)
Fault(point) ==
    /\ point \in Faults
    /\ errors < MaxErrors /\ errors' = errors + 1

(* Another operation changed the database since the group was sampled. *)
Conflict == recovery \/ moved

(* write_all of the group's frames, one per request, under wal_io_lock. *)
WriterWrite ==
    /\ up = "open" /\ wpc = "write" /\ fpc = "idle" /\ ~Conflict
    /\ wal' = wal \o Frames(group, sequence + 1)
    /\ wpc' = "sync"
    /\ UNCHANGED <<walDurable, manifest, manifestDurable, tables, up, memory,
                   recovery, gate, group, walStart, moved, fpc, job, history>>

(* Nothing is written: the database changed meanwhile, or write_all failed. *)
WriterWriteFails ==
    /\ up = "open" /\ wpc = "write" /\ fpc = "idle"
    /\ \/ Conflict /\ UNCHANGED errors
       \/ Fault("write")
    /\ ReleaseWriter
    /\ UNCHANGED <<disk, up, memory, recovery, fpc, job, past>>

(* write_all gives up half way: `appended` stays false, nothing is cut off. *)
WriterWriteTorn ==
    /\ up = "open" /\ wpc = "write" /\ fpc = "idle"
    /\ Fault("torn")
    /\ wal' = Append(wal, [seq |-> sequence + 1, batch |-> group[1],
                           whole |-> FALSE])
    /\ ReleaseWriter
    /\ UNCHANGED <<walDurable, manifest, manifestDurable, tables, up, memory,
                   recovery, fpc, job, past>>

WriterSync ==
    /\ up = "open" /\ wpc = "sync"
    /\ walDurable' = wal
    /\ journal' = walStart + Len(group)
    /\ wpc' = "apply"
    /\ UNCHANGED <<wal, manifest, manifestDurable, tables, up, state, pending,
                   layers, tableFiles, sequence, recovery, gate, group,
                   walStart, moved, fpc, job, history>>

(* The sync fails, so the frames may or may not be on disk; the group is    *)
(* refused and, unless set_len fails too, its frames are cut off again.     *)
WriterSyncFails ==
    /\ up = "open" /\ wpc = "sync"
    /\ Fault("sync")
    /\ walDurable' \in {walDurable, wal}
    /\ \/ wal' = SetLen(wal, walStart) /\ journal' = walStart
       \/ "truncate" \in Faults /\ UNCHANGED <<wal, journal>>
    /\ ReleaseWriter
    /\ UNCHANGED <<manifest, manifestDurable, tables, up, state, pending,
                   layers, tableFiles, sequence, recovery, fpc, job, past>>

(* The state changes a synced group makes under the inner lock. *)
ApplyGroup ==
    LET effect == GroupEffect(group)
    IN  /\ state' = Applied(state, effect)
        /\ pending' = Recorded(pending, effect)
        /\ sequence' = sequence + Len(group)
        /\ log' = log \o group
        /\ replayed' = replayed \ Touched(effect)

(* The synced group becomes visible and is acknowledged.  With a memtable   *)
(* bound of one byte the flush comes first; with a larger one the           *)
(* background flusher is scheduled (module Checkpoint).                     *)
WriterApply ==
    /\ up = "open" /\ wpc = "apply" /\ fpc = "idle" /\ ~Conflict
    /\ ApplyGroup
    /\ \/ /\ MaxMemtableBytes <= 1
          /\ wpc' = "flush" /\ fpc' = "table"
          /\ job' = FlushJob("writer", pending', sequence')
          /\ UNCHANGED <<gate, group, walStart, moved>>
       \/ /\ MaxMemtableBytes > 1
          /\ ReleaseWriter
          /\ UNCHANGED <<fpc, job>>
    /\ UNCHANGED <<disk, up, layers, tableFiles, journal, recovery, unacked,
                   opens, errors>>

(* The flusher thread cannot be started: the group is applied, refused, and *)
(* the database needs to be reopened.                                       *)
WriterSpawnFails ==
    /\ up = "open" /\ wpc = "apply" /\ fpc = "idle" /\ ~Conflict
    /\ Fault("spawn")
    /\ MaxMemtableBytes > 1
    /\ ApplyGroup
    /\ PendingBytes(pending') >= MaxMemtableBytes
    /\ recovery' = TRUE
    /\ ReleaseWriter
    /\ UNCHANGED <<disk, up, layers, tableFiles, journal, fpc, job, unacked,
                   opens>>

(* An error after the sync: the frames are durable but not applied. *)
WriterApplyFails ==
    /\ up = "open" /\ wpc = "apply" /\ fpc = "idle"
    /\ \/ Conflict /\ UNCHANGED errors
       \/ Fault("apply")
    /\ recovery' = TRUE
    /\ ReleaseWriter
    /\ UNCHANGED <<disk, up, memory, fpc, job, past>>

-----------------------------------------------------------------------------
(* flush_table_locked and compact_tables_locked *)

MutBeginFlush(by) ==
    /\ up = "open" /\ fpc = "idle" /\ ~recovery
    /\ pending # EmptyMap
    /\ gate' = "maint" /\ fpc' = "table"
    /\ job' = FlushJob(by, pending, sequence)
    /\ UNCHANGED <<disk, up, memory, recovery, writer, history>>
(* persist(), or the background flusher, with something to flush. *)
BeginFlush(by) ==
    /\ up = "open" /\ gate = "free" /\ fpc = "idle" /\ ~recovery
    /\ pending # EmptyMap
    /\ gate' = "maint" /\ fpc' = "table"
    /\ job' = FlushJob(by, pending, sequence)
    /\ UNCHANGED <<disk, up, memory, recovery, writer, history>>

(* persist() with an empty memtable only syncs the WAL. *)
PersistNothing ==
    /\ up = "open" /\ gate = "free" /\ fpc = "idle" /\ ~recovery
    /\ pending = EmptyMap
    /\ walDurable' = wal
    /\ UNCHANGED <<wal, manifest, manifestDurable, tables, up, memory,
                   recovery, gate, writer, fpc, job, history>>

(* compact() syncs the WAL and gathers everything a reader can see. *)
BeginCompact ==
    /\ up = "open" /\ gate = "free" /\ fpc = "idle" /\ ~recovery
    /\ walDurable' = wal
    /\ gate' = "maint" /\ fpc' = "table"
    /\ job' = CompactJob("compact")
    /\ UNCHANGED <<wal, manifest, manifestDurable, tables, up, memory,
                   recovery, writer, history>>

(* The table is written to a temporary file, synced and renamed.  Only the  *)
(* directory sync of write_manifest makes the rename durable; no earlier    *)
(* manifest names the table, and directory operations are assumed to reach  *)
(* the disk in the order they were made, so the table is there whenever the *)
(* manifest that names it is.                                               *)
WriteTable ==
    /\ up = "open" /\ fpc = "table"
    /\ tables' = [n \in DOMAIN tables \cup {job.name} |->
                     IF n = job.name THEN job.entries ELSE tables[n]]
    /\ fpc' = "manifest"
    /\ UNCHANGED <<wal, walDurable, manifest, manifestDurable, up, memory,
                   recovery, gate, writer, job, history>>

(* write_manifest: the new manifest is written, synced and renamed ... *)
WriteManifest ==
    /\ up = "open" /\ fpc = "manifest"
    /\ manifest' = [files |-> job.files, seq |-> job.name[1]]
    /\ fpc' = "dirsync"
    /\ UNCHANGED <<wal, walDurable, manifestDurable, tables, up, memory,
                   recovery, gate, writer, job, history>>

MutSyncDirectory ==
    /\ up = "open" /\ fpc = "dirsync"
    /\ fpc' = "install"
    /\ UNCHANGED <<disk, up, memory, recovery, gate, writer, job, history>>
(* ... and the directory entry is made durable. *)
SyncDirectory ==
    /\ up = "open" /\ fpc = "dirsync"
    /\ manifestDurable' = manifest
    /\ fpc' = "install"
    /\ UNCHANGED <<wal, walDurable, manifest, tables, up, memory,
                   recovery, gate, writer, job, history>>

MutTablesKept ==
    IF job.kind = "flush" THEN tables
    ELSE [n \in {m \in DOMAIN tables :
                    \A i \in DOMAIN tableFiles : tableFiles[i] # m} |-> tables[n]]
(* A compaction deletes the tables it replaces. *)
TablesKept ==
    IF job.kind = "flush" THEN tables
    ELSE [n \in {m \in DOMAIN tables :
                    m = job.name \/ \A i \in DOMAIN tableFiles : tableFiles[i] # m}
            |-> tables[n]]

(* The new table is opened and becomes a layer; the mutable maps go. *)
Install ==
    /\ up = "open" /\ fpc = "install"
    /\ tableFiles' = job.files
    /\ tables' = TablesKept
    /\ layers' = IF job.kind = "flush" THEN Append(layers, tables[job.name])
                 ELSE <<tables[job.name]>>
    /\ state' = EmptyMap /\ pending' = EmptyMap
    /\ moved' = TRUE
    /\ fpc' = "setlen"
    /\ UNCHANGED <<wal, walDurable, manifest, manifestDurable, up, sequence,
                   journal, recovery, gate, wpc, group, walStart, job, history>>

TruncateWal ==
    /\ up = "open" /\ fpc = "setlen"
    /\ wal' = <<>>
    /\ fpc' = "walsync"
    /\ UNCHANGED <<walDurable, manifest, manifestDurable, tables, up, memory,
                   recovery, gate, writer, job, history>>

(* The empty WAL is synced and the operation ends: a backpressure flush     *)
(* lets its group go on, a flush by the writer or the background flusher    *)
(* compacts when there are too many layers, otherwise the gate is released. *)
SyncEmptyWal ==
    /\ up = "open" /\ fpc = "walsync"
    /\ walDurable' = wal
    /\ journal' = 0
    /\ LET compactNext == /\ job.kind = "flush" /\ job.by \in {"worker", "writer"}
                          /\ Len(layers) >= MaxTableLayers
       IN  \/ /\ compactNext
              /\ fpc' = "table" /\ job' = CompactJob(job.by)
              /\ UNCHANGED <<gate, writer>>
           \/ /\ job.by = "backpressure"
              /\ fpc' = "idle" /\ job' = NoJob
              /\ wpc' = "write" /\ walStart' = 0 /\ moved' = FALSE
              /\ UNCHANGED <<gate, group>>
           \/ /\ ~compactNext /\ job.by = "writer"
              /\ fpc' = "idle" /\ job' = NoJob
              /\ ReleaseWriter
           \/ /\ ~compactNext /\ job.by \notin {"backpressure", "writer"}
              /\ fpc' = "idle" /\ job' = NoJob
              /\ gate' = "free"
              /\ UNCHANGED writer
    /\ UNCHANGED <<wal, manifest, manifestDurable, tables, up, state, pending,
                   layers, tableFiles, sequence, recovery, history>>

(* The memtable after a failure: a flush puts the updates it took back. *)
MutRestored == IF job.kind = "flush" THEN EmptyMap ELSE pending
Restored == IF job.kind = "flush" THEN job.entries ELSE pending

(* A step of the operation fails; only the writer and the background        *)
(* flusher then demand a reopen.                                            *)
JobFails ==
    /\ up = "open" /\ fpc # "idle"
    /\ Fault(IF fpc = "install" THEN "reload" ELSE fpc)
    /\ tableFiles' = IF fpc = "install" THEN job.files ELSE tableFiles
    /\ tables' = IF fpc = "install" THEN TablesKept ELSE tables
    /\ pending' = Restored
    /\ fpc' = "idle" /\ job' = NoJob
    /\ \/ /\ job.by \in {"persist", "compact"}
          /\ gate' = "free"
          /\ UNCHANGED <<recovery, writer>>
       \/ /\ job.by = "worker"
          /\ gate' = "free" /\ recovery' = TRUE
          /\ UNCHANGED writer
       \/ /\ job.by \in {"backpressure", "writer"}
          /\ recovery' = TRUE
          /\ ReleaseWriter
    /\ UNCHANGED <<wal, walDurable, manifest, manifestDurable, up, state,
                   layers, sequence, journal, past>>

-----------------------------------------------------------------------------
(* Crash, close and open *)

(* What is left of the WAL: the durable one, the visible one, or, when the  *)
(* visible one extends it, anything in between (a torn frame is dropped).   *)
SurvivingWals ==
    {walDurable, wal} \cup
        {SubSeq(wal, 1, n) : n \in {m \in 0..Len(wal) :
            /\ m >= Len(walDurable)
            /\ \A i \in DOMAIN walDurable : wal[i] = walDurable[i]}}

Forget ==
    /\ FreshMemory
    /\ recovery' = FALSE
    /\ gate' = "free" /\ fpc' = "idle" /\ job' = NoJob
    /\ wpc' = "idle" /\ group' = <<>> /\ walStart' = 0 /\ moved' = FALSE

(* The process dies, or the machine loses power; LOCK stays behind. *)
Crash ==
    /\ up = "open"
    /\ up' = "locked"
    /\ wal' \in SurvivingWals /\ walDurable' = wal'
    /\ manifest' \in {manifest, manifestDurable} /\ manifestDurable' = manifest'
    /\ Forget
    /\ UNCHANGED <<tables, history>>

(* Database and Inner are dropped: the writer is joined, LOCK is removed. *)
Close ==
    /\ up = "open" /\ gate = "free"
    /\ up' = "closed"
    /\ Forget
    /\ UNCHANGED <<disk, history>>

(* The operator removes a LOCK file left by a dead process; open() alone    *)
(* answers "database is locked".                                            *)
RemoveLock ==
    /\ up = "locked"
    /\ up' = "closed"
    /\ UNCHANGED <<disk, memory, recovery, gate, writer, fpc, job, history>>

(* open_locked: manifest and tables are checked, the WAL is replayed and a  *)
(* torn tail cut off.  pending_table starts empty.  An open that is refused *)
(* changes nothing and is a stuttering step; nothing obliges Open to        *)
(* happen, so a WAL torn in the middle (see Readable) has both outcomes.    *)
Open ==
    /\ up = "closed" /\ opens < MaxOpens
    /\ ManifestOpens(manifest)
    /\ up' = "open" /\ opens' = opens + 1
    /\ LET valid == SubSeq(wal, 1, IF Readable(wal) = {} THEN 0
                                   ELSE Max(Readable(wal)))
           A == Accepted(wal, manifest.seq)
           last == LastReplayed(wal, manifest.seq)
       IN  /\ wal' = valid /\ walDurable' = valid /\ journal' = Len(valid)
           /\ state' = ReplayedState(wal, manifest.seq)
           /\ sequence' = last
           /\ replayed' = replayed \cup UNION {Touched(wal[i].batch) : i \in A}
           /\ unacked' = unacked \cup ({wal[i].seq : i \in A} \ (1..Len(log)))
           /\ log' = [s \in 1..(IF last > Len(log) THEN last ELSE Len(log)) |->
                         IF s <= Len(log) THEN log[s]
                         ELSE ReplayedBatch(wal, manifest.seq, s)]
    /\ tableFiles' = manifest.files
    /\ layers' = [i \in 1..Len(manifest.files) |-> tables[manifest.files[i]]]
    /\ UNCHANGED <<manifest, manifestDurable, tables, pending, recovery, gate,
                   writer, fpc, job, errors>>

-----------------------------------------------------------------------------
Groups == UNION {[1..n -> Batches] : n \in 1..MaxGroup}

WriterNext ==
    \/ \E g \in Groups : WriterBegin(g)
    \/ WriterWrite \/ WriterWriteFails \/ WriterWriteTorn
    \/ WriterSync \/ WriterSyncFails
    \/ WriterApply \/ WriterSpawnFails \/ WriterApplyFails

MaintenanceNext ==
    \/ \E by \in {"persist", "worker"} : BeginFlush(by)
    \/ PersistNothing \/ BeginCompact
    \/ WriteTable \/ WriteManifest \/ SyncDirectory \/ Install
    \/ TruncateWal \/ SyncEmptyWal \/ JobFails

LifecycleNext == Crash \/ Close \/ RemoveLock \/ Open

Next == WriterNext \/ MaintenanceNext \/ LifecycleNext

Spec == Init /\ [][Next]_vars

-----------------------------------------------------------------------------
(* Properties *)

(* Every variable keeps its type: the maps and files of struct Inner and    *)
(* the positions of process_group and flush_table_locked.                   *)
TypeOK ==
    /\ wal \in Seq(Frame) /\ walDurable \in Seq(Frame)
    /\ manifest \in Manifest /\ manifestDurable \in Manifest
    /\ DOMAIN tables \subseteq TableName /\ tables \in [DOMAIN tables -> Map]
    /\ up \in {"open", "closed", "locked"}
    /\ state \in Map /\ pending \in Map
    /\ layers \in Seq(Map) /\ tableFiles \in Seq(TableName)
    /\ sequence \in Nat /\ journal \in Nat /\ recovery \in BOOLEAN
    /\ gate \in {"free", "writer", "maint"}
    /\ wpc \in {"idle", "backpressure", "write", "sync", "apply", "flush"}
    /\ group \in Seq(Batches) /\ walStart \in Nat /\ moved \in BOOLEAN
    /\ fpc \in {"idle", "table", "manifest", "dirsync", "install", "setlen",
                "walsync"}
    /\ job \in Job
    /\ log \in Seq(Map) /\ replayed \subseteq Keys /\ opens \in Nat
    /\ unacked \subseteq Nat /\ errors \in Nat

(* Every commit ever applied (and so every acknowledged one) survives a     *)
(* crash at this very moment: whichever WAL and manifest are left, the      *)
(* commit is covered by the table sequence or its own frame, and no other   *)
(* with its sequence, is accepted by replay_wal.  This is the order "sync,  *)
(* apply, acknowledge" and "publish the table, then truncate the WAL".      *)
AckedDurable ==
    \A w \in SurvivingWals, m \in {manifest, manifestDurable},
       s \in 1..Len(log) :
        s <= m.seq \/ \E i \in Accepted(w, m.seq) :
                         w[i].seq = s /\ w[i].batch = log[s]

(* Whatever instant the process dies at, open() accepts the manifest: its   *)
(* tables exist, in file-name order, none newer than the table sequence.    *)
ManifestAlwaysOpens ==
    ManifestOpens(manifest) /\ ManifestOpens(manifestDurable)

(* The newest commit that touches k was acknowledged. *)
NewestAcked(k) ==
    \E s \in (1..Len(log)) \ unacked :
        log[s][k] # Absent /\ \A t \in (s + 1)..Len(log) : log[t][k] = Absent

(* Readers see exactly the committed batches, reopened or not: get() agrees *)
(* with the history for every key whose newest commit was acknowledged.     *)
ReadsAcked ==
    up = "open" => \A k \in Keys : NewestAcked(k) => Get(k) = Expected(k)

(* open() brings back the acknowledged value of every key that no earlier   *)
(* recovery touched, deleted keys included.                                 *)
RecoveryExact ==
    [][Open => \A k \in Keys \ replayed :
          NewestAcked(k)' => Get(k)' = Expected(k)']_vars

(* Every read is exact for a key that was not last written by a replayed    *)
(* frame, in every incarnation of the database, after any crash in a flush  *)
(* or a compaction: tables, layers and memtable lose and invent nothing,    *)
(* and no sequence is used for two commits, across failed commits, crashes  *)
(* and reopens.                                                             *)
UnreplayedKeysExact ==
    up = "open" =>
        /\ sequence = Len(log)
        /\ \A k \in Keys \ replayed : Get(k) = Expected(k)

(* open() brings back every key whose newest replayed operation is a put,   *)
(* and every key that replay never touched.                                 *)
RecoveryExactForPuts ==
    [][Open => \A k \in Keys :
          (k \notin replayed' \/ state'[k] # Absent) => Get(k)' = Expected(k)']_vars

(* commit_gate makes the generation check of execute_group redundant: no    *)
(* flush or compaction moves the state under a group that was sampled.      *)
CommitNeverConflicts ==
    wpc \in {"write", "sync", "apply"} => ~Conflict

(* The map a caller of ThingDB works with. *)
View == [k \in Keys |-> IF up = "open" THEN Get(k) ELSE Expected(k)]

KV == INSTANCE KVStore WITH kv <- View, commits <- log

(* The engine implements the atomic key-value map: seen through get(), a    *)
(* group commit changes whole batches at once, and no flush, compaction,    *)
(* failed commit or close changes anything.                                 *)
RefinesKVStore == KV!KVSpec
=============================================================================
