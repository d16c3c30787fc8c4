---------------------------- MODULE ThingDB_proofs ----------------------------
(***************************************************************************)
(* Proofs about the durable ThingDB engine, for every set of keys, values  *)
(* and batches, every bound, any number of crashes and reopens, and every  *)
(* set of I/O errors a theorem names: how commits, flushes and compactions *)
(* exclude each other, what a crash leaves behind, and what readers see,   *)
(* up to the atomic map of module KVStore that the engine implements.      *)
(***************************************************************************)
EXTENDS ThingDB, TLAPS, SequenceTheorems, FiniteSetTheorems, WellFoundedInduction

-----------------------------------------------------------------------------
(* Facts about the operators *)

(* A nonempty set of positions of a sequence has a greatest element, and    *)
(* Max is it: replay and layered reads pick the newest of the maps.         *)
LEMMA MaxOfPositions ==
    ASSUME NEW n \in Nat, NEW T, T \subseteq 1..n, T # {}
    PROVE  Max(T) \in T /\ \A t \in T : Max(T) >= t
<1> DEFINE D == {m \in Nat : \E t \in T : m = n - t}
<1>1. D \subseteq Nat /\ D # {}
    <2>1. PICK t \in T : TRUE
        OBVIOUS
    <2>2. n - t \in D
        BY <2>1
    <2> QED BY <2>2
<1>2. PICK d \in D : \A e \in D : ~(<<e, d>> \in OpToRel(<, Nat))
    <2> HIDE DEF D
    <2> QED BY <1>1, WFMin, NatLessThanWellFounded
<1>3. PICK t \in T : d = n - t
    BY DEF D
<1>4. \A u \in T : t >= u
    <2> SUFFICES ASSUME NEW u \in T PROVE t >= u
        OBVIOUS
    <2>1. n - u \in D
        BY SMT
    <2>2. ~(n - u < d)
        BY <2>1, <1>2, <1>1 DEF OpToRel
    <2> QED BY <2>2, <1>3, SMT
<1>5. \E x \in T : \A y \in T : x >= y
    BY <1>4
<1> QED BY <1>5 DEF Max

(* Newest yields an entry of one of the maps, or Absent. *)
LEMMA NewestType ==
    ASSUME NEW n \in Nat, NEW I, I \subseteq 1..n, NEW f,
           \A i \in I : f[i] \in Map, NEW k \in Keys
    PROVE  Newest(I, f, k) \in Slot
<1> DEFINE S == {i \in I : f[i][k] # Absent}
<1>1. CASE S = {}
    BY <1>1 DEF Newest, Slot
<1>2. CASE S # {}
    <2>1. Max(S) \in S
        BY <1>2, MaxOfPositions
    <2>2. f[Max(S)] \in Map
        BY <2>1
    <2>3. Newest(I, f, k) = f[Max(S)][k]
        BY <1>2 DEF Newest
    <2> QED BY <2>2, <2>3 DEF Map
<1> QED BY <1>1, <1>2

-----------------------------------------------------------------------------
(* The inductive invariant *)

(* commit_gate and the inner lock: who may be where. *)
Exclusion ==
    /\ up # "open" => gate = "free"
    /\ gate = "free" => wpc = "idle" /\ fpc = "idle"
    /\ gate = "maint" => /\ wpc = "idle" /\ fpc # "idle"
                         /\ job.by \in {"persist", "compact", "worker"}
    /\ gate = "writer" => wpc # "idle"
    /\ wpc \in {"write", "sync", "apply"} => fpc = "idle" /\ ~moved
    /\ wpc = "backpressure" => fpc # "idle" /\ job.by = "backpressure"
    /\ wpc = "flush" => fpc # "idle" /\ job.by = "writer"
    /\ wpc # "idle" => group # <<>>
    /\ gate # "free" => ~recovery

(* From its rename on, the table of a flush or a compaction exists. *)
JobTableExists ==
    fpc \in {"manifest", "dirsync", "install", "setlen", "walsync"}
        => job.name \in DOMAIN tables

ControlInv == TypeOK /\ Exclusion /\ JobTableExists

-----------------------------------------------------------------------------
(* Typing facts *)

LEMMA EmptyMapType == EmptyMap \in Map
BY DEF EmptyMap, Map, Slot

(* The absence of a job has the type of one. *)
LEMMA NoJobType == NoJob \in Job
BY EmptyMapType, EmptySeq DEF NoJob, Job, TableName, FlushName

(* A stripped entry is an entry. *)
LEMMA StripType == ASSUME NEW x \in Slot PROVE Strip(x) \in Slot
BY DEF Strip, Slot

(* A map with a batch applied is a map. *)
LEMMA AppliedType ==
    ASSUME NEW a \in Map, NEW b \in Map
    PROVE  Applied(a, b) \in Map /\ Recorded(a, b) \in Map
BY StripType DEF Applied, Recorded, Map

(* So is one with a group applied. *)
LEMMA GroupEffectType ==
    ASSUME NEW g \in Seq(Batches) PROVE GroupEffect(g) \in Map
<1>1. Len(g) \in Nat /\ DOMAIN g = 1..Len(g)
    OBVIOUS
<1>2. \A i \in DOMAIN g : g[i] \in Map
    BY <1>1, ElementOfSeq, BatchesAssumption
<1>3. \A k \in Keys : Newest(DOMAIN g, g, k) \in Slot
    BY <1>1, <1>2, NewestType
<1> QED BY <1>3 DEF GroupEffect, Map

(* The frames of a group are frames. *)
LEMMA FramesType ==
    ASSUME NEW g \in Seq(Batches), NEW n \in Nat \ {0}
    PROVE  /\ Frames(g, n) \in Seq(Frame)
           /\ Len(Frames(g, n)) = Len(g)
           /\ \A i \in 1..Len(g) :
                  Frames(g, n)[i] = [seq |-> n + i - 1, batch |-> g[i], whole |-> TRUE]
<1>1. Len(g) \in Nat
    OBVIOUS
<1>2. \A i \in 1..Len(g) :
          [seq |-> n + i - 1, batch |-> g[i], whole |-> TRUE] \in Frame
    BY <1>1, ElementOfSeq, BatchesAssumption DEF Frame
<1>3. Frames(g, n) \in [1..Len(g) -> Frame]
    BY <1>2 DEF Frames
<1> QED BY <1>1, <1>3 DEF Frames

(* A file cut to a length is a file. *)
LEMMA SetLenType ==
    ASSUME NEW w \in Seq(Frame), NEW n \in Nat
    PROVE  SetLen(w, n) \in Seq(Frame) /\ Len(SetLen(w, n)) = n
<1>1. DOMAIN w = 1..Len(w) /\ Len(w) \in Nat
    OBVIOUS
<1>2. [seq |-> 0, batch |-> EmptyMap, whole |-> FALSE] \in Frame
    BY EmptyMapType DEF Frame
<1>3. SetLen(w, n) \in [1..n -> Frame]
    BY <1>1, <1>2, ElementOfSeq DEF SetLen
<1> QED BY <1>3

(* What a compaction writes is a map. *)
LEMMA MaterializeType ==
    ASSUME TypeOK PROVE Materialize \in Map
<1> DEFINE tabled == [k \in Keys |-> Strip(Newest(DOMAIN layers, layers, k))]
<1>1. Len(layers) \in Nat /\ DOMAIN layers = 1..Len(layers)
    BY DEF TypeOK
<1>2. \A i \in DOMAIN layers : layers[i] \in Map
    BY <1>1, ElementOfSeq DEF TypeOK
<1>3. \A k \in Keys : Strip(Newest(DOMAIN layers, layers, k)) \in Slot
    BY <1>1, <1>2, NewestType, StripType
<1>4. tabled \in Map
    BY <1>3 DEF Map
<1> HIDE DEF tabled
<1>5. Recorded(tabled, state) \in Map
    BY <1>4, AppliedType DEF TypeOK
<1>6. Applied(Recorded(tabled, state), pending) \in Map
    BY <1>5, AppliedType DEF TypeOK
<1> QED BY <1>6 DEF Materialize, tabled

(* The jobs of flushes and compactions are jobs. *)
LEMMA JobTypes ==
    ASSUME TypeOK
    PROVE  /\ \A by \in {"compact", "worker", "writer"} :
                  /\ CompactJob(by) \in Job /\ CompactJob(by).by = by
                  /\ CompactJob(by).name[1] = sequence
           /\ \A by \in {"persist", "worker", "backpressure", "writer"},
                 updates \in Map, s \in Nat :
                  /\ FlushJob(by, updates, s) \in Job
                  /\ FlushJob(by, updates, s).by = by
                  /\ FlushJob(by, updates, s).name[1] = s
<1>1. sequence \in Nat /\ Len(tableFiles) \in Nat
    BY DEF TypeOK
<1>2. CompactName(sequence) \in TableName /\ CompactName(sequence)[1] = sequence
    BY <1>1 DEF TableName, CompactName
<1>3. <<CompactName(sequence)>> \in Seq(TableName)
    BY <1>2
<1>4. \A s \in Nat : /\ FlushName(s, Len(tableFiles)) \in TableName
                     /\ FlushName(s, Len(tableFiles))[1] = s
    BY <1>1 DEF TableName, FlushName
<1>5. \A s \in Nat : Append(tableFiles, FlushName(s, Len(tableFiles))) \in Seq(TableName)
    BY <1>4 DEF TypeOK
<1>6. \A by \in {"compact", "worker", "writer"} :
          /\ CompactJob(by) \in Job /\ CompactJob(by).by = by
          /\ CompactJob(by).name[1] = sequence
    BY <1>2, <1>3, MaterializeType DEF CompactJob, Job
<1>7. \A by \in {"persist", "worker", "backpressure", "writer"},
         updates \in Map, s \in Nat :
          /\ FlushJob(by, updates, s) \in Job
          /\ FlushJob(by, updates, s).by = by
          /\ FlushJob(by, updates, s).name[1] = s
    BY <1>4, <1>5 DEF FlushJob, Job
<1> QED BY <1>6, <1>7

-----------------------------------------------------------------------------
(* Types and mutual exclusion, whatever I/O errors strike *)

LEMMA ControlInit == Init => ControlInv
<1> SUFFICES ASSUME Init PROVE ControlInv
    OBVIOUS
<1>1. manifest \in Manifest
    BY EmptySeq DEF Init, Manifest
<1> QED BY <1>1, EmptyMapType, NoJobType, EmptySeq
        DEF Init, ControlInv, TypeOK, Exclusion, JobTableExists

(* Ending a group leaves the writer with well-typed locals. *)
LEMMA ReleaseType ==
    ASSUME ReleaseWriter
    PROVE  /\ gate' \in {"free", "writer", "maint"} /\ wpc' = "idle"
           /\ group' \in Seq(Batches) /\ walStart' \in Nat /\ moved' \in BOOLEAN
<1>1. group' \in Seq(Batches)
    BY DEF ReleaseWriter
<1>2. walStart' \in Nat
    BY DEF ReleaseWriter
<1>3. moved' \in BOOLEAN
    BY DEF ReleaseWriter
<1>4. gate' \in {"free", "writer", "maint"} /\ wpc' = "idle"
    BY DEF ReleaseWriter
<1> QED BY <1>1, <1>2, <1>3, <1>4

(* The budget of errors stays a number. *)
LEMMA FaultType ==
    ASSUME TypeOK, NEW p, Fault(p) \/ UNCHANGED errors PROVE errors' \in Nat
BY DEF Fault, TypeOK

(* The group commit keeps types and exclusion. *)
LEMMA ControlWriter ==
    ASSUME ControlInv, WriterNext PROVE ControlInv'
<1> USE DEF ControlInv, vars, disk, memory, writer, past, history
<1>1. ASSUME NEW g \in Groups, WriterBegin(g) PROVE ControlInv'
    <2>1. g \in Seq(Batches) /\ g # <<>>
        <3>1. PICK n \in 1..MaxGroup : g \in [1..n -> Batches]
            BY DEF Groups
        <3>2. n \in Nat \ {0} /\ DOMAIN g = 1..n
            BY <3>1, BoundsAssumption
        <3> QED BY <3>1, <3>2
    <2>2. FlushJob("backpressure", pending, sequence) \in Job
          /\ FlushJob("backpressure", pending, sequence).by = "backpressure"
        BY JobTypes DEF TypeOK
    <2>3. TypeOK'
        BY <1>1, <2>1, <2>2 DEF WriterBegin, TypeOK
    <2>4. Exclusion'
        BY <1>1, <2>1, <2>2 DEF WriterBegin, Exclusion, TypeOK
    <2>5. JobTableExists'
        BY <1>1 DEF WriterBegin, JobTableExists
    <2> QED BY <2>3, <2>4, <2>5
<1>2. ASSUME WriterWrite PROVE ControlInv'
    <2>1. Frames(group, sequence + 1) \in Seq(Frame)
        <3>1. sequence + 1 \in Nat \ {0} /\ group \in Seq(Batches)
            BY DEF TypeOK
        <3> QED BY <3>1, FramesType
    <2>2. wal' \in Seq(Frame)
        BY <1>2, <2>1, ConcatProperties DEF WriterWrite, TypeOK
    <2>3. TypeOK'
        BY <1>2, <2>2 DEF WriterWrite, TypeOK
    <2> QED BY <1>2, <2>3 DEF WriterWrite, Exclusion, JobTableExists
<1>3. ASSUME WriterWriteFails PROVE ControlInv'
    <2>1. TypeOK'
        BY <1>3, ReleaseType, FaultType DEF WriterWriteFails, TypeOK
    <2> QED BY <1>3, <2>1
            DEF WriterWriteFails, ReleaseWriter, Exclusion, JobTableExists
<1>4. ASSUME WriterWriteTorn PROVE ControlInv'
    <2>1. group[1] \in Map
        <3>1. group # <<>> /\ group \in Seq(Batches)
            BY <1>4 DEF WriterWriteTorn, Exclusion, TypeOK
        <3>2. 1 \in 1..Len(group)
            BY <3>1
        <3> QED BY <3>1, <3>2, BatchesAssumption, ElementOfSeq
    <2>2. wal' \in Seq(Frame)
        BY <1>4, <2>1 DEF WriterWriteTorn, TypeOK, Frame
    <2>3. TypeOK'
        BY <1>4, <2>2, ReleaseType, FaultType DEF WriterWriteTorn, TypeOK
    <2> QED BY <1>4, <2>3
            DEF WriterWriteTorn, ReleaseWriter, Exclusion, JobTableExists
<1>5. ASSUME WriterSync PROVE ControlInv'
    <2>1. TypeOK'
        BY <1>5 DEF WriterSync, TypeOK
    <2> QED BY <1>5, <2>1 DEF WriterSync, Exclusion, JobTableExists
<1>6. ASSUME WriterSyncFails PROVE ControlInv'
    <2>1. wal' \in Seq(Frame) /\ journal' \in Nat
        BY <1>6, SetLenType DEF WriterSyncFails, TypeOK
    <2>2. TypeOK'
        BY <1>6, <2>1, ReleaseType, FaultType DEF WriterSyncFails, TypeOK
    <2> QED BY <1>6, <2>2
            DEF WriterSyncFails, ReleaseWriter, Exclusion, JobTableExists
<1>7. ASSUME WriterApply PROVE ControlInv'
    <2>1. GroupEffect(group) \in Map
        BY GroupEffectType DEF TypeOK
    <2>2. state' \in Map /\ pending' \in Map /\ sequence' \in Nat
        BY <1>7, <2>1, AppliedType DEF WriterApply, ApplyGroup, TypeOK
    <2>3. log' \in Seq(Map)
        BY <1>7, BatchesAssumption, SeqMonotonic, ConcatProperties
           DEF WriterApply, ApplyGroup, TypeOK
    <2>4. replayed' \subseteq Keys
        BY <1>7 DEF WriterApply, ApplyGroup, TypeOK
    <2>5. /\ FlushJob("writer", pending', sequence') \in Job
          /\ FlushJob("writer", pending', sequence').by = "writer"
        BY <2>2, JobTypes
    <2>6. TypeOK'
        BY <1>7, <2>2, <2>3, <2>4, <2>5, ReleaseType DEF WriterApply, TypeOK
    <2> QED BY <1>7, <2>5, <2>6
            DEF WriterApply, ReleaseWriter, Exclusion, JobTableExists, TypeOK
<1>8. ASSUME WriterSpawnFails PROVE ControlInv'
    <2>1. GroupEffect(group) \in Map
        BY GroupEffectType DEF TypeOK
    <2>2. state' \in Map /\ pending' \in Map /\ sequence' \in Nat
        BY <1>8, <2>1, AppliedType DEF WriterSpawnFails, ApplyGroup, TypeOK
    <2>3. log' \in Seq(Map)
        BY <1>8, BatchesAssumption, SeqMonotonic, ConcatProperties
           DEF WriterSpawnFails, ApplyGroup, TypeOK
    <2>4. replayed' \subseteq Keys
        BY <1>8 DEF WriterSpawnFails, ApplyGroup, TypeOK
    <2>5. TypeOK'
        BY <1>8, <2>2, <2>3, <2>4, ReleaseType, FaultType
           DEF WriterSpawnFails, TypeOK
    <2> QED BY <1>8, <2>5
            DEF WriterSpawnFails, ReleaseWriter, Exclusion, JobTableExists
<1>9. ASSUME WriterApplyFails PROVE ControlInv'
    <2>1. TypeOK'
        BY <1>9, ReleaseType, FaultType DEF WriterApplyFails, TypeOK
    <2> QED BY <1>9, <2>1
            DEF WriterApplyFails, ReleaseWriter, Exclusion, JobTableExists
<1> QED BY <1>1, <1>2, <1>3, <1>4, <1>5, <1>6, <1>7, <1>8, <1>9 DEF WriterNext

(* Flushes and compactions keep types and exclusion. *)
LEMMA ControlMaintenance ==
    ASSUME ControlInv, MaintenanceNext PROVE ControlInv'
<1> USE DEF ControlInv, vars, disk, memory, writer, past, history
<1>1. ASSUME NEW by \in {"persist", "worker"}, BeginFlush(by) PROVE ControlInv'
    <2>1. FlushJob(by, pending, sequence) \in Job
          /\ FlushJob(by, pending, sequence).by = by
        BY JobTypes DEF TypeOK
    <2>2. TypeOK'
        BY <1>1, <2>1 DEF BeginFlush, TypeOK
    <2> QED BY <1>1, <2>1, <2>2 DEF BeginFlush, Exclusion, JobTableExists
<1>2. ASSUME PersistNothing PROVE ControlInv'
    <2>1. TypeOK'
        BY <1>2 DEF PersistNothing, TypeOK
    <2> QED BY <1>2, <2>1 DEF PersistNothing, Exclusion, JobTableExists
<1>3. ASSUME BeginCompact PROVE ControlInv'
    <2>1. CompactJob("compact") \in Job /\ CompactJob("compact").by = "compact"
        BY JobTypes
    <2>2. TypeOK'
        BY <1>3, <2>1 DEF BeginCompact, TypeOK
    <2> QED BY <1>3, <2>1, <2>2 DEF BeginCompact, Exclusion, JobTableExists
<1>4. ASSUME WriteTable PROVE ControlInv'
    <2>1. job.name \in TableName /\ job.entries \in Map
        BY DEF TypeOK, Job
    <2>2. /\ DOMAIN tables' = DOMAIN tables \cup {job.name}
          /\ tables' \in [DOMAIN tables' -> Map]
        BY <1>4, <2>1 DEF WriteTable, TypeOK
    <2>3. TypeOK'
        BY <1>4, <2>1, <2>2 DEF WriteTable, TypeOK
    <2> QED BY <1>4, <2>2, <2>3 DEF WriteTable, Exclusion, JobTableExists
<1>5. ASSUME WriteManifest PROVE ControlInv'
    <2>1. manifest' \in Manifest
        BY <1>5 DEF WriteManifest, TypeOK, Job, TableName, Manifest
    <2>2. TypeOK'
        BY <1>5, <2>1 DEF WriteManifest, TypeOK
    <2> QED BY <1>5, <2>2 DEF WriteManifest, Exclusion, JobTableExists
<1>6. ASSUME SyncDirectory PROVE ControlInv'
    <2>1. TypeOK'
        BY <1>6 DEF SyncDirectory, TypeOK
    <2> QED BY <1>6, <2>1 DEF SyncDirectory, Exclusion, JobTableExists
<1>7. ASSUME Install PROVE ControlInv'
    <2>1. job.name \in DOMAIN tables /\ tables[job.name] \in Map
        BY <1>7 DEF Install, JobTableExists, TypeOK
    <2>2. /\ DOMAIN TablesKept \subseteq DOMAIN tables
          /\ TablesKept \in [DOMAIN TablesKept -> Map]
          /\ job.name \in DOMAIN TablesKept
        BY <2>1 DEF TablesKept, TypeOK
    <2>3. layers' \in Seq(Map)
        BY <1>7, <2>1 DEF Install, TypeOK
    <2>4. tableFiles' \in Seq(TableName)
        BY <1>7 DEF Install, TypeOK, Job
    <2>5. state' \in Map /\ pending' \in Map
        BY <1>7, EmptyMapType DEF Install
    <2>6. moved' \in BOOLEAN
        BY <1>7 DEF Install
    <2>7. TypeOK'
        BY <1>7, <2>2, <2>3, <2>4, <2>5, <2>6 DEF Install, TypeOK
    <2> QED BY <1>7, <2>2, <2>7 DEF Install, Exclusion, JobTableExists
<1>8. ASSUME TruncateWal PROVE ControlInv'
    <2>1. wal' \in Seq(Frame)
        BY <1>8 DEF TruncateWal
    <2>2. TypeOK'
        BY <1>8, <2>1 DEF TruncateWal, TypeOK
    <2> QED BY <1>8, <2>2 DEF TruncateWal, Exclusion, JobTableExists
<1>9. ASSUME SyncEmptyWal PROVE ControlInv'
    <2>1. \A by \in {"worker", "writer"} :
              CompactJob(by) \in Job /\ CompactJob(by).by = by
        BY JobTypes
    <2>2. gate' \in {"free", "writer", "maint"} /\ walStart' \in Nat
        BY <1>9, ReleaseType DEF SyncEmptyWal, TypeOK
    <2>3. /\ wpc' \in {"idle", "backpressure", "write", "sync", "apply", "flush"}
          /\ group' \in Seq(Batches)
        BY <1>9, ReleaseType DEF SyncEmptyWal, TypeOK
    <2>4. moved' \in BOOLEAN
        BY <1>9, ReleaseType DEF SyncEmptyWal, TypeOK
    <2>5. job' \in Job /\ fpc' \in {"idle", "table"}
        BY <1>9, <2>1, NoJobType DEF SyncEmptyWal
    <2>6. TypeOK'
        BY <1>9, <2>2, <2>3, <2>4, <2>5 DEF SyncEmptyWal, TypeOK
    <2>7. Exclusion'
        BY <1>9, <2>1 DEF SyncEmptyWal, ReleaseWriter, Exclusion, TypeOK
    <2> QED BY <2>5, <2>6, <2>7 DEF JobTableExists
<1>10. ASSUME JobFails PROVE ControlInv'
    <2>1. /\ DOMAIN TablesKept \subseteq DOMAIN tables
          /\ TablesKept \in [DOMAIN TablesKept -> Map]
        BY DEF TablesKept, TypeOK
    <2>2. DOMAIN tables' \subseteq TableName /\ tables' \in [DOMAIN tables' -> Map]
        BY <1>10, <2>1 DEF JobFails, TypeOK
    <2>3. tableFiles' \in Seq(TableName) /\ pending' \in Map
        BY <1>10 DEF JobFails, TypeOK, Job, Restored
    <2>4. gate' \in {"free", "writer", "maint"} /\ walStart' \in Nat
        BY <1>10, ReleaseType DEF JobFails, TypeOK
    <2>5. /\ wpc' \in {"idle", "backpressure", "write", "sync", "apply", "flush"}
          /\ group' \in Seq(Batches)
        BY <1>10, ReleaseType DEF JobFails, TypeOK
    <2>6. moved' \in BOOLEAN /\ recovery' \in BOOLEAN
        BY <1>10, ReleaseType DEF JobFails, TypeOK
    <2>7. errors' \in Nat
        BY <1>10, FaultType DEF JobFails
    <2>8. TypeOK'
        BY <1>10, <2>2, <2>3, <2>4, <2>5, <2>6, <2>7, NoJobType DEF JobFails, TypeOK
    <2>9. Exclusion'
        BY <1>10 DEF JobFails, ReleaseWriter, Exclusion, TypeOK
    <2> QED BY <1>10, <2>8, <2>9 DEF JobFails, JobTableExists
<1> QED BY <1>1, <1>2, <1>3, <1>4, <1>5, <1>6, <1>7, <1>8, <1>9, <1>10
        DEF MaintenanceNext

(* Crash, close and open keep types and exclusion. *)
LEMMA ForgetType ==
    ASSUME Forget
    PROVE  /\ state' \in Map /\ pending' \in Map /\ layers' \in Seq(Map)
           /\ tableFiles' \in Seq(TableName) /\ sequence' \in Nat /\ journal' \in Nat
           /\ recovery' \in BOOLEAN /\ gate' = "free" /\ fpc' = "idle" /\ job' \in Job
           /\ wpc' = "idle" /\ group' \in Seq(Batches) /\ walStart' \in Nat
           /\ moved' \in BOOLEAN
<1> USE DEF Forget, FreshMemory
<1>1. state' \in Map /\ pending' \in Map
    BY EmptyMapType
<1>2. layers' \in Seq(Map)
    OBVIOUS
<1>3. tableFiles' \in Seq(TableName)
    OBVIOUS
<1>4. group' \in Seq(Batches)
    OBVIOUS
<1>5. sequence' \in Nat /\ journal' \in Nat /\ walStart' \in Nat
    OBVIOUS
<1>6. recovery' \in BOOLEAN /\ moved' \in BOOLEAN
    OBVIOUS
<1>7. gate' = "free" /\ fpc' = "idle" /\ wpc' = "idle" /\ job' \in Job
    BY NoJobType
<1> QED BY <1>1, <1>2, <1>3, <1>4, <1>5, <1>6, <1>7

(* A crash leaves one of the WALs, or a prefix of the visible one. *)
LEMMA SurvivingWalCases ==
    ASSUME TypeOK, NEW w \in SurvivingWals
    PROVE  \/ w = walDurable
           \/ \E n \in 0..Len(wal) :
                 /\ w = SubSeq(wal, 1, n)
                 /\ w \in Seq(Frame) /\ Len(w) = n
                 /\ \A i \in 1..n : w[i] = wal[i]
                 /\ \/ n = Len(wal) /\ w = wal
                    \/ /\ n >= Len(walDurable)
                       /\ \A i \in DOMAIN walDurable : wal[i] = walDurable[i]
<1>1. wal \in Seq(Frame) /\ Len(wal) \in Nat
    BY DEF TypeOK
<1>2. ASSUME NEW n \in 0..Len(wal)
      PROVE  /\ SubSeq(wal, 1, n) \in Seq(Frame) /\ Len(SubSeq(wal, 1, n)) = n
             /\ \A i \in 1..n : SubSeq(wal, 1, n)[i] = wal[i]
    <2>1. SubSeq(wal, 1, n) \in Seq(Frame)
        BY <1>1
    <2>2. Len(SubSeq(wal, 1, n)) = n
        BY <1>1
    <2>3. \A i \in 1..n : SubSeq(wal, 1, n)[i] = wal[i]
        BY <1>1
    <2> QED BY <2>1, <2>2, <2>3
<1>3. CASE w = wal
    <2>1. SubSeq(wal, 1, Len(wal)) = wal
        BY <1>1, SubSeqFull
    <2>2. Len(wal) \in 0..Len(wal)
        BY <1>1
    <2>3. /\ w = SubSeq(wal, 1, Len(wal))
          /\ w \in Seq(Frame) /\ Len(w) = Len(wal)
          /\ \A i \in 1..Len(wal) : w[i] = wal[i]
        BY <1>1, <1>3, <2>1
    <2> QED BY <1>3, <2>2, <2>3
<1>4. CASE w \notin {wal, walDurable}
    <2>1. PICK n \in 0..Len(wal) :
              /\ n >= Len(walDurable)
              /\ \A i \in DOMAIN walDurable : wal[i] = walDurable[i]
              /\ w = SubSeq(wal, 1, n)
        BY <1>4 DEF SurvivingWals
    <2> QED BY <2>1, <1>2
<1> QED BY <1>3, <1>4

(* Close, crash and open keep types and exclusion. *)
LEMMA ControlLifecycle ==
    ASSUME ControlInv, LifecycleNext PROVE ControlInv'
<1> USE DEF ControlInv, vars, disk, memory, writer, past, history
<1>1. ASSUME Crash PROVE ControlInv'
    <2>1. wal' \in Seq(Frame) /\ walDurable' \in Seq(Frame)
        BY <1>1, SurvivingWalCases DEF Crash, TypeOK
    <2>2. manifest' \in Manifest /\ manifestDurable' \in Manifest
        BY <1>1 DEF Crash, TypeOK
    <2>3. TypeOK'
        BY <1>1, <2>1, <2>2, ForgetType DEF Crash, TypeOK
    <2> QED BY <1>1, <2>3, ForgetType DEF Crash, Exclusion, JobTableExists
<1>2. ASSUME Close PROVE ControlInv'
    <2>1. TypeOK'
        BY <1>2, ForgetType DEF Close, TypeOK
    <2> QED BY <1>2, <2>1, ForgetType DEF Close, Exclusion, JobTableExists
<1>3. ASSUME RemoveLock PROVE ControlInv'
    <2>1. TypeOK'
        BY <1>3 DEF RemoveLock, TypeOK
    <2> QED BY <1>3, <2>1 DEF RemoveLock, Exclusion, JobTableExists
<1>4. ASSUME Open PROVE ControlInv'
    <2> DEFINE A == Accepted(wal, manifest.seq)
               last == LastReplayed(wal, manifest.seq)
               len == IF Readable(wal) = {} THEN 0 ELSE Max(Readable(wal))
    <2>1. wal \in Seq(Frame) /\ Len(wal) \in Nat /\ DOMAIN wal = 1..Len(wal)
        BY DEF TypeOK
    <2>2. A \subseteq 1..Len(wal) /\ Readable(wal) \subseteq 1..Len(wal)
        BY <2>1 DEF Accepted, Readable
    <2>3. \A i \in 1..Len(wal) : wal[i].batch \in Map /\ wal[i].seq \in Nat
        <3>1. \A i \in 1..Len(wal) : wal[i] \in Frame
            BY <2>1, ElementOfSeq
        <3> QED BY <3>1 DEF Frame
    <2>4. manifest.seq \in Nat /\ manifest.files \in Seq(TableName)
        BY DEF TypeOK, Manifest
    <2>5. len \in 0..Len(wal)
        BY <2>1, <2>2, MaxOfPositions
    <2>6. last \in Nat
        <3>1. A # {} => Max(A) \in A
            BY <2>1, <2>2, MaxOfPositions
        <3> QED BY <2>2, <2>3, <2>4, <3>1 DEF LastReplayed
    <2> HIDE DEF A, last, len
    <2>7. wal' = SubSeq(wal, 1, len) /\ walDurable' = wal' /\ journal' = Len(wal')
        BY <1>4 DEF Open, len
    <2>8. wal' \in Seq(Frame) /\ walDurable' \in Seq(Frame) /\ journal' \in Nat
        BY <2>1, <2>5, <2>7
    <2>9. state' \in Map
        <3>1. \A k \in Keys :
                 Newest(A, [i \in DOMAIN wal |-> wal[i].batch], k) \in Slot
            BY <2>1, <2>2, <2>3, NewestType
        <3>2. state' = ReplayedState(wal, manifest.seq)
            BY <1>4 DEF Open
        <3> QED BY <3>1, <3>2, StripType DEF ReplayedState, Map, A
    <2>10. sequence' \in Nat /\ sequence' = last
        BY <1>4, <2>6 DEF Open, last
    <2>11. replayed' \subseteq Keys
        BY <1>4 DEF Open, Touched, TypeOK
    <2>12. unacked' \subseteq Nat
        BY <1>4, <2>2, <2>3 DEF Open, TypeOK, A
    <2>13. \A s \in Nat : ReplayedBatch(wal, manifest.seq, s) \in Map
        <3> SUFFICES ASSUME NEW s \in Nat
                     PROVE  ReplayedBatch(wal, manifest.seq, s) \in Map
            OBVIOUS
        <3> DEFINE I == {i \in A : wal[i].seq = s}
        <3>1. I # {} => (CHOOSE i \in I : TRUE) \in 1..Len(wal)
            BY <2>2
        <3> QED BY <3>1, <2>3, EmptyMapType DEF ReplayedBatch, A
    <2>14. log' \in Seq(Map)
        <3> DEFINE n == IF last > Len(log) THEN last ELSE Len(log)
                   L(s) == IF s <= Len(log) THEN log[s]
                           ELSE ReplayedBatch(wal, manifest.seq, s)
        <3>1. log \in Seq(Map) /\ Len(log) \in Nat /\ n \in Nat
            BY <2>6 DEF TypeOK
        <3>2. \A s \in 1..n : L(s) \in Map
            BY <3>1, <2>13, ElementOfSeq
        <3>3. log' = [s \in 1..n |-> L(s)]
            BY <1>4 DEF Open, last
        <3> HIDE DEF L, n
        <3>4. [s \in 1..n |-> L(s)] \in [1..n -> Map]
            BY <3>2
        <3> QED BY <3>1, <3>3, <3>4
    <2>15. layers' \in Seq(Map)
        <3>1. Len(manifest.files) \in Nat
            BY <2>4
        <3>2. \A i \in 1..Len(manifest.files) : tables[manifest.files[i]] \in Map
            <4>1. ManifestOpens(manifest) /\ DOMAIN manifest.files = 1..Len(manifest.files)
                BY <1>4, <2>4 DEF Open
            <4>2. \A i \in 1..Len(manifest.files) : manifest.files[i] \in DOMAIN tables
                BY <4>1 DEF ManifestOpens
            <4>3. \A n \in DOMAIN tables : tables[n] \in Map
                BY DEF TypeOK
            <4> QED BY <4>2, <4>3
        <3>3. layers' \in [1..Len(manifest.files) -> Map]
            BY <1>4, <3>2 DEF Open
        <3> QED BY <3>1, <3>3
    <2>16. tableFiles' \in Seq(TableName)
        BY <1>4, <2>4 DEF Open
    <2>17. opens' \in Nat /\ up' = "open"
        BY <1>4 DEF Open, TypeOK
    <2>18. UNCHANGED <<manifest, manifestDurable, tables, pending, recovery, gate,
                       wpc, group, walStart, moved, fpc, job, errors>>
        BY <1>4 DEF Open
    <2>19. TypeOK'
        BY <2>8, <2>9, <2>10, <2>11, <2>12, <2>14, <2>15, <2>16, <2>17, <2>18
           DEF TypeOK
    <2>20. Exclusion' /\ JobTableExists'
        BY <1>4, <2>17, <2>18 DEF Open, Exclusion, JobTableExists
    <2> QED BY <2>19, <2>20
<1> QED BY <1>1, <1>2, <1>3, <1>4 DEF LifecycleNext

(* Types and mutual exclusion hold in every behaviour, whichever I/O errors *)
(* strike.                                                                  *)
THEOREM ControlCorrect == Spec => []ControlInv
<1>1. ASSUME ControlInv, [Next]_vars PROVE ControlInv'
    <2>1. CASE UNCHANGED vars
        <3>1. TypeOK'
            BY <1>1, <2>1 DEF ControlInv, TypeOK, vars, disk, memory, writer,
                              past, history
        <3> QED BY <1>1, <2>1, <3>1
                DEF ControlInv, Exclusion, JobTableExists, vars, disk, memory, writer,
                    past, history
    <2> QED BY <1>1, <2>1, ControlWriter, ControlMaintenance, ControlLifecycle
            DEF Next
<1> QED BY <1>1, ControlInit, PTL DEF Spec

(* TypeOK for every behaviour. *)
THEOREM TypeCorrect == Spec => []TypeOK
<1>1. ControlInv => TypeOK
    BY DEF ControlInv
<1> QED BY <1>1, ControlCorrect, PTL

(* commit_gate alone keeps every flush and compaction out of a sampled      *)
(* group commit: the generation check never fires.                          *)
THEOREM GateExcludesConflicts == Spec => []CommitNeverConflicts
<1>1. ControlInv => CommitNeverConflicts
    BY DEF ControlInv, Exclusion, CommitNeverConflicts, Conflict, TypeOK
<1> QED BY <1>1, ControlCorrect, PTL

-----------------------------------------------------------------------------
(* The manifest and the names of the tables *)

Ascending(files) ==
    \A i \in 1..(Len(files) - 1) : NameLess(files[i], files[i + 1])

(* Table i was the i-th when it was written; only the first can come from   *)
(* a compaction.                                                            *)
Shaped(files) ==
    \A i \in DOMAIN files :
        \/ files[i] = FlushName(files[i][1], i - 1)
        \/ i = 1 /\ files[i] = CompactName(files[i][1])

ManifestNames(m) == ManifestOpens(m) /\ Shaped(m.files)

(* The tables in use exist and are in order.  A compaction at this very     *)
(* sequence left nothing to flush, so that no name sorts before it again.   *)
LiveNames ==
    up = "open" =>
        /\ Ascending(tableFiles) /\ Shaped(tableFiles)
        /\ \A i \in DOMAIN tableFiles :
               tableFiles[i] \in DOMAIN tables /\ tableFiles[i][1] <= sequence
        /\ tableFiles = <<CompactName(sequence)>>
               => pending = EmptyMap /\ state = EmptyMap

(* Nothing is left in memory while the database is not open. *)
DownIsEmpty == up # "open" => pending = EmptyMap

Early == {"table", "manifest", "dirsync", "install"}
Late == {"setlen", "walsync"}

(* The table and the file list of a flush or compaction in progress. *)
JobNames ==
    /\ fpc # "idle" => job.name[1] = sequence
    /\ fpc \in Early =>
         \/ /\ job.kind = "flush"
            /\ job.name = FlushName(sequence, Len(tableFiles))
            /\ job.files = Append(tableFiles, job.name)
            /\ tableFiles # <<CompactName(sequence)>>
         \/ /\ job.kind = "compact"
            /\ job.name = CompactName(sequence)
            /\ job.files = <<job.name>>
    /\ fpc \in Late =>
         /\ tableFiles = job.files
         /\ job.kind = "flush" => job.files # <<CompactName(sequence)>>

JobManifest == [files |-> job.files, seq |-> job.name[1]]

(* When the tables of a compaction go, both manifests name the new one. *)
JobPublished ==
    /\ fpc \in {"dirsync", "install"} \cup Late => manifest = JobManifest
    /\ fpc \in {"install"} \cup Late => manifestDurable = JobManifest

NamesInv ==
    /\ ManifestNames(manifest) /\ ManifestNames(manifestDurable)
    /\ LiveNames /\ DownIsEmpty /\ JobNames /\ JobPublished

(* The tables after a flush at sequence s. *)
Flushed(files, s) == Append(files, FlushName(s, Len(files)))

(* Appending the next flush keeps a list of tables in order. *)
LEMMA FlushNameFits ==
    ASSUME NEW s \in Nat, NEW files \in Seq(TableName), Ascending(files), Shaped(files),
           \A i \in DOMAIN files : files[i][1] <= s,
           files # <<CompactName(s)>>
    PROVE  /\ Ascending(Flushed(files, s)) /\ Shaped(Flushed(files, s))
           /\ Flushed(files, s) # <<>> /\ Flushed(files, s) # <<CompactName(s)>>
           /\ Flushed(files, s) \in Seq(TableName)
           /\ Len(Flushed(files, s)) = Len(files) + 1
           /\ Flushed(files, s)[Len(files) + 1] = FlushName(s, Len(files))
           /\ \A i \in DOMAIN files : Flushed(files, s)[i] = files[i]
<1> DEFINE f == Flushed(files, s)
           n == Len(files)
           x == FlushName(s, n)
<1>1. n \in Nat /\ DOMAIN files = 1..n /\ x \in TableName
    BY DEF FlushName, TableName
<1>2. /\ Len(f) = n + 1 /\ DOMAIN f = 1..(n + 1) /\ f[n + 1] = x
      /\ \A i \in 1..n : f[i] = files[i]
      /\ f \in Seq(TableName)
    BY <1>1 DEF Flushed
<1> HIDE DEF f
<1>3. x[1] = s /\ x[2] = 0 /\ x[3] = n
    BY DEF FlushName
<1>4. \A i \in 1..n : files[i][1] \in Nat
    BY <1>1, ElementOfSeq DEF TableName
<1>5. ASSUME n # 0 PROVE NameLess(files[n], x)
    <2>1. n \in 1..n
        BY <1>1, <1>5
    <2>2. files[n][1] <= s /\ files[n][1] \in Nat
        BY <1>1, <1>4, <2>1
    <2>3. CASE files[n] = FlushName(files[n][1], n - 1)
        <3>1. files[n][2] = 0 /\ files[n][3] = n - 1
            BY <2>3 DEF FlushName
        <3> QED BY <1>1, <1>3, <2>2, <3>1 DEF NameLess
    <2>4. CASE n = 1 /\ files[n] = CompactName(files[n][1])
        <3>1. files[n][1] # s
            <4> SUFFICES ASSUME files[n][1] = s PROVE FALSE
                OBVIOUS
            <4>1. files[1] = CompactName(s) /\ Len(files) = 1
                BY <2>4
            <4>2. files = <<CompactName(s)>>
                BY <4>1
            <4> QED BY <4>2
        <3> QED BY <2>2, <1>3, <3>1 DEF NameLess
    <2> QED BY <2>1, <2>3, <2>4, <1>1 DEF Shaped
<1>6. Ascending(f)
    <2> SUFFICES ASSUME NEW i \in 1..n PROVE NameLess(f[i], f[i + 1])
        BY <1>1, <1>2 DEF Ascending
    <2>1. CASE i = n
        BY <2>1, <1>1, <1>2, <1>5
    <2>2. CASE i # n
        <3>1. n \in Nat
            OBVIOUS
        <3>2. i \in 1..(n - 1) /\ i + 1 \in 1..n
            BY <2>2, <3>1, SMT
        <3> QED BY <3>2, <1>2 DEF Ascending
    <2> QED BY <2>1, <2>2
<1>7. Shaped(f)
    <2> SUFFICES ASSUME NEW i \in 1..(n + 1)
                 PROVE  \/ f[i] = FlushName(f[i][1], i - 1)
                        \/ i = 1 /\ f[i] = CompactName(f[i][1])
        BY <1>2 DEF Shaped
    <2>1. CASE i = n + 1
        BY <2>1, <1>1, <1>2, <1>3
    <2>2. CASE i # n + 1
        <3>1. i \in 1..n
            BY <2>2, <1>1
        <3> QED BY <3>1, <1>1, <1>2 DEF Shaped
    <2> QED BY <2>1, <2>2
<1>8. f # <<>>
    BY <1>1, <1>2
<1>9. f # <<CompactName(s)>>
    <2> SUFFICES ASSUME f = <<CompactName(s)>> PROVE FALSE
        OBVIOUS
    <2>1. f[Len(f)] = CompactName(s)
        BY <1>1, <1>2
    <2>2. CompactName(s)[2] = 1
        BY DEF CompactName
    <2> QED BY <1>1, <1>2, <1>3, <2>1, <2>2
<1> QED BY <1>1, <1>2, <1>6, <1>7, <1>8, <1>9 DEF f

(* The list a compaction publishes. *)
LEMMA CompactNameFits ==
    ASSUME NEW s \in Nat, NEW f, f = <<CompactName(s)>>
    PROVE  /\ Ascending(f) /\ Shaped(f) /\ f # <<>> /\ f \in Seq(TableName)
           /\ Len(f) = 1 /\ f[1] = CompactName(s) /\ f[1][1] = s
<1>1. CompactName(s) \in TableName /\ CompactName(s)[1] = s
    BY DEF CompactName, TableName
<1>2. Len(f) = 1 /\ DOMAIN f = {1} /\ f[1] = CompactName(s) /\ f \in Seq(TableName)
    BY <1>1
<1>3. Ascending(f)
    BY <1>2 DEF Ascending
<1>4. Shaped(f)
    BY <1>1, <1>2 DEF Shaped
<1> QED BY <1>1, <1>2, <1>3, <1>4

(* Base case: a new database names no table. *)
LEMMA NamesInit == Init => NamesInv
<1> SUFFICES ASSUME Init PROVE NamesInv
    OBVIOUS
<1>1. manifest.files = <<>> /\ manifest.seq = 0 /\ manifestDurable = manifest
    BY DEF Init
<1>2. \A x : <<>> # <<x>>
    OBVIOUS
<1>3. Ascending(<<>>) /\ Shaped(<<>>)
    BY DEF Ascending, Shaped
<1>4. ManifestOpens(manifest)
    BY <1>1 DEF ManifestOpens
<1>5. LiveNames
    BY <1>2, <1>3 DEF Init, LiveNames
<1> QED BY <1>1, <1>3, <1>4, <1>5
        DEF Init, NamesInv, ManifestNames, DownIsEmpty, JobNames, JobPublished, Early, Late

(* A step that touches neither the directory's tables and manifests nor the *)
(* lists and maps in memory keeps the names. *)
LEMMA NamesQuiet ==
    ASSUME NamesInv, up' = "open" <=> up = "open",
           UNCHANGED <<manifest, manifestDurable, tables, state, pending, tableFiles,
                       sequence, fpc, job>>
    PROVE  NamesInv'
<1>1. ManifestNames(manifest)' /\ ManifestNames(manifestDurable)'
    BY DEF NamesInv, ManifestNames, ManifestOpens
<1>2. LiveNames' /\ DownIsEmpty'
    BY DEF NamesInv, LiveNames, DownIsEmpty
<1>3. JobNames'
    BY DEF NamesInv, JobNames, Early, Late
<1>4. JobPublished'
    BY DEF NamesInv, JobPublished, JobManifest
<1> QED BY <1>1, <1>2, <1>3, <1>4 DEF NamesInv

(* The names a flush chooses, and what it may append to. *)
LEMMA FlushJobNames ==
    ASSUME TypeOK, NEW by, NEW updates, NEW s
    PROVE  /\ FlushJob(by, updates, s).kind = "flush"
           /\ FlushJob(by, updates, s).by = by
           /\ FlushJob(by, updates, s).entries = updates
           /\ FlushJob(by, updates, s).name = FlushName(s, Len(tableFiles))
           /\ FlushJob(by, updates, s).name[1] = s
           /\ FlushJob(by, updates, s).files
                  = Append(tableFiles, FlushName(s, Len(tableFiles)))
BY DEF FlushJob, FlushName

(* The names a compaction works with. *)
LEMMA CompactJobNames ==
    ASSUME NEW by
    PROVE  /\ CompactJob(by).kind = "compact"
           /\ CompactJob(by).by = by
           /\ CompactJob(by).entries = Materialize
           /\ CompactJob(by).name = CompactName(sequence)
           /\ CompactJob(by).name[1] = sequence
           /\ CompactJob(by).files = <<CompactName(sequence)>>
BY DEF CompactJob, CompactName

(* A memtable that reached a positive size holds something. *)
LEMMA EmptyHasNoBytes == PendingBytes(EmptyMap) = 0
<1> DEFINE puts == {k \in Keys : EmptyMap[k] \in Values}
           deletes == {k \in Keys : EmptyMap[k] = Tombstone}
<1>1. \A k \in Keys : EmptyMap[k] = Absent
    BY DEF EmptyMap
<1>2. puts = {} /\ deletes = {}
    BY <1>1, ValuesAssumption
<1>3. Cardinality(puts) = 0 /\ Cardinality(deletes) = 0
    BY <1>2, FS_EmptySet
<1>4. PendingBytes(EmptyMap) = 3 * Cardinality(puts) + 2 * Cardinality(deletes)
    BY DEF PendingBytes
<1> HIDE DEF puts, deletes
<1> QED BY <1>3, <1>4

(* Starting a flush: names stay, the job's are those of the next table. *)
LEMMA NamesBeginFlush ==
    ASSUME TypeOK, NamesInv, fpc = "idle", fpc' = "table", NEW by, NEW updates,
           job' = FlushJob(by, updates, sequence'), sequence' \in Nat,
           sequence' >= sequence, tableFiles # <<CompactName(sequence')>>, up = "open",
           sequence' = sequence => UNCHANGED <<state, pending>>,
           UNCHANGED <<manifest, manifestDurable, tables, up, tableFiles>>
    PROVE  NamesInv'
<1>1. ManifestNames(manifest)' /\ ManifestNames(manifestDurable)'
    BY DEF NamesInv, ManifestNames, ManifestOpens
<1>2. LiveNames'
    <2>1. sequence \in Nat /\ tableFiles \in Seq(TableName)
        BY DEF TypeOK
    <2>2. \A i \in DOMAIN tableFiles : tableFiles[i][1] \in Nat
        BY <2>1, ElementOfSeq DEF TableName
    <2>3. \A i \in DOMAIN tableFiles : tableFiles[i][1] <= sequence'
        BY <2>1, <2>2 DEF NamesInv, LiveNames
    <2> QED BY <2>3 DEF NamesInv, LiveNames
<1>3. JobNames'
    BY FlushJobNames DEF JobNames, Early, Late
<1>4. JobPublished' /\ DownIsEmpty'
    BY DEF JobPublished, Late, DownIsEmpty
<1> QED BY <1>1, <1>2, <1>3, <1>4 DEF NamesInv

(* New sequences are above every table's. *)
LEMMA SequenceIsFresh ==
    ASSUME TypeOK, NamesInv, up = "open", NEW s \in Nat, s > sequence
    PROVE  tableFiles # <<CompactName(s)>>
<1> SUFFICES ASSUME tableFiles = <<CompactName(s)>> PROVE FALSE
    OBVIOUS
<1>1. Len(tableFiles) = 1 /\ tableFiles[1] = CompactName(s) /\ DOMAIN tableFiles = 1..1
    OBVIOUS
<1>2. tableFiles[1][1] = s
    BY <1>1 DEF CompactName
<1>3. tableFiles[1][1] <= sequence
    BY <1>1 DEF NamesInv, LiveNames
<1> QED BY <1>2, <1>3 DEF TypeOK

(* The group commit keeps manifest and tables together. *)
LEMMA NamesWriter ==
    ASSUME ControlInv, NamesInv, WriterNext PROVE NamesInv'
<1> USE DEF ControlInv, disk, memory, writer, past, history
<1>1. ASSUME NEW g \in Groups, WriterBegin(g) PROVE NamesInv'
    <2> DEFINE full == /\ MaxMemtableBytes > 1
                       /\ PendingBytes(pending) >= 2 * MaxMemtableBytes
    <2>1. CASE ~full
        BY <1>1, <2>1, NamesQuiet DEF WriterBegin
    <2>2. CASE full
        <3>1. pending # EmptyMap
            BY <2>2, EmptyHasNoBytes, BoundsAssumption
        <3>2. tableFiles # <<CompactName(sequence)>>
            BY <1>1, <3>1 DEF WriterBegin, NamesInv, LiveNames
        <3>3. /\ fpc = "idle" /\ fpc' = "table" /\ up = "open"
              /\ job' = FlushJob("backpressure", pending, sequence)
              /\ UNCHANGED <<sequence, state, pending, manifest, manifestDurable, tables,
                             up, tableFiles>>
            BY <1>1, <2>2 DEF WriterBegin
        <3>4. sequence \in Nat /\ sequence' = sequence
            BY <3>3 DEF TypeOK
        <3> HIDE DEF full
        <3> QED BY <3>2, <3>3, <3>4, NamesBeginFlush
    <2> QED BY <2>1, <2>2
<1>2. ASSUME WriterWrite \/ WriterWriteFails \/ WriterWriteTorn \/ WriterSync
             \/ WriterSyncFails \/ WriterApplyFails
      PROVE  NamesInv'
    BY <1>2, NamesQuiet
       DEF WriterWrite, WriterWriteFails, WriterWriteTorn, WriterSync, WriterSyncFails,
           WriterApplyFails
<1>3. ASSUME WriterApply \/ WriterSpawnFails PROVE NamesInv'
    <2>1. /\ up = "open" /\ fpc = "idle" /\ ApplyGroup /\ wpc = "apply"
          /\ UNCHANGED <<manifest, manifestDurable, tables, up, tableFiles>>
        BY <1>3 DEF WriterApply, WriterSpawnFails
    <2>2. Len(group) \in Nat \ {0}
        BY <2>1 DEF TypeOK, Exclusion
    <2>3. sequence' \in Nat /\ sequence' > sequence
        BY <2>1, <2>2 DEF ApplyGroup, TypeOK
    <2>4. tableFiles # <<CompactName(sequence')>>
        BY <2>1, <2>3, SequenceIsFresh
    <2>5. CASE UNCHANGED <<fpc, job>>
        <3>1. ManifestNames(manifest)' /\ ManifestNames(manifestDurable)'
            BY <2>1 DEF NamesInv, ManifestNames, ManifestOpens
        <3>2. LiveNames'
            <4>1. sequence \in Nat /\ tableFiles \in Seq(TableName)
                BY DEF TypeOK
            <4>2. \A i \in DOMAIN tableFiles : tableFiles[i][1] \in Nat
                BY <4>1, ElementOfSeq DEF TableName
            <4>3. \A i \in DOMAIN tableFiles : tableFiles[i][1] <= sequence'
                BY <4>1, <4>2, <2>1, <2>3 DEF NamesInv, LiveNames
            <4> QED BY <4>3, <2>1, <2>4 DEF NamesInv, LiveNames
        <3>3. JobNames' /\ JobPublished' /\ DownIsEmpty'
            BY <2>1, <2>5 DEF JobNames, JobPublished, Early, Late, DownIsEmpty
        <3> QED BY <3>1, <3>2, <3>3 DEF NamesInv
    <2>6. CASE fpc' = "table" /\ job' = FlushJob("writer", pending', sequence')
        <3>1. sequence' >= sequence /\ sequence' # sequence
            BY <2>3 DEF TypeOK
        <3> QED BY <2>1, <2>3, <2>4, <2>6, <3>1, NamesBeginFlush
    <2> QED BY <1>3, <2>5, <2>6 DEF WriterApply, WriterSpawnFails
<1> QED BY <1>1, <1>2, <1>3 DEF WriterNext

(* The file list a job is about to publish is in order and exists. *)
LEMMA JobFilesFit ==
    ASSUME ControlInv, NamesInv, up = "open", fpc \in Early
    PROVE  /\ Ascending(job.files) /\ Shaped(job.files) /\ job.files # <<>>
           /\ job.name[1] = sequence /\ job.name \in TableName
           /\ \A i \in DOMAIN job.files :
                  /\ job.files[i][1] <= sequence
                  /\ job.files[i] = job.name \/ job.files[i] \in DOMAIN tables
           /\ job.kind = "flush" => job.files # <<CompactName(sequence)>>
<1>1. /\ sequence \in Nat /\ tableFiles \in Seq(TableName) /\ job.name \in TableName
      /\ job.name[1] = sequence /\ Len(tableFiles) \in Nat
      /\ DOMAIN tableFiles = 1..Len(tableFiles)
    BY DEF ControlInv, TypeOK, NamesInv, JobNames, Early, Job
<1>2. CASE /\ job.kind = "flush"
           /\ job.name = FlushName(sequence, Len(tableFiles))
           /\ job.files = Append(tableFiles, job.name)
           /\ tableFiles # <<CompactName(sequence)>>
    <2>1. /\ Ascending(tableFiles) /\ Shaped(tableFiles)
          /\ \A i \in DOMAIN tableFiles :
                 tableFiles[i] \in DOMAIN tables /\ tableFiles[i][1] <= sequence
        BY DEF NamesInv, LiveNames
    <2>2. /\ Ascending(job.files) /\ Shaped(job.files) /\ job.files # <<>>
          /\ job.files # <<CompactName(sequence)>>
          /\ Len(job.files) = Len(tableFiles) + 1
          /\ job.files[Len(tableFiles) + 1] = FlushName(sequence, Len(tableFiles))
          /\ \A i \in DOMAIN tableFiles : job.files[i] = tableFiles[i]
          /\ job.files \in Seq(TableName)
        <3>1. job.files = Flushed(tableFiles, sequence)
            BY <1>2 DEF Flushed
        <3>2. \A i \in DOMAIN tableFiles : tableFiles[i][1] <= sequence
            BY <2>1
        <3>3. sequence \in Nat /\ tableFiles \in Seq(TableName)
            BY <1>1
        <3>4. tableFiles # <<CompactName(sequence)>>
            BY <1>2
        <3> QED BY ONLY <2>1, <3>1, <3>2, <3>3, <3>4, FlushNameFits
    <2>3. \A i \in DOMAIN job.files : i \in DOMAIN tableFiles \/ i = Len(tableFiles) + 1
        BY <1>1, <2>2
    <2>4. ASSUME NEW i \in DOMAIN job.files
          PROVE  /\ job.files[i][1] <= sequence
                 /\ job.files[i] = job.name \/ job.files[i] \in DOMAIN tables
        BY <2>1, <2>2, <2>3, <1>1, <1>2
    <2> QED BY <1>1, <2>2, <2>4
<1>3. CASE /\ job.kind = "compact"
           /\ job.name = CompactName(sequence)
           /\ job.files = <<job.name>>
    <2>1. /\ Ascending(job.files) /\ Shaped(job.files) /\ job.files # <<>>
          /\ Len(job.files) = 1 /\ job.files[1] = job.name
        BY <1>1, <1>3, CompactNameFits
    <2>2. \A i \in DOMAIN job.files : job.files[i] = job.name
        BY <1>3
    <2> QED BY <1>1, <1>3, <2>1, <2>2
<1> QED BY <1>2, <1>3 DEF NamesInv, JobNames

(* The tables a step drops are none that the new manifest names. *)
LEMMA KeptTables ==
    ASSUME ControlInv, NamesInv, up = "open", fpc = "install"
    PROVE  /\ DOMAIN TablesKept \subseteq DOMAIN tables
           /\ \A n \in DOMAIN TablesKept : TablesKept[n] = tables[n]
           /\ \A i \in DOMAIN job.files : job.files[i] \in DOMAIN TablesKept
<1>1. DOMAIN TablesKept \subseteq DOMAIN tables
    BY DEF TablesKept
<1>2. \A n \in DOMAIN TablesKept : TablesKept[n] = tables[n]
    BY DEF TablesKept
<1>3. job.name \in DOMAIN tables
    BY DEF ControlInv, JobTableExists
<1>4. job.name \in DOMAIN TablesKept
    BY <1>3 DEF TablesKept
<1>5. CASE job.kind = "flush"
    <2>1. \A i \in DOMAIN job.files : job.files[i] \in DOMAIN tables
        BY <1>3, JobFilesFit DEF Early
    <2> QED BY <1>1, <1>2, <1>5, <2>1 DEF TablesKept
<1>6. CASE job.kind # "flush"
    <2>1. job.files = <<job.name>>
        BY <1>6 DEF NamesInv, JobNames, Early
    <2>2. \A i \in DOMAIN job.files : job.files[i] = job.name
        BY <2>1
    <2> QED BY <1>1, <1>2, <1>4, <2>2
<1> QED BY <1>5, <1>6

(* Flush and compaction keep manifest and tables together, whatever         *)
(* fails.                                                                   *)
LEMMA NamesMaintenance ==
    ASSUME ControlInv, NamesInv, MaintenanceNext, "reload" \notin Faults PROVE NamesInv'
<1> USE DEF ControlInv, disk, memory, writer, past, history
<1>0. DownIsEmpty'
    <2>1. up = "open" /\ up' = up
        BY DEF MaintenanceNext, BeginFlush, PersistNothing, BeginCompact, WriteTable,
               WriteManifest, SyncDirectory, Install, TruncateWal, SyncEmptyWal, JobFails
    <2> QED BY <2>1 DEF DownIsEmpty
<1>1. ASSUME NEW by \in {"persist", "worker"}, BeginFlush(by) PROVE NamesInv'
    <2>1. tableFiles # <<CompactName(sequence)>>
        BY <1>1 DEF BeginFlush, NamesInv, LiveNames
    <2>2. /\ fpc = "idle" /\ fpc' = "table" /\ up = "open"
          /\ job' = FlushJob(by, pending, sequence)
          /\ UNCHANGED <<sequence, state, pending, manifest, manifestDurable, tables,
                         up, tableFiles>>
        BY <1>1 DEF BeginFlush
    <2>3. sequence \in Nat /\ sequence' = sequence
        BY <2>2 DEF TypeOK
    <2> QED BY <2>1, <2>2, <2>3, NamesBeginFlush
<1>2. ASSUME PersistNothing PROVE NamesInv'
    BY <1>2, NamesQuiet DEF PersistNothing
<1>3. ASSUME NEW by, job' = CompactJob(by), fpc' = "table",
             UNCHANGED <<manifest, manifestDurable, tables, up, state, pending,
                         tableFiles, sequence>>
      PROVE  NamesInv'
    <2>1. ManifestNames(manifest)' /\ ManifestNames(manifestDurable)'
        BY <1>3 DEF NamesInv, ManifestNames, ManifestOpens
    <2>2. LiveNames'
        BY <1>3 DEF NamesInv, LiveNames
    <2>3. JobNames' /\ JobPublished'
        BY <1>3, CompactJobNames DEF JobNames, JobPublished, Early, Late
    <2> QED BY <1>0, <2>1, <2>2, <2>3 DEF NamesInv
<1>4. ASSUME BeginCompact PROVE NamesInv'
    BY <1>3, <1>4 DEF BeginCompact
<1>5. ASSUME WriteTable PROVE NamesInv'
    <2>1. DOMAIN tables \subseteq DOMAIN tables'
        BY <1>5 DEF WriteTable
    <2>2. ManifestNames(manifest)' /\ ManifestNames(manifestDurable)'
        BY <1>5, <2>1 DEF WriteTable, NamesInv, ManifestNames, ManifestOpens
    <2>3. LiveNames'
        BY <1>5, <2>1 DEF WriteTable, NamesInv, LiveNames
    <2>4. JobNames' /\ JobPublished'
        BY <1>5 DEF WriteTable, NamesInv, JobNames, JobPublished, JobManifest, Early, Late
    <2> QED BY <1>0, <2>2, <2>3, <2>4 DEF NamesInv
<1>6. ASSUME WriteManifest PROVE NamesInv'
    <2>1. job.name \in DOMAIN tables
        BY <1>6 DEF WriteManifest, JobTableExists
    <2>2. /\ manifest' = JobManifest
          /\ manifest'.files = job.files /\ manifest'.seq = sequence
          /\ UNCHANGED <<tables, manifestDurable, up, state, pending, tableFiles,
                         sequence, job>>
        BY <1>6, JobFilesFit DEF WriteManifest, JobManifest, Early
    <2>3. ManifestNames(manifest)' /\ ManifestNames(manifestDurable)'
        BY <1>6, <2>1, <2>2, JobFilesFit
           DEF WriteManifest, NamesInv, ManifestNames, ManifestOpens, Ascending, Early
    <2>4. LiveNames'
        BY <2>2 DEF NamesInv, LiveNames
    <2>5. JobNames' /\ JobPublished'
        BY <1>6, <2>2
           DEF WriteManifest, NamesInv, JobNames, JobPublished, JobManifest, Early, Late
    <2> QED BY <1>0, <2>3, <2>4, <2>5 DEF NamesInv
<1>7. ASSUME SyncDirectory PROVE NamesInv'
    <2>1. ManifestNames(manifest)' /\ ManifestNames(manifestDurable)'
        BY <1>7 DEF SyncDirectory, NamesInv, ManifestNames, ManifestOpens
    <2>2. LiveNames'
        BY <1>7 DEF SyncDirectory, NamesInv, LiveNames
    <2>3. JobNames' /\ JobPublished'
        BY <1>7 DEF SyncDirectory, NamesInv, JobNames, JobPublished, JobManifest, Early, Late
    <2> QED BY <1>0, <2>1, <2>2, <2>3 DEF NamesInv
<1>8. ASSUME Install PROVE NamesInv'
    <2>1. /\ tables' = TablesKept /\ tableFiles' = job.files
          /\ state' = EmptyMap /\ pending' = EmptyMap /\ fpc = "install" /\ up = "open"
          /\ fpc' = "setlen"
          /\ UNCHANGED <<manifest, manifestDurable, up, sequence, job>>
        BY <1>8 DEF Install
    <2>2. manifest = JobManifest /\ manifestDurable = JobManifest
        BY <2>1 DEF NamesInv, JobPublished
    <2>3. manifest.files = job.files /\ manifestDurable.files = job.files
        BY <2>2 DEF JobManifest
    <2>4. ManifestNames(manifest)' /\ ManifestNames(manifestDurable)'
        BY <2>1, <2>3, KeptTables DEF NamesInv, ManifestNames, ManifestOpens
    <2>5. LiveNames'
        BY <2>1, JobFilesFit, KeptTables DEF LiveNames, Early
    <2>6. JobNames'
        BY <2>1, JobFilesFit DEF JobNames, Early, Late
    <2>7. JobPublished'
        BY <2>1, <2>2 DEF JobPublished, JobManifest
    <2> QED BY <1>0, <2>4, <2>5, <2>6, <2>7 DEF NamesInv
<1>9. ASSUME TruncateWal PROVE NamesInv'
    <2>1. ManifestNames(manifest)' /\ ManifestNames(manifestDurable)'
        BY <1>9 DEF TruncateWal, NamesInv, ManifestNames, ManifestOpens
    <2>2. LiveNames'
        BY <1>9 DEF TruncateWal, NamesInv, LiveNames
    <2>3. JobNames' /\ JobPublished'
        BY <1>9 DEF TruncateWal, NamesInv, JobNames, JobPublished, JobManifest, Early, Late
    <2> QED BY <1>0, <2>1, <2>2, <2>3 DEF NamesInv
<1>10. ASSUME SyncEmptyWal PROVE NamesInv'
    <2>1. UNCHANGED <<manifest, manifestDurable, tables, up, state, pending,
                      tableFiles, sequence>>
        BY <1>10 DEF SyncEmptyWal
    <2>2. CASE fpc' = "table" /\ job' = CompactJob(job.by)
        BY <1>3, <2>1, <2>2
    <2>3. CASE fpc' = "idle"
        <3>1. ManifestNames(manifest)' /\ ManifestNames(manifestDurable)'
            BY <2>1 DEF NamesInv, ManifestNames, ManifestOpens
        <3>2. LiveNames'
            BY <2>1 DEF NamesInv, LiveNames
        <3>3. JobNames' /\ JobPublished'
            BY <2>3 DEF JobNames, JobPublished, Early, Late
        <3> QED BY <1>0, <3>1, <3>2, <3>3 DEF NamesInv
    <2> QED BY <1>10, <2>2, <2>3 DEF SyncEmptyWal
<1>11. ASSUME JobFails PROVE NamesInv'
    <2>1. fpc # "install"
        BY <1>11 DEF JobFails, Fault
    <2>2. /\ UNCHANGED <<manifest, manifestDurable, tables, up, state, tableFiles, sequence>>
          /\ fpc' = "idle" /\ pending' = Restored /\ up = "open" /\ fpc # "idle"
        BY <1>11, <2>1 DEF JobFails
    <2>3. fpc \in Early \cup Late
        BY <2>2 DEF TypeOK, Early, Late
    <2>4. ManifestNames(manifest)' /\ ManifestNames(manifestDurable)'
        BY <2>2 DEF NamesInv, ManifestNames, ManifestOpens
    <2>5. job.kind = "flush" => tableFiles # <<CompactName(sequence)>>
        BY <2>3 DEF NamesInv, JobNames
    <2>6. LiveNames'
        BY <2>2, <2>5 DEF NamesInv, LiveNames, Restored
    <2>7. JobNames' /\ JobPublished'
        BY <2>2 DEF JobNames, JobPublished, Early, Late
    <2> QED BY <1>0, <2>4, <2>6, <2>7 DEF NamesInv
<1> QED BY <1>1, <1>2, <1>4, <1>5, <1>6, <1>7, <1>8, <1>9, <1>10, <1>11
        DEF MaintenanceNext

(* Whatever replay finds, the sequence goes on from the table sequence or   *)
(* later, and from it exactly when nothing was replayed.                    *)
LEMMA ReplayGoesOn ==
    ASSUME TypeOK, NEW m \in Manifest
    PROVE  /\ LastReplayed(wal, m.seq) >= m.seq
           /\ LastReplayed(wal, m.seq) = m.seq => ReplayedState(wal, m.seq) = EmptyMap
<1> DEFINE A == Accepted(wal, m.seq)
<1>1. Len(wal) \in Nat /\ DOMAIN wal = 1..Len(wal) /\ m.seq \in Nat
    BY DEF TypeOK, Manifest
<1>2. A \subseteq 1..Len(wal)
    BY <1>1 DEF Accepted, Readable
<1>3. CASE A = {}
    <2>1. LastReplayed(wal, m.seq) = m.seq
        BY <1>3 DEF LastReplayed
    <2>2. \A k \in Keys : Newest(A, [i \in DOMAIN wal |-> wal[i].batch], k) = Absent
        BY <1>3 DEF Newest
    <2>3. ReplayedState(wal, m.seq) = [k \in Keys |-> Strip(Absent)]
        BY <2>2 DEF ReplayedState
    <2>4. Strip(Absent) = Absent
        BY DEF Strip
    <2> QED BY <1>1, <2>1, <2>3, <2>4 DEF EmptyMap
<1>4. CASE A # {}
    <2>1. Max(A) \in A
        BY <1>1, <1>2, <1>4, MaxOfPositions
    <2>2. LastReplayed(wal, m.seq) = wal[Max(A)].seq
        BY <1>4 DEF LastReplayed
    <2>3. \A i \in A : wal[i].seq > m.seq
        BY DEF Accepted
    <2>4. wal[Max(A)].seq \in Nat
        <3>1. wal[Max(A)] \in Frame
            BY <1>1, <1>2, <2>1, ElementOfSeq DEF TypeOK
        <3> QED BY <3>1 DEF Frame
    <2> HIDE DEF A
    <2> QED BY <1>1, <2>1, <2>2, <2>3, <2>4
<1> QED BY <1>3, <1>4

(* Close, crash and open keep manifest and tables together. *)
LEMMA NamesLifecycle ==
    ASSUME ControlInv, NamesInv, LifecycleNext PROVE NamesInv'
<1> USE DEF ControlInv, disk, memory, writer, past, history
<1>1. ASSUME Crash PROVE NamesInv'
    <2>1. ManifestNames(manifest)' /\ ManifestNames(manifestDurable)'
        BY <1>1 DEF Crash, NamesInv, ManifestNames, ManifestOpens
    <2>2. up' # "open" /\ fpc' = "idle" /\ pending' = EmptyMap
        BY <1>1 DEF Crash, Forget, FreshMemory
    <2> QED BY <2>1, <2>2
            DEF NamesInv, LiveNames, DownIsEmpty, JobNames, JobPublished, Early, Late
<1>2. ASSUME Close PROVE NamesInv'
    <2>1. ManifestNames(manifest)' /\ ManifestNames(manifestDurable)'
        BY <1>2 DEF Close, NamesInv, ManifestNames, ManifestOpens
    <2>2. up' # "open" /\ fpc' = "idle" /\ pending' = EmptyMap
        BY <1>2 DEF Close, Forget, FreshMemory
    <2> QED BY <2>1, <2>2
            DEF NamesInv, LiveNames, DownIsEmpty, JobNames, JobPublished, Early, Late
<1>3. ASSUME RemoveLock PROVE NamesInv'
    BY <1>3, NamesQuiet DEF RemoveLock
<1>4. ASSUME Open PROVE NamesInv'
    <2>1. /\ ManifestOpens(manifest) /\ tableFiles' = manifest.files
          /\ sequence' = LastReplayed(wal, manifest.seq)
          /\ state' = ReplayedState(wal, manifest.seq)
          /\ UNCHANGED <<manifest, manifestDurable, tables, pending, fpc, job>>
        BY <1>4 DEF Open
    <2>2. fpc = "idle"
        BY <1>4 DEF Open, Exclusion
    <2>3. manifest \in Manifest /\ manifest.files \in Seq(TableName) /\ manifest.seq \in Nat
        BY DEF TypeOK, Manifest
    <2>4. /\ sequence' >= manifest.seq /\ sequence' \in Nat
          /\ sequence' = manifest.seq => state' = EmptyMap
        <3>1. sequence' \in Nat
            <4>1. ControlInv'
                BY <1>4, ControlLifecycle DEF LifecycleNext
            <4> QED BY <4>1 DEF TypeOK
        <3> QED BY <2>1, <2>3, <3>1, ReplayGoesOn
    <2>5. ManifestNames(manifest)' /\ ManifestNames(manifestDurable)'
        BY <2>1 DEF NamesInv, ManifestNames, ManifestOpens
    <2>6. \A i \in DOMAIN manifest.files : manifest.files[i][1] \in Nat
        BY <2>3, ElementOfSeq DEF TableName
    <2>7. \A i \in DOMAIN tableFiles' :
              tableFiles'[i] \in DOMAIN tables' /\ tableFiles'[i][1] <= sequence'
        BY <2>1, <2>3, <2>4, <2>6 DEF ManifestOpens
    <2>8. ASSUME tableFiles' = <<CompactName(sequence')>>
          PROVE  pending' = EmptyMap /\ state' = EmptyMap
        <3>1. 1 \in DOMAIN manifest.files /\ manifest.files[1][1] = sequence'
            BY <2>1, <2>8, <2>4, CompactNameFits
        <3>2. sequence' <= manifest.seq
            BY <2>1, <3>1 DEF ManifestOpens
        <3>3. sequence' = manifest.seq
            BY <3>2, <2>3, <2>4
        <3>4. pending = EmptyMap
            BY <1>4 DEF Open, NamesInv, DownIsEmpty
        <3> QED BY <2>1, <2>4, <3>3, <3>4
    <2>9. LiveNames'
        BY <2>1, <2>7, <2>8 DEF LiveNames, NamesInv, ManifestNames, ManifestOpens, Ascending
    <2>10. JobNames' /\ JobPublished' /\ DownIsEmpty'
        BY <1>4, <2>1, <2>2 DEF Open, JobNames, JobPublished, Early, Late, DownIsEmpty
    <2> QED BY <2>5, <2>9, <2>10 DEF NamesInv
<1> QED BY <1>1, <1>2, <1>3, <1>4 DEF LifecycleNext

(* Whatever instant the process dies at, open() accepts the manifest: for   *)
(* any crashes, reopens and I/O errors, except a table that cannot be read  *)
(* back right after it was published.                                       *)
THEOREM ManifestsOpen == "reload" \notin Faults => (Spec => []ManifestAlwaysOpens)
<1> SUFFICES ASSUME "reload" \notin Faults PROVE Spec => []ManifestAlwaysOpens
    OBVIOUS
<1>1. ASSUME ControlInv, NamesInv, [Next]_vars PROVE NamesInv'
    <2>1. CASE UNCHANGED vars
        BY <1>1, <2>1, NamesQuiet DEF vars, disk, memory
    <2> QED BY <1>1, <2>1, NamesWriter, NamesMaintenance, NamesLifecycle DEF Next
<1>2. NamesInv => ManifestAlwaysOpens
    BY DEF NamesInv, ManifestNames, ManifestAlwaysOpens
<1> QED BY <1>1, <1>2, NamesInit, ControlCorrect, PTL DEF Spec

-----------------------------------------------------------------------------
(* The write-ahead log *)

(* Whole frames with consecutive sequences. *)
Chained(w) ==
    \A i \in DOMAIN w : w[i].whole /\ w[i].seq >= 1 /\ w[i].seq = w[1].seq + i - 1

(* A frame with the sequence of a commit carries that commit. *)
Faithful(w, l) == \A i \in DOMAIN w : w[i].seq <= Len(l) => w[i].batch = l[w[i].seq]

(* The frames start no later than the next commit and end no earlier than   *)
(* the last one.                                                            *)
Reaches(w, l) == w # <<>> => w[1].seq <= Len(l) + 1 /\ w[Len(w)].seq >= Len(l)

(* What the table sequence t does not cover, the frames do. *)
Covers(w, l, t) == Len(l) <= t \/ (w # <<>> /\ w[1].seq <= t + 1)

(* Opening with the WAL w and table sequence t loses no commit of l. *)
Complete(w, l, t) == Chained(w) /\ Faithful(w, l) /\ Reaches(w, l) /\ Covers(w, l, t)

(* Sequence numbers along the log. *)
LEMMA ChainStep ==
    ASSUME NEW a \in Nat, NEW b \in Nat, NEW x \in Nat, NEW j \in Int,
           a + b = x + 1
    PROVE  x + j = a + (b + j) - 1
OBVIOUS

(* A frame of the log has a number and a batch. *)
LEMMA FrameFields ==
    ASSUME NEW w \in Seq(Frame), NEW i \in 1..Len(w)
    PROVE  w[i] \in Frame /\ w[i].seq \in Nat /\ w[i].batch \in Map
<1>1. w[i] \in Frame
    BY ElementOfSeq
<1> QED BY <1>1 DEF Frame

(* Nothing to replay is complete when the tables hold everything. *)
LEMMA EmptyComplete ==
    ASSUME NEW l \in Seq(Map), NEW t \in Nat, Len(l) <= t PROVE Complete(<<>>, l, t)
BY DEF Complete, Chained, Faithful, Reaches, Covers

(* Newer tables ask for no more. *)
LEMMA CompleteTables ==
    ASSUME NEW w, NEW l \in Seq(Map), NEW t, Complete(w, l, t)
    PROVE  Complete(w, l, Len(l))
BY DEF Complete, Covers

(* replay_wal accepts exactly the frames above the table sequence. *)
LEMMA AcceptedFrames ==
    ASSUME NEW w \in Seq(Frame), NEW t \in Nat, Chained(w)
    PROVE  /\ Readable(w) = 1..Len(w)
           /\ Accepted(w, t) = {i \in 1..Len(w) : w[i].seq > t}
<1>1. Len(w) \in Nat /\ DOMAIN w = 1..Len(w)
    OBVIOUS
<1>2. \A i \in 1..Len(w) : w[i].whole
    BY <1>1 DEF Chained
<1>3. Readable(w) = 1..Len(w)
    <2>1. \A i \in 1..Len(w) : \A j \in 1..i : j \in 1..Len(w)
        BY <1>1
    <2> QED BY <1>1, <1>2, <2>1 DEF Readable
<1>4. \A i \in 1..Len(w) : w[i].seq \in Nat
    BY FrameFields
<1>5. ASSUME NEW i \in 1..Len(w), NEW j \in 1..(i - 1) PROVE w[j].seq < w[i].seq
    <2>1. j \in 1..Len(w) /\ 1 \in 1..Len(w)
        BY <1>1, <1>5
    <2>2. w[i].seq = w[1].seq + i - 1 /\ w[j].seq = w[1].seq + j - 1 /\ w[1].seq \in Nat
        BY <1>1, <1>4, <2>1 DEF Chained
    <2> QED BY <1>5, <2>2
<1> QED BY <1>3, <1>5 DEF Accepted

(* A complete WAL brings back every commit the tables do not hold. *)
LEMMA CompleteReplays ==
    ASSUME NEW w \in Seq(Frame), NEW l \in Seq(Map), NEW t \in Nat, Complete(w, l, t),
           NEW s \in 1..Len(l), ~(s <= t)
    PROVE  \E i \in Accepted(w, t) : w[i].seq = s /\ w[i].batch = l[s]
<1> DEFINE i == s - w[1].seq + 1
<1>1. Len(l) \in Nat /\ Len(w) \in Nat /\ s \in Nat
    OBVIOUS
<1>2. w # <<>> /\ w[1].seq <= t + 1 /\ w[Len(w)].seq >= Len(l)
    BY <1>1 DEF Complete, Covers, Reaches
<1>3. 1 \in 1..Len(w) /\ Len(w) \in 1..Len(w)
    BY <1>1, <1>2
<1>4. w[1].seq \in Nat
    BY <1>3, FrameFields
<1>5. w[Len(w)].seq = w[1].seq + Len(w) - 1
    BY <1>3 DEF Complete, Chained
<1>6. i \in 1..Len(w)
    BY <1>1, <1>2, <1>4, <1>5
<1>7. w[i].seq = w[1].seq + i - 1
    BY <1>6 DEF Complete, Chained
<1>8. w[i].seq = s
    BY <1>1, <1>4, <1>7
<1>9. w[i].batch = l[s]
    BY <1>1, <1>6, <1>8 DEF Complete, Faithful
<1>10. w[i].seq > t
    BY <1>1, <1>8
<1>11. i \in Accepted(w, t)
    BY <1>6, <1>10, AcceptedFrames DEF Complete
<1> QED BY <1>8, <1>9, <1>11

(* What a crash leaves of a WAL that extends a complete one. *)
LEMMA PrefixComplete ==
    ASSUME NEW w \in Seq(Frame), NEW d \in Seq(Frame), NEW l \in Seq(Map), NEW t \in Nat,
           Complete(w, l, t), Complete(d, l, t),
           NEW v \in Seq(Frame), Len(d) <= Len(v), Len(v) <= Len(w),
           \A i \in 1..Len(d) : d[i] = w[i],
           \A i \in 1..Len(v) : v[i] = w[i],
           d = <<>> /\ w # <<>> => w[1].seq >= Len(l)
    PROVE  Complete(v, l, t)
<1>1. /\ Len(w) \in Nat /\ Len(d) \in Nat /\ Len(v) \in Nat /\ Len(l) \in Nat
      /\ DOMAIN w = 1..Len(w) /\ DOMAIN d = 1..Len(d) /\ DOMAIN v = 1..Len(v)
    OBVIOUS
<1>2. \A i \in 1..Len(v) : i \in 1..Len(w) /\ v[i] = w[i] /\ v[i].seq \in Nat
    <2>1. \A i \in 1..Len(v) : i \in 1..Len(w)
        BY <1>1
    <2> QED BY <2>1, FrameFields
<1>3. v # <<>> => 1 \in 1..Len(v) /\ Len(v) \in 1..Len(v) /\ w # <<>>
    BY <1>1
<1>4. Chained(v)
    BY <1>1, <1>2, <1>3 DEF Complete, Chained
<1>5. Faithful(v, l)
    BY <1>1, <1>2 DEF Complete, Faithful
<1>6. ASSUME v # <<>> PROVE v[1].seq <= Len(l) + 1 /\ v[Len(v)].seq >= Len(l)
    <2>1. v[1] = w[1] /\ v[1].seq \in Nat
        BY <1>2, <1>3, <1>6
    <2>2. v[1].seq <= Len(l) + 1
        BY <1>3, <1>6, <2>1 DEF Complete, Reaches
    <2>3. v[Len(v)].seq = v[1].seq + Len(v) - 1
        BY <1>1, <1>3, <1>4, <1>6 DEF Chained
    <2>4. CASE d = <<>>
        BY <1>1, <1>3, <1>6, <2>1, <2>2, <2>3, <2>4
    <2>5. CASE d # <<>>
        <3>1. 1 \in 1..Len(d) /\ Len(d) \in 1..Len(d)
            BY <1>1, <2>5
        <3>2. d[1] = w[1] /\ d[Len(d)].seq = d[1].seq + Len(d) - 1
            BY <1>1, <3>1 DEF Complete, Chained
        <3>3. d[Len(d)].seq >= Len(l)
            BY <2>5 DEF Complete, Reaches
        <3> QED BY <1>1, <2>1, <2>2, <2>3, <3>2, <3>3
    <2> QED BY <2>4, <2>5
<1>7. Covers(v, l, t)
    <2> SUFFICES ASSUME ~(Len(l) <= t) PROVE v # <<>> /\ v[1].seq <= t + 1
        BY DEF Covers
    <2>1. d # <<>> /\ d[1].seq <= t + 1
        BY DEF Complete, Covers
    <2>2. 1 \in 1..Len(d) /\ 1 \in 1..Len(v)
        BY <1>1, <2>1
    <2> QED BY <1>1, <2>1, <2>2
<1> QED BY <1>4, <1>5, <1>6, <1>7 DEF Complete, Reaches

(* Appending the frames of the next commits. *)
LEMMA AppendComplete ==
    ASSUME NEW w \in Seq(Frame), NEW l \in Seq(Map), NEW t \in Nat, t <= Len(l),
           Complete(w, l, t), w # <<>> => w[Len(w)].seq = Len(l),
           NEW g \in Seq(Batches), NEW v \in Seq(Frame),
           Len(v) = Len(w) + Len(g), \A i \in 1..Len(w) : v[i] = w[i],
           \A j \in 1..Len(g) : v[Len(w) + j] = Frames(g, Len(l) + 1)[j],
           g # <<>>
    PROVE  /\ Complete(v, l, t) /\ Complete(v, l \o g, t)
           /\ v # <<>> /\ v[Len(v)].seq = Len(l) + Len(g)
<1> DEFINE n == Len(w)
           c == Len(l)
<1>0. n \in Nat /\ Len(g) \in Nat \ {0} /\ c \in Nat /\ t <= c
    OBVIOUS
<1>1. /\ n \in Nat /\ Len(g) \in Nat \ {0} /\ c \in Nat
      /\ DOMAIN w = 1..n /\ DOMAIN v = 1..(n + Len(g))
    OBVIOUS
<1>2. \A j \in 1..Len(g) : /\ v[n + j].whole /\ v[n + j].batch = g[j]
                           /\ v[n + j].seq = c + j
    <2>1. c + 1 \in Nat \ {0}
        BY <1>1
    <2>2. \A j \in 1..Len(g) : Frames(g, c + 1)[j]
                = [seq |-> c + 1 + j - 1, batch |-> g[j], whole |-> TRUE]
        BY <2>1, FramesType
    <2>3. \A j \in 1..Len(g) : c + 1 + j - 1 = c + j
        BY <1>0
    <2> SUFFICES ASSUME NEW j \in 1..Len(g)
                 PROVE  /\ v[n + j].whole /\ v[n + j].batch = g[j]
                        /\ v[n + j].seq = c + j
        OBVIOUS
    <2>4. v[n + j] = [seq |-> c + 1 + j - 1, batch |-> g[j], whole |-> TRUE]
        BY <2>2
    <2>5. v[n + j].seq = c + 1 + j - 1 /\ v[n + j].whole = TRUE /\ v[n + j].batch = g[j]
        BY <2>4
    <2> QED BY <2>3, <2>5
<1>3. \A i \in 1..n : w[i].seq \in Nat
    BY FrameFields
<1>4. /\ w = <<>> => v[1].seq = c + 1
      /\ w # <<>> => v[1].seq = w[1].seq
      /\ v[1].seq + n = c + 1 /\ v[1].seq \in Nat /\ v[1].seq >= 1
    <2>1. CASE w = <<>>
        <3>1. n = 0 /\ 1 \in 1..Len(g) /\ n + 1 = 1
            BY <1>1, <2>1
        <3>2. v[1].seq = c + 1
            BY <1>2, <3>1
        <3> QED BY <1>1, <2>1, <3>1, <3>2
    <2>2. CASE w # <<>>
        <3>1. 1 \in 1..n /\ n \in 1..n
            BY <1>1, <2>2
        <3>2. w[n].seq = w[1].seq + n - 1 /\ w[1].seq >= 1
            BY <1>1, <3>1 DEF Complete, Chained
        <3>3. v[1] = w[1] /\ w[1].seq \in Nat /\ w[n].seq = c
            BY <1>3, <2>2, <3>1
        <3>4. w[1].seq + n = c + 1
            <4> HIDE DEF n, c
            <4>1. w[1].seq \in Nat /\ n \in Nat /\ c \in Nat
                BY <1>0, <3>3
            <4>2. c = w[1].seq + n - 1
                BY <3>2, <3>3
            <4> QED BY ONLY <4>1, <4>2
        <3> QED BY <2>2, <3>2, <3>3, <3>4
    <2> QED BY <2>1, <2>2
<1>a. v[1].seq + n = c + 1 /\ v[1].seq \in Nat
    BY <1>4
<1>5. ASSUME NEW i \in 1..(n + Len(g))
      PROVE  /\ v[i].whole /\ v[i].seq = v[1].seq + i - 1
             /\ i \in 1..n \/ (v[i].seq = c + (i - n) /\ (i - n) \in 1..Len(g)
                               /\ v[i].batch = g[i - n])
    <2>1. CASE i \in 1..n
        <3>1. w # <<>>
            BY <1>1, <2>1
        <3>2. v[i] = w[i] /\ w[i].whole /\ w[i].seq = w[1].seq + i - 1
            BY <1>1, <2>1 DEF Complete, Chained
        <3> QED BY <2>1, <3>1, <3>2, <1>4
    <2>2. CASE i \notin 1..n
        <3> DEFINE j == i - n
        <3>1. j \in 1..Len(g) /\ i = n + j
            BY <1>1, <2>2
        <3>2. v[i].whole /\ v[i].seq = c + j /\ v[i].batch = g[j]
            BY <1>2, <3>1
        <3>3. c + j = v[1].seq + (n + j) - 1
            <4> DEFINE a == v[1].seq
            <4>1. a \in Nat /\ a + n = c + 1 /\ j \in Int
                BY <1>a, <3>1
            <4> HIDE DEF n, c, j, a
            <4>2. c + j = a + (n + j) - 1
                BY <1>0, <4>1, ChainStep
            <4> QED BY <4>2 DEF a
        <3>4. v[i].seq = v[1].seq + i - 1
            BY <3>1, <3>2, <3>3
        <3> QED BY <3>1, <3>2, <3>4
    <2> QED BY <2>1, <2>2
<1>6. Chained(v)
    <2>1. \A i \in 1..(n + Len(g)) : v[1].seq + i - 1 >= 1
        BY <1>1, <1>4
    <2> QED BY <1>1, <1>5, <2>1 DEF Chained
<1>7. /\ l \o g \in Seq(Map) /\ Len(l \o g) = c + Len(g)
      /\ \A s \in 1..c : (l \o g)[s] = l[s]
      /\ \A j \in 1..Len(g) : (l \o g)[c + j] = g[j]
    <2>1. g \in Seq(Map)
        BY BatchesAssumption, SeqMonotonic
    <2> QED BY <2>1, ConcatProperties, <1>1
<1>8. \A i \in 1..n : w[i].seq <= c /\ w[i].seq >= 1 /\ w[i].batch = l[w[i].seq]
    <2> SUFFICES ASSUME NEW i \in 1..n
                 PROVE  w[i].seq <= c /\ w[i].seq >= 1 /\ w[i].batch = l[w[i].seq]
        OBVIOUS
    <2>1. w # <<>> /\ 1 \in 1..n /\ n \in 1..n
        BY <1>1
    <2>2. w[n].seq = w[1].seq + n - 1 /\ w[i].seq = w[1].seq + i - 1 /\ w[i].seq >= 1
        BY <1>1, <2>1 DEF Complete, Chained
    <2>3. w[i].seq <= c
        BY <1>1, <1>3, <2>1, <2>2
    <2> QED BY <2>2, <2>3, <1>1 DEF Complete, Faithful
<1>9. Faithful(v, l)
    <2> SUFFICES ASSUME NEW i \in 1..(n + Len(g)), v[i].seq <= c
                 PROVE  v[i].batch = l[v[i].seq]
        BY <1>1 DEF Faithful
    <2>1. i \in 1..n
        BY <1>1, <1>5
    <2> QED BY <2>1, <1>8
<1>10. Faithful(v, l \o g)
    <2> SUFFICES ASSUME NEW i \in 1..(n + Len(g)), v[i].seq <= c + Len(g)
                 PROVE  v[i].batch = (l \o g)[v[i].seq]
        BY <1>1, <1>7 DEF Faithful
    <2>1. CASE i \in 1..n
        <3>1. v[i] = w[i] /\ w[i].seq \in 1..c /\ w[i].batch = l[w[i].seq]
            BY <1>1, <1>3, <1>8, <2>1
        <3> QED BY <3>1, <1>7
    <2>2. CASE i \notin 1..n
        BY <1>5, <1>7, <2>2
    <2> QED BY <2>1, <2>2
<1>11. v # <<>> /\ Len(v) = n + Len(g) /\ v[Len(v)].seq = c + Len(g)
    <2>1. n + Len(g) \in 1..(n + Len(g)) /\ n + Len(g) \notin 1..n
        BY <1>1
    <2>2. v[n + Len(g)].seq = c + Len(g)
        BY <1>1, <1>5, <2>1
    <2> QED BY <1>1, <2>2
<1>12. v[1].seq <= t + 1
    <2>1. CASE w = <<>>
        <3>1. c <= t
            BY <2>1 DEF Complete, Covers
        <3> QED BY <1>1, <1>4, <2>1, <3>1
    <2>2. CASE w # <<>>
        <3>1. w[1].seq <= c + 1 /\ (c <= t \/ w[1].seq <= t + 1)
            BY <2>2 DEF Complete, Covers, Reaches
        <3> QED BY <1>1, <1>4, <2>2, <3>1
    <2> QED BY <2>1, <2>2
<1>13. v[1].seq <= c + 1
    BY <1>0, <1>a, <1>12
<1>14. Complete(v, l, t)
    BY <1>1, <1>6, <1>9, <1>11, <1>12, <1>13 DEF Complete, Covers, Reaches
<1>15. Complete(v, l \o g, t)
    <2>1. v[1].seq <= c + Len(g) + 1 /\ c + Len(g) >= c + Len(g)
        BY <1>1, <1>4, <1>13
    <2> QED BY <1>6, <1>7, <1>10, <1>11, <1>12, <2>1 DEF Complete, Covers, Reaches
<1> QED BY <1>11, <1>14, <1>15

(* The WAL without the frames of the group in flight. *)
Base == IF wpc \in {"sync", "apply"} THEN SubSeq(wal, 1, walStart) ELSE wal

(* Whatever survives a crash, with either manifest, is complete. *)
Recoverable ==
    \A w \in {walDurable, wal, Base}, m \in {manifest, manifestDurable} :
        Complete(w, log, m.seq)

(* Only the frames in flight are not durable. *)
BaseDurable ==
    Len(Base) <= Len(walDurable) /\ \A i \in 1..Len(Base) : walDurable[i] = Base[i]

TablesBehind == manifest.seq <= Len(log) /\ manifestDurable.seq <= Len(log)

(* The sequence counts the commits, the frames end with it, and the         *)
(* journal length is the length of the WAL.                                 *)
Counted ==
    up = "open" =>
        /\ sequence = Len(log)
        /\ ~recovery /\ Base # <<>> => Base[Len(Base)].seq = sequence
        /\ fpc # "walsync" => journal = IF wpc = "sync" THEN walStart ELSE Len(wal)

(* The group in flight sits at the end of the WAL. *)
GroupLogged ==
    /\ wpc = "write" => walStart = Len(wal)
    /\ wpc \in {"sync", "apply"} =>
         /\ Len(wal) = walStart + Len(group)
         /\ \A j \in 1..Len(group) : wal[walStart + j] = Frames(group, Len(log) + 1)[j]
    /\ wpc = "apply" => walDurable = wal

(* From when on the manifests cover everything. *)
JobCovers ==
    /\ fpc # "idle" => job.name[1] = Len(log)
    /\ fpc \in {"dirsync", "install"} \cup Late => manifest.seq = Len(log)
    /\ fpc \in {"install"} \cup Late => manifestDurable.seq = Len(log)
    /\ fpc = "walsync" => wal = <<>>

LogInv ==
    /\ Recoverable /\ BaseDurable /\ TablesBehind
    /\ Counted /\ GroupLogged /\ JobCovers

SafeLog == Faults \cap {"torn", "truncate", "walsync"} = {}

(* The frames in flight start where the WAL ended. *)
LEMMA BaseFacts ==
    ASSUME ControlInv, LogInv
    PROVE  /\ Base \in Seq(Frame)
           /\ wpc \in {"sync", "apply"} =>
                 /\ Len(Base) = walStart /\ walStart <= Len(wal)
                 /\ \A i \in 1..walStart : Base[i] = wal[i]
           /\ wpc \notin {"sync", "apply"} => Base = wal
<1>1. wal \in Seq(Frame) /\ walStart \in Nat /\ Len(wal) \in Nat /\ Len(group) \in Nat
    BY DEF ControlInv, TypeOK
<1>2. ASSUME wpc \in {"sync", "apply"}
      PROVE  /\ Len(Base) = walStart /\ walStart <= Len(wal) /\ Base \in Seq(Frame)
             /\ \A i \in 1..walStart : Base[i] = wal[i]
    <2>1. walStart <= Len(wal)
        BY <1>1, <1>2 DEF LogInv, GroupLogged
    <2>2. Base = SubSeq(wal, 1, walStart)
        BY <1>2 DEF Base
    <2>3. walStart \in 0..Len(wal)
        BY <1>1, <2>1
    <2>4. Len(SubSeq(wal, 1, walStart)) = walStart /\ SubSeq(wal, 1, walStart) \in Seq(Frame)
        BY <1>1, <2>3
    <2>5. \A i \in 1..walStart : SubSeq(wal, 1, walStart)[i] = wal[i]
        BY <1>1, <2>3
    <2> QED BY <2>1, <2>2, <2>4, <2>5
<1>3. wpc \notin {"sync", "apply"} => Base = wal
    BY DEF Base
<1> QED BY <1>1, <1>2, <1>3

(* Any WAL a crash can leave is complete. *)
LEMMA SurvivingComplete ==
    ASSUME ControlInv, LogInv, NEW w \in SurvivingWals
    PROVE  /\ w \in Seq(Frame)
           /\ Complete(w, log, manifest.seq) /\ Complete(w, log, manifestDurable.seq)
<1>1. /\ wal \in Seq(Frame) /\ walDurable \in Seq(Frame) /\ log \in Seq(Map)
      /\ manifest.seq \in Nat /\ manifestDurable.seq \in Nat
      /\ Len(wal) \in Nat /\ Len(walDurable) \in Nat /\ Len(log) \in Nat
      /\ DOMAIN walDurable = 1..Len(walDurable)
    BY DEF ControlInv, TypeOK, Manifest
<1>2. \A m \in {manifest, manifestDurable} :
          Complete(wal, log, m.seq) /\ Complete(walDurable, log, m.seq)
    BY DEF LogInv, Recoverable
<1>3. CASE w = walDurable
    BY <1>1, <1>2, <1>3
<1>4. CASE w = wal
    BY <1>1, <1>2, <1>4
<1>5. CASE w \notin {wal, walDurable}
    <2>1. PICK n \in 0..Len(wal) :
              /\ w \in Seq(Frame) /\ Len(w) = n
              /\ \A i \in 1..n : w[i] = wal[i]
              /\ \/ w = wal
                 \/ /\ n >= Len(walDurable)
                    /\ \A i \in DOMAIN walDurable : wal[i] = walDurable[i]
        BY <1>5, SurvivingWalCases DEF ControlInv
    <2>2. /\ w \in Seq(Frame) /\ Len(walDurable) <= Len(w) /\ Len(w) <= Len(wal)
          /\ \A i \in 1..Len(walDurable) : walDurable[i] = wal[i]
          /\ \A i \in 1..Len(w) : w[i] = wal[i]
        <3>1. w # wal /\ w # walDurable
            BY <1>5
        <3>2. n >= Len(walDurable) /\ n <= Len(wal)
            BY <1>1, <2>1, <3>1
        <3>3. \A i \in 1..Len(walDurable) : walDurable[i] = wal[i]
            BY <1>1, <2>1, <3>1
        <3> QED BY <2>1, <3>2, <3>3
    <2>3. ASSUME walDurable = <<>>, wal # <<>> PROVE wal[1].seq >= Len(log)
        <3>1. Len(Base) = 0
            <4>1. Base \in Seq(Frame)
                BY BaseFacts
            <4>2. Len(Base) \in Nat
                BY <4>1
            <4> QED BY <4>2, <2>3 DEF LogInv, BaseDurable
        <3>2. wpc \in {"sync", "apply"}
            BY <3>1, <2>3, <1>1 DEF Base
        <3>3. walStart = 0
            BY <3>1, <3>2, BaseFacts
        <3>4. group \in Seq(Batches) /\ group # <<>>
            BY <3>2 DEF ControlInv, TypeOK, Exclusion
        <3>5. 1 \in 1..Len(group) /\ Len(log) + 1 \in Nat \ {0}
            BY <3>4, <1>1
        <3>6. wal[1] = Frames(group, Len(log) + 1)[1]
            BY <3>2, <3>3, <3>5 DEF LogInv, GroupLogged
        <3>7. wal[1] = [seq |-> Len(log) + 1 + 1 - 1, batch |-> group[1], whole |-> TRUE]
            BY <3>4, <3>5, <3>6, FramesType
        <3>8. wal[1].seq = Len(log) + 1 + 1 - 1
            BY <3>7
        <3> QED BY <1>1, <3>8
    <2> QED BY <1>1, <1>2, <2>2, <2>3, PrefixComplete
<1> QED BY <1>3, <1>4, <1>5

(* Base case: the log of a new database is complete. *)
LEMMA LogInit == Init => LogInv
<1> SUFFICES ASSUME Init PROVE LogInv
    OBVIOUS
<1>1. /\ wal = <<>> /\ walDurable = <<>> /\ Base = <<>> /\ log = <<>> /\ wpc = "idle"
      /\ fpc = "idle" /\ sequence = 0 /\ journal = 0 /\ manifest.seq = 0
      /\ manifestDurable.seq = 0
    BY DEF Init, Base
<1>2. Complete(<<>>, <<>>, 0)
    BY DEF Complete, Chained, Faithful, Reaches, Covers
<1>3. Recoverable
    BY <1>1, <1>2 DEF Recoverable
<1>4. BaseDurable /\ TablesBehind
    BY <1>1 DEF BaseDurable, TablesBehind
<1>5. Counted /\ GroupLogged /\ JobCovers
    BY <1>1 DEF Counted, GroupLogged, JobCovers, Late
<1> QED BY <1>3, <1>4, <1>5 DEF LogInv

(* A step that leaves files and commits alone. *)
LEMMA LogFilesKept ==
    ASSUME LogInv, UNCHANGED <<wal, walDurable, log, manifest, manifestDurable>>,
           Base' = Base
    PROVE  Recoverable' /\ BaseDurable' /\ TablesBehind'
<1>1. Recoverable'
    BY DEF LogInv, Recoverable
<1>2. BaseDurable'
    BY DEF LogInv, BaseDurable
<1>3. TablesBehind'
    BY DEF LogInv, TablesBehind
<1> QED BY <1>1, <1>2, <1>3

(* Making the visible WAL durable. *)
LEMMA LogSynced ==
    ASSUME ControlInv, LogInv, walDurable' = wal, UNCHANGED <<wal, log, manifest, manifestDurable>>,
           Base' = Base
    PROVE  Recoverable' /\ BaseDurable' /\ TablesBehind'
<1>1. Recoverable'
    BY DEF LogInv, Recoverable
<1>2. BaseDurable'
    <2>1. Len(Base) <= Len(wal) /\ \A i \in 1..Len(Base) : wal[i] = Base[i]
        BY BaseFacts DEF ControlInv, TypeOK
    <2> QED BY <2>1 DEF BaseDurable
<1>3. TablesBehind'
    BY DEF LogInv, TablesBehind
<1> QED BY <1>1, <1>2, <1>3

(* The start of a group commit keeps the log complete. *)
LEMMA LogBegin ==
    ASSUME ControlInv, LogInv, NEW g \in Groups, WriterBegin(g) PROVE LogInv'
<1> USE DEF ControlInv, disk, memory, writer, past, history
<1>1. wpc = "idle" /\ fpc = "idle" /\ up = "open"
    BY DEF WriterBegin, Exclusion
<1>2. wpc' \in {"backpressure", "write"} /\ fpc' \in {"idle", "table"} /\ walStart' = journal
      /\ UNCHANGED <<wal, walDurable, log, manifest, manifestDurable, sequence, journal,
                     recovery, up>>
    BY <1>1 DEF WriterBegin
<1>3. Base = wal /\ Base' = wal
    BY <1>1, <1>2 DEF Base
<1>4. sequence = Len(log) /\ journal = Len(wal)
    BY <1>1 DEF LogInv, Counted
<1>5. fpc' = "table" => job'.name[1] = sequence
    BY <1>1, JobTypes DEF WriterBegin, TypeOK
<1>6. Counted'
    BY <1>1, <1>2, <1>3, <1>4 DEF LogInv, Counted
<1>7. GroupLogged'
    BY <1>2, <1>4 DEF GroupLogged
<1>8. JobCovers'
    BY <1>2, <1>4, <1>5 DEF JobCovers, Late
<1>9. Recoverable' /\ BaseDurable' /\ TablesBehind'
    BY <1>2, <1>3, LogFilesKept
<1> QED BY <1>6, <1>7, <1>8, <1>9 DEF LogInv

(* The append of a group keeps the log complete. *)
LEMMA LogWrite ==
    ASSUME ControlInv, LogInv, WriterWrite PROVE LogInv'
<1> USE DEF ControlInv, disk, memory, writer, past, history
<1>1. /\ wpc = "write" /\ fpc = "idle" /\ up = "open" /\ wpc' = "sync" /\ ~recovery
      /\ wal' = wal \o Frames(group, sequence + 1)
      /\ UNCHANGED <<walDurable, log, manifest, manifestDurable, sequence, journal, recovery,
                     up, fpc, job, group, walStart>>
    BY DEF WriterWrite, Conflict
<1>2. /\ wal \in Seq(Frame) /\ log \in Seq(Map) /\ group \in Seq(Batches) /\ group # <<>>
      /\ sequence = Len(log) /\ walStart = Len(wal) /\ journal = Len(wal)
      /\ manifest.seq \in Nat /\ manifestDurable.seq \in Nat
    BY <1>1 DEF TypeOK, Manifest, Exclusion, LogInv, Counted, GroupLogged
<1>3. Len(log) \in Nat /\ Len(wal) \in Nat /\ Len(log) + 1 \in Nat \ {0}
    BY <1>2
<1>4. Frames(group, Len(log) + 1) \in Seq(Frame)
      /\ Len(Frames(group, Len(log) + 1)) = Len(group)
    BY <1>2, <1>3, FramesType
<1>5. /\ wal' \in Seq(Frame) /\ Len(wal') = Len(wal) + Len(group)
      /\ \A i \in 1..Len(wal) : wal'[i] = wal[i]
      /\ \A j \in 1..Len(group) : wal'[Len(wal) + j] = Frames(group, Len(log) + 1)[j]
    <2>1. wal' = wal \o Frames(group, Len(log) + 1)
        BY <1>1, <1>2
    <2> DEFINE fr == Frames(group, Len(log) + 1)
    <2>2. fr \in Seq(Frame) /\ Len(fr) = Len(group) /\ wal' = wal \o fr
        BY <2>1, <1>4
    <2> HIDE DEF fr
    <2>3. wal' \in Seq(Frame) /\ Len(wal') = Len(wal) + Len(fr)
        BY <2>2, <1>2, ConcatProperties
    <2>4. \A i \in 1..Len(wal) : wal'[i] = wal[i]
        BY <2>2, <1>2, ConcatProperties
    <2>5. \A j \in 1..Len(fr) : wal'[Len(wal) + j] = fr[j]
        BY <2>2, <1>2, ConcatProperties
    <2> QED BY <2>2, <2>3, <2>4, <2>5 DEF fr
<1>6. Base = wal
    BY <1>1 DEF Base
<1>7. Base' = wal
    <2>1. Base' = SubSeq(wal', 1, Len(wal))
        BY <1>1, <1>2 DEF Base
    <2>2. Len(wal) \in 0..Len(wal')
        BY <1>2, <1>3, <1>5
    <2>3. Len(SubSeq(wal', 1, Len(wal))) = Len(wal) /\ SubSeq(wal', 1, Len(wal)) \in Seq(Frame)
        BY <1>3, <1>5, <2>2
    <2>4. \A i \in 1..Len(wal) : SubSeq(wal', 1, Len(wal))[i] = wal[i]
        BY <1>5, <2>2
    <2> QED BY <1>2, <2>1, <2>3, <2>4, SeqEqual
<1>8. wal # <<>> => wal[Len(wal)].seq = Len(log)
    BY <1>1, <1>2, <1>6 DEF LogInv, Counted
<1>9. \A m \in {manifest, manifestDurable} : Complete(wal', log, m.seq)
    <2> SUFFICES ASSUME NEW m \in {manifest, manifestDurable} PROVE Complete(wal', log, m.seq)
        OBVIOUS
    <2>1. Complete(wal, log, m.seq) /\ m.seq \in Nat /\ m.seq <= Len(log)
        BY <1>2 DEF LogInv, Recoverable, TablesBehind
    <2> QED BY <1>2, <1>5, <1>8, <2>1, AppendComplete
<1>10. Recoverable'
    BY <1>1, <1>6, <1>7, <1>9 DEF LogInv, Recoverable
<1>11. BaseDurable' /\ TablesBehind'
    BY <1>1, <1>6, <1>7 DEF LogInv, BaseDurable, TablesBehind
<1>12. Counted'
    BY <1>1, <1>2, <1>6, <1>7 DEF LogInv, Counted
<1>13. GroupLogged'
    BY <1>1, <1>2, <1>5 DEF GroupLogged
<1>14. JobCovers'
    BY <1>1 DEF JobCovers, Late
<1> QED BY <1>10, <1>11, <1>12, <1>13, <1>14 DEF LogInv

(* The sync of a group and its acknowledgement keep the log complete. *)
LEMMA LogSyncs ==
    ASSUME ControlInv, LogInv, SafeLog, WriterSync \/ WriterSyncFails PROVE LogInv'
<1> USE DEF ControlInv, disk, memory, writer, past, history
<1>1. wpc = "sync" /\ fpc = "idle" /\ up = "open" /\ ~recovery
    BY DEF WriterSync, WriterSyncFails, Exclusion, TypeOK
<1>2. /\ wal \in Seq(Frame) /\ walDurable \in Seq(Frame) /\ walStart \in Nat
      /\ Len(wal) \in Nat /\ Len(group) \in Nat
      /\ Len(wal) = walStart + Len(group) /\ walStart <= Len(wal)
      /\ Base \in Seq(Frame) /\ Len(Base) = walStart
      /\ \A i \in 1..walStart : Base[i] = wal[i]
    BY <1>1, BaseFacts DEF TypeOK, LogInv, GroupLogged
<1>3. ASSUME WriterSync PROVE LogInv'
    <2>1. /\ wpc' = "apply" /\ walDurable' = wal /\ journal' = walStart + Len(group)
          /\ UNCHANGED <<wal, log, manifest, manifestDurable, sequence, recovery,
                         up, fpc, job, group, walStart>>
        BY <1>3 DEF WriterSync
    <2>2. Base' = Base
        BY <1>1, <2>1 DEF Base
    <2>3. Counted'
        BY <1>1, <1>2, <2>1, <2>2 DEF LogInv, Counted
    <2>4. GroupLogged'
        BY <1>1, <2>1 DEF LogInv, GroupLogged
    <2>5. JobCovers'
        BY <1>1, <2>1 DEF JobCovers, Late
    <2>6. Recoverable' /\ BaseDurable' /\ TablesBehind'
        BY <2>1, <2>2, LogSynced
    <2> QED BY <2>3, <2>4, <2>5, <2>6 DEF LogInv
<1>4. ASSUME WriterSyncFails PROVE LogInv'
    <2>1. /\ wpc' = "idle" /\ walDurable' \in {walDurable, wal} /\ journal' = walStart
          /\ wal' = SetLen(wal, walStart)
          /\ UNCHANGED <<log, manifest, manifestDurable, sequence, recovery,
                         up, fpc, job>>
        BY <1>4 DEF WriterSyncFails, ReleaseWriter, SafeLog
    <2>2. wal' = Base
        <3>1. /\ SetLen(wal, walStart) \in Seq(Frame)
              /\ Len(SetLen(wal, walStart)) = walStart
            BY <1>2, SetLenType
        <3>2. DOMAIN wal = 1..Len(wal)
            BY <1>2
        <3>3. \A i \in 1..walStart : i \in DOMAIN wal
            BY <1>2, <3>2
        <3>4. \A i \in 1..walStart : SetLen(wal, walStart)[i] = wal[i]
            BY <3>3 DEF SetLen
        <3> QED BY <1>2, <2>1, <3>1, <3>4, SeqEqual
    <2>3. Base' = Base
        BY <2>1, <2>2 DEF Base
    <2>4. Recoverable'
        BY <2>1, <2>2, <2>3 DEF LogInv, Recoverable
    <2>5. BaseDurable'
        <3>1. Len(Base) <= Len(wal) /\ \A i \in 1..Len(Base) : wal[i] = Base[i]
            BY <1>2
        <3> QED BY <2>1, <2>3, <3>1 DEF LogInv, BaseDurable
    <2>6. TablesBehind' /\ GroupLogged' /\ JobCovers'
        BY <1>1, <2>1 DEF LogInv, TablesBehind, GroupLogged, JobCovers, Late
    <2>7. Counted'
        BY <1>1, <1>2, <2>1, <2>2, <2>3 DEF LogInv, Counted
    <2> QED BY <2>4, <2>5, <2>6, <2>7 DEF LogInv
<1> QED BY <1>3, <1>4

(* The group becomes part of the history: its frames are all durable. *)
LEMMA LogApply ==
    ASSUME ControlInv, LogInv, WriterApply \/ WriterSpawnFails PROVE LogInv'
<1> USE DEF ControlInv, disk, memory, writer, past, history
<1>1. /\ wpc = "apply" /\ fpc = "idle" /\ up = "open" /\ ~recovery /\ ApplyGroup
      /\ UNCHANGED <<wal, walDurable, manifest, manifestDurable, journal, up>>
      /\ wpc' \in {"idle", "flush"} /\ fpc' \in {"idle", "table"}
    BY DEF WriterApply, WriterSpawnFails, Conflict, ReleaseWriter
<1>2. /\ wal \in Seq(Frame) /\ log \in Seq(Map) /\ group \in Seq(Batches) /\ group # <<>>
      /\ sequence = Len(log) /\ walDurable = wal /\ journal = Len(wal)
      /\ manifest.seq \in Nat /\ manifestDurable.seq \in Nat
    BY <1>1 DEF TypeOK, Manifest, Exclusion, LogInv, Counted, GroupLogged
<1>3. /\ Base \in Seq(Frame) /\ Len(Base) = walStart /\ Len(wal) = Len(Base) + Len(group)
      /\ \A i \in 1..Len(Base) : wal[i] = Base[i]
      /\ \A j \in 1..Len(group) : wal[Len(Base) + j] = Frames(group, Len(log) + 1)[j]
    BY <1>1, BaseFacts DEF LogInv, GroupLogged
<1>4. log' = log \o group /\ sequence' = sequence + Len(group)
    BY <1>1 DEF ApplyGroup
<1>5. Len(log') = Len(log) + Len(group) /\ Len(log) \in Nat /\ Len(group) \in Nat
    <2>1. group \in Seq(Map)
        BY <1>2, BatchesAssumption, SeqMonotonic
    <2> QED BY <1>2, <1>4, <2>1, ConcatProperties
<1>6. Base # <<>> => Base[Len(Base)].seq = Len(log)
    BY <1>1, <1>2 DEF LogInv, Counted
<1>7. ASSUME NEW m \in {manifest, manifestDurable}
      PROVE  Complete(wal, log', m.seq) /\ wal[Len(wal)].seq = Len(log) + Len(group)
    <2>1. Complete(Base, log, m.seq) /\ m.seq \in Nat /\ m.seq <= Len(log)
        BY <1>2 DEF LogInv, Recoverable, TablesBehind
    <2>2. /\ Complete(wal, log \o group, m.seq)
          /\ wal[Len(wal)].seq = Len(log) + Len(group)
        <3>1. m.seq \in Nat /\ m.seq <= Len(log) /\ Complete(Base, log, m.seq)
            BY <2>1
        <3>2. /\ wal \in Seq(Frame) /\ log \in Seq(Map) /\ group \in Seq(Batches)
              /\ group # <<>> /\ Base \in Seq(Frame)
            BY <1>2, <1>3
        <3>3. Len(wal) = Len(Base) + Len(group)
            BY <1>3
        <3>4. \A i \in 1..Len(Base) : wal[i] = Base[i]
            BY <1>3
        <3>5. \A j \in 1..Len(group) : wal[Len(Base) + j] = Frames(group, Len(log) + 1)[j]
            BY <1>3
        <3>6. wal[Len(wal)].seq = Len(log) + Len(group)
            <4>1. Len(group) \in 1..Len(group) /\ Len(log) + 1 \in Nat \ {0}
                BY <1>2, <1>5
            <4>2. wal[Len(wal)] = Frames(group, Len(log) + 1)[Len(group)]
                BY <3>3, <3>5, <4>1
            <4>3. wal[Len(wal)] = [seq |-> Len(log) + 1 + Len(group) - 1,
                                   batch |-> group[Len(group)], whole |-> TRUE]
                BY <1>2, <4>1, <4>2, FramesType
            <4>4. wal[Len(wal)].seq = Len(log) + 1 + Len(group) - 1
                BY <4>3
            <4> QED BY <1>5, <4>4
        <3>7. Complete(wal, log \o group, m.seq)
            BY ONLY <3>1, <3>2, <3>3, <3>4, <3>5, <1>6, AppendComplete
        <3> QED BY <3>6, <3>7
    <2> QED BY <1>4, <2>2
<1>8. Base' = wal
    BY <1>1 DEF Base
<1>9. Recoverable'
    BY <1>1, <1>2, <1>7, <1>8 DEF Recoverable
<1>10. BaseDurable'
    BY <1>1, <1>2, <1>8 DEF BaseDurable
<1>11. TablesBehind'
    BY <1>1, <1>2, <1>5 DEF LogInv, TablesBehind
<1>12. Counted'
    BY <1>1, <1>2, <1>4, <1>5, <1>7, <1>8 DEF Counted
<1>13. GroupLogged'
    BY <1>1 DEF GroupLogged
<1>14. fpc' = "table" => job'.name[1] = sequence'
    <2>1. fpc' = "table" => job' = FlushJob("writer", pending', sequence')
        BY <1>1 DEF WriterApply, WriterSpawnFails
    <2>2. sequence' = FlushName(sequence', Len(tableFiles))[1]
        BY DEF FlushName
    <2> QED BY <2>1, FlushJobNames
<1>15. JobCovers'
    BY <1>1, <1>2, <1>4, <1>5, <1>14 DEF JobCovers, Late
<1> QED BY <1>9, <1>10, <1>11, <1>12, <1>13, <1>15 DEF LogInv

(* The group commit keeps the log complete. *)
LEMMA LogWriter ==
    ASSUME ControlInv, LogInv, SafeLog, WriterNext PROVE LogInv'
<1> USE DEF ControlInv, disk, memory, writer, past, history
<1>1. ASSUME WriterWriteFails PROVE LogInv'
    <2>1. /\ wpc = "write" /\ wpc' = "idle" /\ up = "open" /\ fpc = "idle"
          /\ UNCHANGED <<wal, walDurable, log, manifest, manifestDurable, sequence, journal,
                         recovery, up, fpc, job>>
        BY <1>1 DEF WriterWriteFails, ReleaseWriter
    <2>2. Base = wal /\ Base' = wal
        BY <2>1 DEF Base
    <2>3. Recoverable' /\ BaseDurable' /\ TablesBehind'
        BY <2>1, <2>2, LogFilesKept
    <2>4. Counted' /\ GroupLogged' /\ JobCovers'
        BY <2>1, <2>2 DEF LogInv, Counted, GroupLogged, JobCovers, Late
    <2> QED BY <2>3, <2>4 DEF LogInv
<1>2. ASSUME WriterApplyFails PROVE LogInv'
    <2>1. /\ wpc = "apply" /\ wpc' = "idle" /\ up = "open" /\ fpc = "idle" /\ recovery'
          /\ UNCHANGED <<wal, walDurable, log, manifest, manifestDurable, sequence, journal,
                         up, fpc, job>>
        BY <1>2 DEF WriterApplyFails, ReleaseWriter
    <2>2. Base' = wal /\ walDurable = wal
        BY <2>1 DEF Base, LogInv, GroupLogged
    <2>3. Recoverable' /\ BaseDurable' /\ TablesBehind'
        BY <2>1, <2>2 DEF LogInv, Recoverable, BaseDurable, TablesBehind, TypeOK
    <2>4. Counted' /\ GroupLogged' /\ JobCovers'
        BY <2>1, <2>2 DEF LogInv, Counted, GroupLogged, JobCovers, Late
    <2> QED BY <2>3, <2>4 DEF LogInv
<1>3. ~WriterWriteTorn
    BY DEF WriterWriteTorn, Fault, SafeLog
<1> QED BY <1>1, <1>2, <1>3, LogBegin, LogWrite, LogSyncs, LogApply DEF WriterNext

(* Flush and compaction keep the log complete: it is cut only behind a      *)
(* published table.                                                         *)
LEMMA LogMaintenance ==
    ASSUME ControlInv, LogInv, SafeLog, MaintenanceNext PROVE LogInv'
<1> USE DEF ControlInv, disk, memory, writer, past, history
<1>1. ASSUME NEW by \in {"persist", "worker"}, BeginFlush(by) PROVE LogInv'
    <2>1. /\ wpc = "idle" /\ up = "open" /\ fpc = "idle" /\ fpc' = "table"
          /\ job' = FlushJob(by, pending, sequence)
          /\ UNCHANGED <<wal, walDurable, log, manifest, manifestDurable, sequence, journal,
                         recovery, up, wpc, walStart, group>>
        BY <1>1 DEF BeginFlush, Exclusion
    <2>2. Base' = Base
        BY <2>1 DEF Base
    <2>3. job'.name[1] = sequence /\ sequence = Len(log)
        BY <2>1, FlushJobNames DEF LogInv, Counted
    <2>4. Recoverable' /\ BaseDurable' /\ TablesBehind'
        BY <2>1, <2>2, LogFilesKept
    <2>5. Counted' /\ GroupLogged' /\ JobCovers'
        BY <2>1, <2>2, <2>3 DEF LogInv, Counted, GroupLogged, JobCovers, Late
    <2> QED BY <2>4, <2>5 DEF LogInv
<1>2. ASSUME PersistNothing PROVE LogInv'
    <2>1. /\ wpc = "idle" /\ up = "open" /\ fpc = "idle" /\ walDurable' = wal
          /\ UNCHANGED <<wal, log, manifest, manifestDurable, sequence, journal,
                         recovery, up, wpc, walStart, group, fpc, job>>
        BY <1>2 DEF PersistNothing, Exclusion
    <2>2. Base' = Base
        BY <2>1 DEF Base
    <2>3. Recoverable' /\ BaseDurable' /\ TablesBehind'
        BY <2>1, <2>2, LogSynced
    <2>4. Counted' /\ GroupLogged' /\ JobCovers'
        BY <2>1, <2>2 DEF LogInv, Counted, GroupLogged, JobCovers, Late
    <2> QED BY <2>3, <2>4 DEF LogInv
<1>3. ASSUME BeginCompact PROVE LogInv'
    <2>1. /\ wpc = "idle" /\ up = "open" /\ fpc = "idle" /\ walDurable' = wal
          /\ fpc' = "table" /\ job' = CompactJob("compact")
          /\ UNCHANGED <<wal, log, manifest, manifestDurable, sequence, journal,
                         recovery, up, wpc, walStart, group>>
        BY <1>3 DEF BeginCompact, Exclusion
    <2>2. Base' = Base
        BY <2>1 DEF Base
    <2>3. job'.name[1] = sequence /\ sequence = Len(log)
        BY <2>1, CompactJobNames DEF LogInv, Counted
    <2>4. Recoverable' /\ BaseDurable' /\ TablesBehind'
        BY <2>1, <2>2, LogSynced
    <2>5. Counted' /\ GroupLogged' /\ JobCovers'
        BY <2>1, <2>2, <2>3 DEF LogInv, Counted, GroupLogged, JobCovers, Late
    <2> QED BY <2>4, <2>5 DEF LogInv
<1>4. ASSUME WriteTable \/ Install PROVE LogInv'
    <2>1. /\ fpc # "idle" /\ up = "open" /\ fpc' # "idle"
          /\ \/ fpc = "table" /\ fpc' = "manifest"
             \/ fpc = "install" /\ fpc' = "setlen"
          /\ UNCHANGED <<wal, walDurable, log, manifest, manifestDurable, sequence, journal,
                         recovery, up, wpc, walStart, group, job>>
        BY <1>4 DEF WriteTable, Install
    <2>2. Base' = Base
        BY <2>1 DEF Base
    <2>3. Recoverable' /\ BaseDurable' /\ TablesBehind'
        BY <2>1, <2>2, LogFilesKept
    <2>4. Counted'
        BY <2>1, <2>2 DEF LogInv, Counted
    <2>5. GroupLogged' /\ JobCovers'
        BY <2>1 DEF LogInv, GroupLogged, JobCovers, Late
    <2> QED BY <2>3, <2>4, <2>5 DEF LogInv
<1>5. ASSUME WriteManifest \/ SyncDirectory PROVE LogInv'
    <2>1. /\ fpc # "idle" /\ up = "open"
          /\ \/ fpc = "manifest" /\ fpc' = "dirsync" /\ manifest'.seq = job.name[1]
                /\ manifestDurable' = manifestDurable
             \/ fpc = "dirsync" /\ fpc' = "install" /\ manifestDurable' = manifest
                /\ manifest' = manifest
          /\ UNCHANGED <<wal, walDurable, log, sequence, journal,
                         recovery, up, wpc, walStart, group, job>>
        BY <1>5 DEF WriteManifest, SyncDirectory
    <2>2. Base' = Base
        BY <2>1 DEF Base
    <2>3. job.name[1] = Len(log) /\ log \in Seq(Map) /\ Len(log) \in Nat
        BY <2>1 DEF LogInv, JobCovers, TypeOK
    <2>4. \A w \in {walDurable, wal, Base} : Complete(w, log, Len(log))
        BY <2>3, CompleteTables DEF LogInv, Recoverable
    <2>5. Recoverable'
        BY <2>1, <2>2, <2>3, <2>4 DEF LogInv, Recoverable
    <2>6. BaseDurable' /\ TablesBehind'
        BY <2>1, <2>2, <2>3 DEF LogInv, BaseDurable, TablesBehind
    <2>7. Counted'
        BY <2>1, <2>2 DEF LogInv, Counted
    <2>8. GroupLogged' /\ JobCovers'
        BY <2>1, <2>3 DEF LogInv, GroupLogged, JobCovers, Late
    <2> QED BY <2>5, <2>6, <2>7, <2>8 DEF LogInv
<1>6. ASSUME TruncateWal PROVE LogInv'
    <2>1. /\ fpc = "setlen" /\ up = "open" /\ fpc' = "walsync" /\ wal' = <<>>
          /\ UNCHANGED <<walDurable, log, manifest, manifestDurable, sequence, journal,
                         recovery, up, wpc, walStart, group, job>>
        BY <1>6 DEF TruncateWal
    <2>2. wpc \notin {"write", "sync", "apply"} /\ log \in Seq(Map) /\ Len(log) \in Nat
        BY <2>1 DEF Exclusion, TypeOK
    <2>3. Base' = <<>>
        BY <2>1, <2>2 DEF Base
    <2>4. manifest.seq = Len(log) /\ manifestDurable.seq = Len(log)
        BY <2>1 DEF LogInv, JobCovers, Late
    <2>5. Complete(<<>>, log, Len(log))
        BY <2>2, EmptyComplete
    <2>6. Recoverable'
        BY <2>1, <2>3, <2>4, <2>5 DEF LogInv, Recoverable
    <2>7. BaseDurable' /\ TablesBehind'
        BY <2>1, <2>3 DEF LogInv, BaseDurable, TablesBehind, TypeOK
    <2>8. Counted'
        BY <2>1, <2>3 DEF LogInv, Counted
    <2>9. GroupLogged' /\ JobCovers'
        BY <2>1, <2>2 DEF LogInv, GroupLogged, JobCovers, Late
    <2> QED BY <2>6, <2>7, <2>8, <2>9 DEF LogInv
<1>7. ASSUME SyncEmptyWal PROVE LogInv'
    <2>1. /\ fpc = "walsync" /\ up = "open" /\ walDurable' = wal /\ wal = <<>> /\ journal' = 0
          /\ fpc' \in {"idle", "table"} /\ wpc' \in {"idle", "write", wpc}
          /\ wpc' = "write" => walStart' = 0
          /\ UNCHANGED <<wal, log, manifest, manifestDurable, sequence, recovery, up>>
        BY <1>7 DEF SyncEmptyWal, LogInv, JobCovers, ReleaseWriter, Exclusion
    <2>2. wpc \notin {"write", "sync", "apply"}
        BY <2>1 DEF Exclusion
    <2>3. Base = <<>> /\ Base' = <<>> /\ Len(wal) = 0
        BY <2>1, <2>2 DEF Base
    <2>4. fpc' = "table" => job'.name[1] = Len(log)
        <3>1. fpc' = "table" => \E by : job' = CompactJob(by)
            BY <1>7 DEF SyncEmptyWal
        <3>2. sequence = Len(log)
            BY <2>1 DEF LogInv, Counted
        <3> QED BY <3>1, <3>2, CompactJobNames
    <2>5. Recoverable' /\ BaseDurable' /\ TablesBehind'
        BY <2>1, <2>3, LogSynced
    <2>6. Counted'
        BY <2>1, <2>2, <2>3 DEF LogInv, Counted
    <2>7. GroupLogged' /\ JobCovers'
        BY <2>1, <2>2, <2>3, <2>4 DEF LogInv, GroupLogged, JobCovers, Late
    <2> QED BY <2>5, <2>6, <2>7 DEF LogInv
<1>8. ASSUME JobFails PROVE LogInv'
    <2>1. /\ fpc # "idle" /\ fpc # "walsync" /\ up = "open" /\ fpc' = "idle"
          /\ wpc' \in {"idle", wpc}
          /\ UNCHANGED <<wal, walDurable, log, manifest, manifestDurable, sequence, journal, up>>
        BY <1>8 DEF JobFails, Fault, SafeLog, ReleaseWriter
    <2>0. ~recovery' => ~recovery
        BY <1>8 DEF JobFails
    <2>2. wpc \notin {"write", "sync", "apply"}
        BY <2>1 DEF Exclusion
    <2>3. Base = wal /\ Base' = wal
        BY <2>1, <2>2 DEF Base
    <2>4. Recoverable' /\ BaseDurable' /\ TablesBehind'
        BY <2>1, <2>3, LogFilesKept
    <2>5. Counted'
        <3>1. sequence' = Len(log') /\ journal' = Len(wal')
            BY <2>1, <2>2 DEF LogInv, Counted
        <3>2. ~recovery' /\ Base' # <<>> => Base'[Len(Base')].seq = sequence'
            BY <2>0, <2>1, <2>3 DEF LogInv, Counted
        <3> QED BY <2>1, <2>2, <3>1, <3>2 DEF Counted
    <2>6. GroupLogged' /\ JobCovers'
        BY <2>1, <2>2 DEF LogInv, GroupLogged, JobCovers, Late
    <2> QED BY <2>4, <2>5, <2>6 DEF LogInv
<1> QED BY <1>1, <1>2, <1>3, <1>4, <1>5, <1>6, <1>7, <1>8 DEF MaintenanceNext

(* An interval that starts at 1 determines its end. *)
LEMMA SameInterval ==
    ASSUME NEW a \in Nat, NEW b \in Nat, 1..a = 1..b PROVE a = b
<1>1. ~(a > b)
    <2> SUFFICES ASSUME a > b PROVE FALSE
        OBVIOUS
    <2>1. a \in 1..a /\ a \notin 1..b
        OBVIOUS
    <2> QED BY <2>1
<1>2. ~(b > a)
    <2> SUFFICES ASSUME b > a PROVE FALSE
        OBVIOUS
    <2>1. b \in 1..b /\ b \notin 1..a
        OBVIOUS
    <2> QED BY <2>1
<1> QED BY <1>1, <1>2

(* What open() finds in a complete WAL: the sequence goes on with the last  *)
(* commit, and every frame above the table sequence is one of the commits.  *)
LEMMA OpenReplays ==
    ASSUME ControlInv, LogInv, Open
    PROVE  /\ wal' = wal /\ walDurable' = wal /\ journal' = Len(wal)
           /\ log' \in Seq(Map) /\ Len(log') >= Len(log) /\ sequence' = Len(log')
           /\ \A s \in 1..Len(log) : log'[s] = log[s]
           /\ \A i \in Accepted(wal, manifest.seq) :
                  wal[i].seq \in 1..Len(log') /\ log'[wal[i].seq] = wal[i].batch
           /\ \A s \in 1..Len(log') :
                  s > manifest.seq => \E i \in Accepted(wal, manifest.seq) : wal[i].seq = s
           /\ wal # <<>> => wal[Len(wal)].seq = Len(log')
           /\ wal = <<>> => Len(log') = Len(log)
<1> DEFINE A == Accepted(wal, manifest.seq)
           t == manifest.seq
           last == LastReplayed(wal, manifest.seq)
           n == Len(wal)
           c == Len(log)
           f == wal[1].seq
<1>1. /\ wal \in Seq(Frame) /\ n \in Nat /\ DOMAIN wal = 1..n
      /\ log \in Seq(Map) /\ c \in Nat /\ t \in Nat
    BY DEF ControlInv, TypeOK, Manifest
<1>2. Complete(wal, log, t) /\ t <= c
    BY DEF LogInv, Recoverable, TablesBehind
<1>3. Readable(wal) = 1..n /\ A = {i \in 1..n : wal[i].seq > t}
    BY <1>1, <1>2, AcceptedFrames DEF Complete
<1>4. wal' = wal /\ walDurable' = wal /\ journal' = n
    <2>1. n # 0 => Max(1..n) = n
        <3>0. n # 0 => n \in 1..n
            BY <1>1
        <3>1. n # 0 => 1..n # {} /\ n \in 1..n
            BY <3>0
        <3>2. n # 0 => Max(1..n) \in 1..n /\ \A x \in 1..n : Max(1..n) >= x
            BY <1>1, <3>1, MaxOfPositions
        <3> QED BY <1>1, <3>1, <3>2
    <2>2. n = 0 => 1..n = {}
        BY <1>1
    <2>3. n # 0 => 1..n # {}
        <3>1. n # 0 => n \in 1..n
            BY <1>1
        <3> QED BY <3>1
    <2>4. (IF Readable(wal) = {} THEN 0 ELSE Max(Readable(wal))) = n
        BY <1>3, <2>1, <2>2, <2>3
    <2>5. wal' = SubSeq(wal, 1, n) /\ walDurable' = wal' /\ journal' = Len(wal')
        BY <2>4 DEF Open
    <2>6. SubSeq(wal, 1, n) = wal
        BY <1>1, SubSeqFull
    <2> QED BY <2>5, <2>6
<1>5. ASSUME n # 0
      PROVE  /\ f \in Nat /\ f >= 1 /\ wal[n].seq = f + n - 1 /\ f <= c + 1
             /\ wal[n].seq >= c
             /\ \A i \in 1..n : wal[i].seq = f + i - 1
    <2>1. wal # <<>> /\ 1 \in 1..n /\ n \in 1..n
        BY <1>1, <1>5
    <2>2. f \in Nat
        BY <1>1, <2>1, FrameFields
    <2>3. f >= 1 /\ \A i \in 1..n : wal[i].seq = f + i - 1
        BY <1>1, <1>2, <2>1 DEF Complete, Chained
    <2>4. f <= c + 1 /\ wal[n].seq >= c
        BY <1>2, <2>1 DEF Complete, Reaches
    <2> QED BY <2>1, <2>2, <2>3, <2>4
<1>6. /\ n # 0 => last = wal[n].seq
      /\ n = 0 => last = c
      /\ last >= c /\ last \in Nat
    <2>1. CASE n # 0
        <3> HIDE DEF f
        <3>1. CASE A = {}
            <4>1. last = t
                BY <3>1 DEF LastReplayed
            <4>2. n \in 1..n
                BY <1>1, <2>1
            <4>3. ~(wal[n].seq > t)
                BY <1>3, <3>1, <4>2
            <4>4. wal[n].seq \in Nat
                BY <1>1, <4>2, FrameFields
            <4>5. wal[n].seq = c /\ t = c
                <5> DEFINE e == wal[n].seq
                <5>1. e \in Nat /\ e >= c /\ ~(e > t) /\ t <= c
                    BY <1>2, <1>5, <2>1, <4>3, <4>4
                <5> HIDE DEF e, c, t
                <5>2. e = c /\ t = c
                    BY <5>1, <1>1
                <5> QED BY <5>2 DEF e
            <4> QED BY <1>1, <2>1, <4>1, <4>5
        <3>2. CASE A # {}
            <4>1. A \subseteq 1..n
                BY <1>3
            <4>2. Max(A) \in A /\ \A i \in A : Max(A) >= i
                BY <1>1, <3>2, <4>1, MaxOfPositions
            <4>3. PICK a \in A : TRUE
                BY <3>2
            <4>4. a \in 1..n /\ n \in 1..n /\ wal[a].seq > t
                BY <1>1, <1>3, <2>1, <4>3
            <4>5. wal[n].seq > t
                <5> DEFINE e == wal[n].seq
                           d == wal[a].seq
                <5>1. e = f + n - 1 /\ d = f + a - 1 /\ d > t /\ f \in Nat
                    BY <1>5, <2>1, <4>4
                <5>2. n \in Nat /\ a \in 1..n /\ t \in Nat
                    BY <1>1, <4>4
                <5> HIDE DEF e, d, n, t
                <5>3. e > t
                    BY <5>1, <5>2
                <5> QED BY <5>3 DEF e
            <4>6. n \in A
                BY <1>3, <4>4, <4>5
            <4>7. Max(A) = n
                BY <1>1, <4>1, <4>2, <4>6
            <4>8. last = wal[n].seq
                BY <3>2, <4>7 DEF LastReplayed
            <4>9. wal[n].seq \in Nat
                BY <1>1, <4>4, FrameFields
            <4> QED BY <1>5, <2>1, <4>8, <4>9
        <3> QED BY <3>1, <3>2
    <2>2. CASE n = 0
        <3>1. A = {}
            BY <1>3, <2>2
        <3>2. last = t
            BY <3>1 DEF LastReplayed
        <3>3. c <= t
            BY <1>1, <1>2, <2>2 DEF Complete, Covers
        <3>4. t = c
            <4> HIDE DEF t, c
            <4> QED BY <3>3, <1>1, <1>2
        <3> QED BY <1>1, <2>2, <3>2, <3>4
    <2> QED BY <2>1, <2>2
<1>7. /\ sequence' = last
      /\ log' = [s \in 1..(IF last > c THEN last ELSE c) |->
                   IF s <= c THEN log[s] ELSE ReplayedBatch(wal, t, s)]
    BY DEF Open
<1>8. (IF last > c THEN last ELSE c) = last
    <2> HIDE DEF last, c
    <2> QED BY <1>1, <1>6
<1>9. log' \in Seq(Map)
    <2>1. ControlInv'
        BY ControlLifecycle DEF LifecycleNext
    <2> QED BY <2>1 DEF ControlInv, TypeOK
<1>10. log' = [s \in 1..last |-> IF s <= c THEN log[s] ELSE ReplayedBatch(wal, t, s)]
    BY <1>7, <1>8
<1>11. Len(log') = last
    <2>1. DOMAIN log' = 1..Len(log') /\ Len(log') \in Nat
        BY <1>9
    <2> HIDE DEF last, c, t
    <2>2. DOMAIN log' = 1..last
        BY <1>10
    <2>3. 1..last = 1..Len(log')
        BY <2>1, <2>2
    <2>4. last \in Nat
        BY <1>6
    <2> QED BY <2>1, <2>3, <2>4, SameInterval
<1>12. \A s \in 1..c : s \in 1..last /\ log'[s] = log[s]
    <2>1. \A s \in 1..c : s \in 1..last /\ s <= c
        <3> HIDE DEF last, c
        <3> QED BY <1>1, <1>6
    <2> QED BY <1>10, <2>1
<1>13. \A i \in A : wal[i].seq \in 1..last /\ log'[wal[i].seq] = wal[i].batch
    <2> SUFFICES ASSUME NEW i \in A
                 PROVE  wal[i].seq \in 1..last /\ log'[wal[i].seq] = wal[i].batch
        OBVIOUS
    <2> DEFINE s == wal[i].seq
    <2>1. i \in 1..n /\ s > t /\ n # 0
        BY <1>1, <1>3
    <2>2. s \in Nat /\ s = f + i - 1 /\ last = f + n - 1 /\ f \in Nat
        BY <1>1, <1>5, <1>6, <2>1, FrameFields
    <2>3. s \in 1..last
        <3> HIDE DEF s, last, f, n, t
        <3> QED BY <1>1, <2>1, <2>2
    <2>4. CASE s <= c
        <3>1. s \in 1..c
            BY <1>1, <2>3, <2>4
        <3>2. wal[i].batch = log[s]
            BY <1>1, <1>2, <2>1, <2>4 DEF Complete, Faithful
        <3> QED BY <1>12, <2>3, <3>1, <3>2
    <2>5. CASE ~(s <= c)
        <3> DEFINE I == {x \in A : wal[x].seq = s}
        <3>1. i \in I
            OBVIOUS
        <3>2. \A x \in I : x = i
            <4> SUFFICES ASSUME NEW x \in I PROVE x = i
                OBVIOUS
            <4>1. x \in 1..n /\ wal[x].seq = s
                BY <1>3
            <4>2. s = f + x - 1
                BY <1>5, <2>1, <4>1
            <4> HIDE DEF s, f, n
            <4> QED BY <1>1, <2>1, <2>2, <4>1, <4>2
        <3>3. (CHOOSE x \in I : TRUE) = i
            BY <3>1, <3>2
        <3>4. ReplayedBatch(wal, t, s) = wal[i].batch
            BY <3>1, <3>3 DEF ReplayedBatch
        <3>5. log'[s] = ReplayedBatch(wal, t, s)
            BY <1>10, <2>3, <2>5
        <3> QED BY <2>3, <3>4, <3>5
    <2> QED BY <2>4, <2>5
<1>14. ASSUME NEW s \in 1..last, s > t PROVE \E i \in A : wal[i].seq = s
    <2>1. n # 0
        <3> SUFFICES ASSUME n = 0 PROVE FALSE
            OBVIOUS
        <3>1. last = c
            BY <1>6
        <3>2. c <= t
            BY <1>1, <1>2 DEF Complete, Covers
        <3> HIDE DEF last, c, t
        <3> QED BY <1>1, <1>14, <3>1, <3>2
    <2>2. f <= t + 1
        <3>1. f <= c + 1 /\ (c <= t \/ f <= t + 1) /\ f \in Nat
            <4>1. wal # <<>>
                BY <1>1, <2>1
            <4> QED BY <1>2, <1>5, <2>1, <4>1 DEF Complete, Covers
        <3> HIDE DEF f, c, t
        <3> QED BY <1>1, <3>1
    <2> DEFINE i == s - f + 1
    <2>3. i \in 1..n /\ f + i - 1 = s
        <3>1. last = f + n - 1 /\ f \in Nat
            BY <1>5, <1>6, <2>1
        <3> HIDE DEF last, f, n, t
        <3> QED BY <1>1, <1>14, <2>2, <3>1
    <2>4. wal[i].seq = s
        BY <1>5, <2>1, <2>3
    <2>5. i \in A
        BY <1>3, <1>14, <2>3, <2>4
    <2> QED BY <2>4, <2>5
<1>15. /\ wal # <<>> => wal[n].seq = last
       /\ wal = <<>> => last = c
    <2>1. wal # <<>> <=> n # 0
        BY <1>1
    <2> QED BY <1>6, <2>1
<1> QED BY <1>4, <1>6, <1>7, <1>9, <1>11, <1>12, <1>13, <1>14, <1>15

(* Close, crash and open keep the log complete. *)
LEMMA LogLifecycle ==
    ASSUME ControlInv, LogInv, LifecycleNext PROVE LogInv'
<1> USE DEF ControlInv, disk, memory, writer, past, history
<1>1. ASSUME Crash PROVE LogInv'
    <2>1. /\ up' = "locked" /\ wpc' = "idle" /\ fpc' = "idle"
          /\ wal' \in SurvivingWals /\ walDurable' = wal'
          /\ manifest' \in {manifest, manifestDurable} /\ manifestDurable' = manifest'
          /\ log' = log
        BY <1>1 DEF Crash, Forget
    <2>2. Base' = wal'
        BY <2>1 DEF Base
    <2>3. wal' \in Seq(Frame) /\ Complete(wal', log, manifest.seq)
          /\ Complete(wal', log, manifestDurable.seq)
        BY <2>1, SurvivingComplete
    <2>4. Recoverable'
        BY <2>1, <2>2, <2>3 DEF Recoverable
    <2>5. BaseDurable'
        BY <2>1, <2>2, <2>3 DEF BaseDurable
    <2>6. TablesBehind'
        BY <2>1 DEF LogInv, TablesBehind
    <2>7. Counted' /\ GroupLogged' /\ JobCovers'
        BY <2>1 DEF Counted, GroupLogged, JobCovers, Late
    <2> QED BY <2>4, <2>5, <2>6, <2>7 DEF LogInv
<1>2. ASSUME Close \/ RemoveLock PROVE LogInv'
    <2>1. /\ up' = "closed" /\ wpc = "idle" /\ wpc' = "idle" /\ fpc' = "idle"
          /\ UNCHANGED <<wal, walDurable, manifest, manifestDurable, log>>
        BY <1>2 DEF Close, RemoveLock, Forget, Exclusion
    <2>2. Base' = Base
        BY <2>1 DEF Base
    <2>3. Recoverable' /\ BaseDurable' /\ TablesBehind'
        BY <2>1, <2>2, LogFilesKept
    <2>4. Counted' /\ GroupLogged' /\ JobCovers'
        BY <2>1 DEF Counted, GroupLogged, JobCovers, Late
    <2> QED BY <2>3, <2>4 DEF LogInv
<1>3. ASSUME Open PROVE LogInv'
    <2>1. wpc = "idle" /\ fpc = "idle" /\ UNCHANGED <<wpc, fpc, manifest, manifestDurable>>
        BY <1>3 DEF Open, Exclusion
    <2>2. /\ wal' = wal /\ walDurable' = wal /\ journal' = Len(wal)
          /\ log' \in Seq(Map) /\ Len(log') >= Len(log) /\ sequence' = Len(log')
          /\ wal # <<>> => wal[Len(wal)].seq = Len(log')
          /\ wal = <<>> => Len(log') = Len(log)
        BY <1>3, OpenReplays
    <2>3. Base' = wal
        BY <2>1, <2>2 DEF Base
    <2>4. /\ wal \in Seq(Frame) /\ log \in Seq(Map) /\ Len(log) \in Nat /\ Len(wal) \in Nat
          /\ Len(log') \in Nat /\ manifest.seq \in Nat /\ manifestDurable.seq \in Nat
        BY <2>2 DEF TypeOK, Manifest
    <2>5. Chained(wal) /\ Complete(wal, log, manifest.seq)
          /\ Complete(wal, log, manifestDurable.seq)
        BY DEF LogInv, Recoverable, Complete
    <2>6. Faithful(wal, log')
        <3> SUFFICES ASSUME NEW i \in 1..Len(wal), wal[i].seq <= Len(log')
                     PROVE  wal[i].batch = log'[wal[i].seq]
            BY <2>4 DEF Faithful
        <3>1. wal[i].seq \in Nat /\ wal[i].seq >= 1
            BY <2>4, <2>5, FrameFields DEF Chained
        <3>2. CASE wal[i].seq > manifest.seq
            <4>1. i \in Accepted(wal, manifest.seq)
                BY <2>4, <2>5, <3>2, AcceptedFrames
            <4> QED BY <1>3, <4>1, OpenReplays
        <3>3. CASE ~(wal[i].seq > manifest.seq)
            <4>1. wal[i].seq \in 1..Len(log)
                <5>1. manifest.seq <= Len(log)
                    BY DEF LogInv, TablesBehind
                <5> QED BY <2>4, <3>1, <3>3, <5>1
            <4>2. wal[i].batch = log[wal[i].seq]
                BY <2>4, <2>5, <4>1 DEF Complete, Faithful
            <4> QED BY <1>3, <4>1, <4>2, OpenReplays
        <3> QED BY <3>2, <3>3
    <2>7. wal # <<>> => wal[1].seq <= Len(log) + 1 /\ wal[1].seq \in Nat
        <3>1. wal # <<>> => 1 \in 1..Len(wal)
            BY <2>4
        <3> QED BY <2>4, <2>5, <3>1, FrameFields DEF Complete, Reaches
    <2>8. Reaches(wal, log')
        BY <2>2, <2>4, <2>7 DEF Reaches
    <2>9. \A m \in {manifest, manifestDurable} : Covers(wal, log', m.seq)
        <3> SUFFICES ASSUME NEW m \in {manifest, manifestDurable}
                     PROVE  Covers(wal, log', m.seq)
            OBVIOUS
        <3>1. m.seq \in Nat /\ m.seq <= Len(log) /\ Covers(wal, log, m.seq)
            BY <2>4, <2>5 DEF LogInv, TablesBehind, Complete
        <3>2. CASE wal = <<>>
            BY <2>2, <3>1, <3>2 DEF Covers
        <3>3. CASE wal # <<>>
            <4>1. wal[1].seq <= m.seq + 1
                BY <2>4, <2>7, <3>1, <3>3 DEF Covers
            <4> QED BY <3>3, <4>1 DEF Covers
        <3> QED BY <3>2, <3>3
    <2>10. Recoverable'
        BY <2>1, <2>2, <2>3, <2>5, <2>6, <2>8, <2>9 DEF Recoverable, Complete
    <2>11. BaseDurable'
        BY <2>2, <2>3, <2>4 DEF BaseDurable
    <2>12. TablesBehind'
        BY <2>1, <2>2, <2>4 DEF LogInv, TablesBehind
    <2>13. Counted'
        BY <2>1, <2>2, <2>3 DEF Counted
    <2>14. GroupLogged' /\ JobCovers'
        BY <2>1 DEF GroupLogged, JobCovers, Late
    <2> QED BY <2>10, <2>11, <2>12, <2>13, <2>14 DEF LogInv
<1> QED BY <1>1, <1>2, <1>3 DEF LifecycleNext

(* The state of the log is inductive under the errors the engine handles. *)
LEMMA LogNext ==
    ASSUME ControlInv, LogInv, SafeLog, [Next]_vars PROVE LogInv'
<1>1. CASE UNCHANGED vars
    <2>1. /\ UNCHANGED <<wal, walDurable, manifest, manifestDurable, log, sequence, journal,
                         recovery, up, wpc, walStart, group, fpc, job>>
        BY <1>1 DEF vars, disk, memory, writer, past, history
    <2>2. Base' = Base
        BY <2>1 DEF Base
    <2>3. Recoverable' /\ BaseDurable' /\ TablesBehind'
        BY <2>1, <2>2, LogFilesKept
    <2>4. Counted' /\ GroupLogged' /\ JobCovers'
        BY <2>1, <2>2 DEF LogInv, Counted, GroupLogged, JobCovers
    <2> QED BY <2>3, <2>4 DEF LogInv
<1> QED BY <1>1, LogWriter, LogMaintenance, LogLifecycle DEF Next

(* Every commit survives a crash at any moment, over any number of crashes  *)
(* and reopens and any I/O errors but three: a WAL write that stops half    *)
(* way, a failing truncation of refused frames, and a failing sync of the   *)
(* emptied WAL.                                                             *)
THEOREM CommitsSurvive == SafeLog => (Spec => []AckedDurable)
<1> SUFFICES ASSUME SafeLog PROVE Spec => []AckedDurable
    OBVIOUS
<1>1. ASSUME ControlInv, LogInv PROVE AckedDurable
    <2> SUFFICES ASSUME NEW w \in SurvivingWals, NEW m \in {manifest, manifestDurable},
                        NEW s \in 1..Len(log), ~(s <= m.seq)
                 PROVE  \E i \in Accepted(w, m.seq) : w[i].seq = s /\ w[i].batch = log[s]
        BY DEF AckedDurable
    <2>1. w \in Seq(Frame) /\ Complete(w, log, m.seq)
        BY <1>1, SurvivingComplete
    <2>2. log \in Seq(Map) /\ m.seq \in Nat
        BY <1>1 DEF ControlInv, TypeOK, Manifest
    <2> QED BY <2>1, <2>2, CompleteReplays
<1> QED BY <1>1, LogInit, LogNext, ControlCorrect, PTL DEF Spec

-----------------------------------------------------------------------------
(* The newest entry for a key *)

(* A set of positions in some sequence. *)
Positions(I) == \E n \in Nat : I \subseteq 1..n

(* The positions of a sequence, and any of them, are positions. *)
LEMMA ArePositions ==
    ASSUME NEW n \in Nat, NEW I, I \subseteq 1..n
    PROVE  Positions(I)
BY DEF Positions

(* Newest is Absent, or the entry of the last map that has one. *)
LEMMA NewestWhich ==
    ASSUME NEW I, Positions(I), NEW f, NEW k
    PROVE  \/ Newest(I, f, k) = Absent /\ \A i \in I : f[i][k] = Absent
           \/ \E i \in I : /\ f[i][k] # Absent /\ Newest(I, f, k) = f[i][k]
                           /\ \A j \in I : j > i => f[j][k] = Absent
<1>0. PICK n \in Nat : I \subseteq 1..n
    BY DEF Positions
<1> DEFINE T == {i \in I : f[i][k] # Absent}
<1>1. CASE T = {}
    BY <1>1 DEF Newest
<1>2. CASE T # {}
    <2>1. T \subseteq 1..n
        BY <1>0
    <2>2. Newest(I, f, k) = f[Max(T)][k]
        BY <1>2 DEF Newest
    <2> HIDE DEF T
    <2>3. Max(T) \in T /\ \A t \in T : Max(T) >= t
        BY <1>2, <2>1, MaxOfPositions
    <2> DEFINE m == Max(T)
    <2>4. m \in T /\ m \in 1..n /\ \A t \in T : m >= t
        BY <2>1, <2>3
    <2>5. m \in I /\ f[m][k] # Absent
        BY <2>4 DEF T
    <2>6. \A j \in I : j > m => f[j][k] = Absent
        <3> SUFFICES ASSUME NEW j \in I, j > m, f[j][k] # Absent PROVE FALSE
            OBVIOUS
        <3>1. j \in T
            BY DEF T
        <3>2. m >= j /\ j \in 1..n /\ m \in 1..n
            BY <2>1, <2>4, <3>1
        <3> HIDE DEF m
        <3> QED BY <3>2
    <2> QED BY <2>2, <2>5, <2>6
<1> QED BY <1>1, <1>2

(* Conversely: a map with an entry and none after it is the newest. *)
LEMMA NewestIs ==
    ASSUME NEW I, Positions(I), NEW f, NEW k,
           NEW i \in I, f[i][k] # Absent, \A j \in I : j > i => f[j][k] = Absent
    PROVE  Newest(I, f, k) = f[i][k]
<1>0. PICK n \in Nat : I \subseteq 1..n
    BY DEF Positions
<1>1. \E h \in I : /\ f[h][k] # Absent /\ Newest(I, f, k) = f[h][k]
                   /\ \A j \in I : j > h => f[j][k] = Absent
    BY NewestWhich
<1>2. PICK h \in I : /\ f[h][k] # Absent /\ Newest(I, f, k) = f[h][k]
                     /\ \A j \in I : j > h => f[j][k] = Absent
    BY <1>1
<1>3. ~(h > i) /\ ~(i > h) /\ h \in 1..n /\ i \in 1..n
    BY <1>0, <1>2
<1>4. h = i
    BY <1>3
<1> QED BY <1>2, <1>4

(* No map with an entry: no entry. *)
LEMMA NewestNone ==
    ASSUME NEW I, Positions(I), NEW f, NEW k,
           \A i \in I : f[i][k] = Absent
    PROVE  Newest(I, f, k) = Absent
BY NewestWhich

(* Only the entries for the key matter. *)
LEMMA NewestSame ==
    ASSUME NEW I, Positions(I), NEW f, NEW g, NEW k,
           \A i \in I : f[i][k] = g[i][k]
    PROVE  Newest(I, f, k) = Newest(I, g, k)
<1>1. CASE \A i \in I : f[i][k] = Absent
    <2>1. \A i \in I : g[i][k] = Absent
        BY <1>1
    <2> QED BY <1>1, <2>1, NewestNone
<1>2. CASE ~ \A i \in I : f[i][k] = Absent
    <2>1. PICK h \in I : /\ f[h][k] # Absent /\ Newest(I, f, k) = f[h][k]
                         /\ \A j \in I : j > h => f[j][k] = Absent
        BY <1>2, NewestWhich
    <2>2. g[h][k] # Absent /\ \A j \in I : j > h => g[j][k] = Absent
        BY <2>1
    <2>3. Newest(I, g, k) = g[h][k]
        BY <2>2, NewestIs
    <2> QED BY <2>1, <2>3
<1> QED BY <1>1, <1>2

(* For the key k, f is the n maps of a with the p maps of b on top. *)
OnTop(f, n, a, p, b, k) ==
    /\ \A i \in 1..n : f[i][k] = a[i][k]
    /\ \A j \in 1..p : f[n + j][k] = b[j][k]

(* Maps put on top of others hide them where they have an entry. *)
LEMMA NewestOnTop ==
    ASSUME NEW n \in Nat, NEW p \in Nat, NEW f, NEW a, NEW b, NEW k,
           OnTop(f, n, a, p, b, k)
    PROVE  Newest(1..(n + p), f, k)
               = IF Newest(1..p, b, k) # Absent THEN Newest(1..p, b, k)
                 ELSE Newest(1..n, a, k)
<1>0. n + p \in Nat /\ 1..n \subseteq 1..(n + p)
    OBVIOUS
<1>b. \A i \in 1..n : f[i][k] = a[i][k]
    BY DEF OnTop
<1>c. \A j \in 1..p : f[n + j][k] = b[j][k]
    BY DEF OnTop
<1>a. Positions(1..n) /\ Positions(1..p) /\ Positions(1..(n + p))
    BY <1>0, ArePositions
<1>1. CASE \E j \in 1..p : b[j][k] # Absent
    <2>1. PICK h \in 1..p : /\ b[h][k] # Absent /\ Newest(1..p, b, k) = b[h][k]
                            /\ \A j \in 1..p : j > h => b[j][k] = Absent
        <3> DEFINE P == 1..p
        <3>1. Positions(P) /\ \E j \in P : b[j][k] # Absent
            BY <1>a, <1>1
        <3> HIDE DEF P
        <3>2. \E h \in P : /\ b[h][k] # Absent /\ Newest(P, b, k) = b[h][k]
                           /\ \A j \in P : j > h => b[j][k] = Absent
            BY <3>1, NewestWhich
        <3> QED BY <3>2 DEF P
    <2>2. n + h \in 1..(n + p) /\ f[n + h][k] = b[h][k]
        BY <1>c
    <2>3. ASSUME NEW j \in 1..(n + p), j > n + h PROVE f[j][k] = Absent
        <3>1. j - n \in 1..p /\ j - n > h /\ n + (j - n) = j
            BY <2>3
        <3>2. b[j - n][k] = Absent
            BY <2>1, <3>1
        <3>3. f[n + (j - n)][k] = b[j - n][k]
            BY <1>c, <3>1
        <3> QED BY <3>1, <3>2, <3>3
    <2>4. Newest(1..(n + p), f, k) = f[n + h][k]
        <3> DEFINE i == n + h
                   M == 1..(n + p)
        <3>1. i \in M /\ f[i][k] # Absent /\ Positions(M)
            BY <1>a, <2>1, <2>2
        <3>2. \A j \in M : j > i => f[j][k] = Absent
            BY <2>3
        <3> HIDE DEF i, M
        <3>3. Newest(M, f, k) = f[i][k]
            BY <3>1, <3>2, NewestIs
        <3> QED BY <3>3 DEF i, M
    <2> QED BY <2>1, <2>2, <2>4
<1>2. CASE ~ \E j \in 1..p : b[j][k] # Absent
    <2>1. Newest(1..p, b, k) = Absent
        BY <1>a, <1>2, NewestNone
    <2>2. ASSUME NEW j \in 1..(n + p), j \notin 1..n PROVE f[j][k] = Absent
        <3>1. j - n \in 1..p /\ n + (j - n) = j
            BY <2>2
        <3>2. f[n + (j - n)][k] = b[j - n][k] /\ b[j - n][k] = Absent
            BY <1>2, <1>c, <3>1
        <3> QED BY <3>1, <3>2
    <2>3. CASE \A i \in 1..n : a[i][k] = Absent
        <3>1. Newest(1..n, a, k) = Absent
            BY <1>a, <2>3, NewestNone
        <3>2. \A j \in 1..(n + p) : f[j][k] = Absent
            BY <1>b, <2>2, <2>3
        <3>3. Newest(1..(n + p), f, k) = Absent
            BY <1>a, <3>2, NewestNone
        <3> QED BY <2>1, <3>1, <3>3
    <2>4. CASE ~ \A i \in 1..n : a[i][k] = Absent
        <3>1. PICK h \in 1..n : /\ a[h][k] # Absent /\ Newest(1..n, a, k) = a[h][k]
                                /\ \A j \in 1..n : j > h => a[j][k] = Absent
            BY <1>a, <2>4, NewestWhich
        <3>2. h \in 1..(n + p) /\ f[h][k] # Absent
            BY <1>0, <1>b, <3>1
        <3>3. \A j \in 1..(n + p) : j > h => f[j][k] = Absent
            BY <1>b, <2>2, <3>1
        <3>4. Newest(1..(n + p), f, k) = f[h][k]
            BY <1>a, <3>2, <3>3, NewestIs
        <3> QED BY <1>b, <2>1, <3>1, <3>4
    <2> QED BY <2>3, <2>4
<1> QED BY <1>1, <1>2

(* The history after a group of commits. *)
LEMMA NewestConcat ==
    ASSUME NEW l \in Seq(Map), NEW g \in Seq(Map), NEW k \in Keys
    PROVE  Newest(DOMAIN (l \o g), l \o g, k)
               = IF Newest(DOMAIN g, g, k) # Absent THEN Newest(DOMAIN g, g, k)
                 ELSE Newest(DOMAIN l, l, k)
<1> DEFINE f == l \o g
           n == Len(l)
           p == Len(g)
<1>1. /\ n \in Nat /\ p \in Nat /\ DOMAIN l = 1..n /\ DOMAIN g = 1..p
      /\ f \in Seq(Map) /\ Len(f) = n + p
      /\ \A i \in 1..n : f[i] = l[i]
      /\ \A j \in 1..p : f[n + j] = g[j]
    BY ConcatProperties
<1>2. DOMAIN f = 1..(n + p)
    BY <1>1
<1> HIDE DEF f, n, p
<1>a. \A i \in 1..n : f[i][k] = l[i][k]
    BY <1>1
<1>b. \A j \in 1..p : f[n + j][k] = g[j][k]
    BY <1>1
<1>3. Newest(1..(n + p), f, k) = IF Newest(1..p, g, k) # Absent THEN Newest(1..p, g, k)
                                 ELSE Newest(1..n, l, k)
    <2>1. n \in Nat /\ p \in Nat
        BY <1>1
    <2>2. OnTop(f, n, l, p, g, k)
        BY <1>a, <1>b DEF OnTop
    <2> QED BY <2>1, <2>2, NewestOnTop
<1> QED BY <1>1, <1>2, <1>3 DEF f

(* The layers after a flush. *)
LEMMA NewestAppend ==
    ASSUME NEW l \in Seq(Map), NEW x \in Map, NEW k \in Keys
    PROVE  Newest(1..(Len(l) + 1), Append(l, x), k)
               = IF x[k] # Absent THEN x[k] ELSE Newest(1..Len(l), l, k)
<1> DEFINE f == Append(l, x)
           n == Len(l)
           b == <<x>>
<1>1. /\ n \in Nat /\ \A i \in 1..n : f[i] = l[i]
      /\ f[n + 1] = x
    OBVIOUS
<1>2. \A j \in 1..1 : f[n + j] = b[j]
    <2>1. \A j \in 1..1 : j = 1
        OBVIOUS
    <2> QED BY <1>1, <2>1
<1>a. Positions(1..1)
    BY ArePositions
<1>3. Newest(1..1, b, k) = x[k]
    <2>1. CASE x[k] = Absent
        <3>1. \A i \in 1..1 : b[i][k] = Absent
            BY <2>1
        <3> QED BY <1>a, <2>1, <3>1, NewestNone
    <2>2. CASE x[k] # Absent
        <3>1. 1 \in 1..1 /\ b[1] = x /\ \A j \in 1..1 : j > 1 => b[j][k] = Absent
            OBVIOUS
        <3> HIDE DEF b
        <3> QED BY <1>a, <2>2, <3>1, NewestIs
    <2> QED BY <2>1, <2>2
<1> HIDE DEF f, n, b
<1>c. \A i \in 1..n : f[i][k] = l[i][k]
    BY <1>1
<1>d. \A j \in 1..1 : f[n + j][k] = b[j][k]
    BY <1>2
<1>4. Newest(1..(n + 1), f, k) = IF Newest(1..1, b, k) # Absent THEN Newest(1..1, b, k)
                                 ELSE Newest(1..n, l, k)
    <2>1. n \in Nat /\ 1 \in Nat
        BY <1>1
    <2>2. OnTop(f, n, l, 1, b, k)
        BY <1>c, <1>d DEF OnTop
    <2> DEFINE p == 1
    <2>3. p \in Nat /\ OnTop(f, n, l, p, b, k)
        BY <2>1, <2>2
    <2> HIDE DEF p
    <2>4. Newest(1..(n + p), f, k) = IF Newest(1..p, b, k) # Absent THEN Newest(1..p, b, k)
                                     ELSE Newest(1..n, l, k)
        BY <2>1, <2>3, NewestOnTop
    <2> QED BY <2>4 DEF p
<1> QED BY <1>3, <1>4 DEF f, n

-----------------------------------------------------------------------------
(* What is in memory *)

(* apply_operation leaves no tombstone in state. *)
StateClean == \A k \in Keys : state[k] # Tombstone

(* What state holds without pending_table came back by replay. *)
NothingUnflushed == \A k \in Keys \ replayed : pending[k] = Absent => state[k] = Absent

ReadsExact == \A k \in Keys \ replayed : Get(k) = Expected(k)

(* A flush writes what is pending, a compaction what can be read; the       *)
(* table holds it until it becomes the newest layer.                        *)
JobEntries ==
    /\ fpc \in Early => job.entries = IF job.kind = "flush" THEN pending ELSE Materialize
    /\ fpc \in Early \ {"table"} => tables[job.name] = job.entries
    /\ fpc \in Late =>
         /\ state = EmptyMap /\ pending = EmptyMap
         /\ job.kind = "flush" => layers # <<>> /\ layers[Len(layers)] = job.entries

MemInv == up = "open" => StateClean /\ NothingUnflushed /\ ReadsExact /\ JobEntries

(* Stripping removes tombstones and nothing else. *)
LEMMA StripIs ==
    /\ \A x : Strip(x) # Tombstone
    /\ \A x : x # Tombstone => Strip(x) = x
    /\ Strip(Absent) = Absent
BY ValuesAssumption DEF Strip

(* The types of the maps in memory. *)
LEMMA MemTypes ==
    ASSUME TypeOK
    PROVE  /\ layers \in Seq(Map) /\ Len(layers) \in Nat /\ DOMAIN layers = 1..Len(layers)
           /\ log \in Seq(Map) /\ state \in Map /\ pending \in Map
           /\ job.entries \in Map
BY DEF TypeOK, Job

(* A compaction writes what get() answers. *)
LEMMA MaterializeIs ==
    ASSUME NEW k \in Keys PROVE Materialize[k] = Get(k)
BY DEF Materialize, Get, Applied, Recorded

(* No reader is shown a tombstone. *)
LEMMA GetClean ==
    ASSUME StateClean, NEW k \in Keys PROVE Get(k) # Tombstone /\ Strip(Get(k)) = Get(k)
<1>1. Get(k) # Tombstone
    BY StripIs DEF Get, StateClean
<1> QED BY <1>1, StripIs

(* Steps that change nothing a reader looks at. *)
LEMMA MemQuiet ==
    ASSUME MemInv, up = "open", UNCHANGED <<up, state, pending, layers, log, replayed>>, JobEntries'
    PROVE  MemInv'
<1>1. StateClean' /\ NothingUnflushed'
    BY DEF MemInv, StateClean, NothingUnflushed
<1>2. ReadsExact'
    BY DEF MemInv, ReadsExact, Get, Expected
<1> QED BY <1>1, <1>2 DEF MemInv

(* Nothing is read from a database that is not open. *)
LEMMA MemInit == Init => MemInv
<1> SUFFICES ASSUME Init PROVE MemInv
    OBVIOUS
<1>1. /\ state = EmptyMap /\ pending = EmptyMap /\ layers = <<>> /\ log = <<>> /\ fpc = "idle"
    BY DEF Init
<1>2. \A k \in Keys : state[k] = Absent /\ pending[k] = Absent
    BY <1>1 DEF EmptyMap
<1>3. DOMAIN layers = {} /\ DOMAIN log = {}
    BY <1>1
<1>4. \A k \in Keys : Newest(DOMAIN layers, layers, k) = Absent /\ Newest(DOMAIN log, log, k) = Absent
    BY <1>3 DEF Newest
<1>5. StateClean /\ NothingUnflushed
    BY <1>2, ValuesAssumption DEF StateClean, NothingUnflushed
<1>6. ReadsExact
    BY <1>2, <1>4 DEF ReadsExact, Get, Expected
<1>7. JobEntries
    BY <1>1 DEF JobEntries, Early, Late
<1> QED BY <1>5, <1>6, <1>7 DEF MemInv

(* A group becomes visible as its batches are logged. *)
LEMMA MemApply ==
    ASSUME ControlInv, MemInv, up = "open", ApplyGroup, UNCHANGED <<up, layers>>
    PROVE  StateClean' /\ NothingUnflushed' /\ ReadsExact'
<1> DEFINE e == GroupEffect(group)
<1>1. /\ group \in Seq(Batches) /\ log \in Seq(Map) /\ state \in Map /\ pending \in Map
    BY DEF ControlInv, TypeOK
<1>2. group \in Seq(Map)
    BY <1>1, BatchesAssumption
<1>3. /\ state' = Applied(state, e) /\ pending' = Recorded(pending, e)
      /\ log' = log \o group /\ replayed' = replayed \ Touched(e)
    BY DEF ApplyGroup
<1>4. \A k \in Keys : e[k] = Newest(DOMAIN group, group, k)
    BY DEF GroupEffect
<1> HIDE DEF e
<1>5. \A k \in Keys : /\ state'[k] = IF e[k] = Absent THEN state[k] ELSE Strip(e[k])
                      /\ pending'[k] = IF e[k] = Absent THEN pending[k] ELSE e[k]
    BY <1>3 DEF Applied, Recorded
<1>6. \A k \in Keys : k \notin replayed' /\ e[k] = Absent => k \notin replayed
    BY <1>3 DEF Touched
<1>7. StateClean'
    BY <1>5, StripIs DEF StateClean, MemInv
<1>8. NothingUnflushed'
    BY <1>5, <1>6 DEF NothingUnflushed, MemInv
<1>9. ReadsExact'
    <2> SUFFICES ASSUME NEW k \in Keys, k \notin replayed' PROVE Get(k)' = Expected(k)'
        BY DEF ReadsExact
    <2>1. Newest(DOMAIN log', log', k) = IF e[k] # Absent THEN e[k] ELSE Newest(DOMAIN log, log, k)
        BY <1>1, <1>2, <1>3, <1>4, NewestConcat
    <2>2. CASE e[k] # Absent
        <3>1. pending'[k] = e[k]
            BY <1>5, <2>2
        <3> QED BY <2>1, <2>2, <3>1 DEF Get, Expected
    <2>3. CASE e[k] = Absent
        <3>1. pending'[k] = pending[k] /\ state'[k] = state[k]
            BY <1>5, <2>3
        <3>2. Get(k)' = Get(k)
            BY <3>1 DEF Get
        <3>3. Expected(k)' = Expected(k)
            BY <2>1, <2>3 DEF Expected
        <3>4. Get(k) = Expected(k)
            BY <1>6, <2>3 DEF MemInv, ReadsExact
        <3> QED BY <3>2, <3>3, <3>4
    <2> QED BY <2>2, <2>3
<1> QED BY <1>7, <1>8, <1>9

(* Readers see the same before and after a group commit's other steps. *)
LEMMA MemWriter ==
    ASSUME ControlInv, MemInv, WriterNext PROVE MemInv'
<1> USE DEF ControlInv, disk, memory, writer, past, history
<1>0. up = "open" /\ up' = up
    BY DEF WriterNext, WriterBegin, WriterWrite, WriterWriteFails, WriterWriteTorn, WriterSync,
           WriterSyncFails, WriterApply, WriterSpawnFails, WriterApplyFails
<1>1. ASSUME NEW g \in Groups, WriterBegin(g) PROVE MemInv'
    <2>1. UNCHANGED <<up, state, pending, layers, log, replayed, tables>> /\ fpc = "idle"
        BY <1>1 DEF WriterBegin
    <2>2. \/ fpc' = "table" /\ job' = FlushJob("backpressure", pending, sequence)
          \/ fpc' = "idle"
        BY <1>1 DEF WriterBegin
    <2>3. JobEntries'
        BY <2>1, <2>2 DEF JobEntries, FlushJob, Early, Late
    <2> QED BY <1>0, <2>1, <2>3, MemQuiet
<1>2. ASSUME WriterWrite \/ WriterWriteFails \/ WriterWriteTorn \/ WriterSync \/ WriterSyncFails
             \/ WriterApplyFails
      PROVE  MemInv'
    <2>1. UNCHANGED <<up, state, pending, layers, log, replayed>> /\ fpc' = fpc
        BY <1>2 DEF WriterWrite, WriterWriteFails, WriterWriteTorn, WriterSync, WriterSyncFails,
                    WriterApplyFails
    <2>2. fpc = "idle"
        BY <1>2 DEF WriterWrite, WriterWriteFails, WriterWriteTorn, WriterSync, WriterSyncFails,
                    WriterApplyFails, Exclusion
    <2>3. JobEntries'
        BY <2>1, <2>2 DEF JobEntries, Early, Late
    <2> QED BY <1>0, <2>1, <2>3, MemQuiet
<1>3. ASSUME WriterApply \/ WriterSpawnFails PROVE MemInv'
    <2>1. ApplyGroup /\ UNCHANGED <<up, layers>> /\ fpc = "idle"
        BY <1>3 DEF WriterApply, WriterSpawnFails
    <2>2. \/ fpc' = "table" /\ job' = FlushJob("writer", pending', sequence')
          \/ fpc' = "idle"
        BY <1>3 DEF WriterApply, WriterSpawnFails
    <2>3. JobEntries'
        BY <2>1, <2>2 DEF JobEntries, FlushJob, Early, Late
    <2> QED BY <1>0, <2>1, <2>3, MemApply DEF MemInv
<1> QED BY <1>1, <1>2, <1>3 DEF WriterNext

(* The new layer of a flush or a compaction shows what memory showed. *)
LEMMA MemInstall ==
    ASSUME ControlInv, MemInv, Install PROVE MemInv'
<1> USE DEF ControlInv, disk, memory, writer, past, history
<1>1. /\ up = "open" /\ fpc = "install" /\ up' = up /\ fpc' = "setlen"
      /\ state' = EmptyMap /\ pending' = EmptyMap
      /\ layers' = IF job.kind = "flush" THEN Append(layers, tables[job.name])
                   ELSE <<tables[job.name]>>
      /\ UNCHANGED <<log, replayed, job>>
    BY DEF Install
<1>2. /\ tables[job.name] = job.entries
      /\ job.entries = IF job.kind = "flush" THEN pending ELSE Materialize
    BY <1>1 DEF MemInv, JobEntries, Early
<1>3. /\ layers \in Seq(Map) /\ Len(layers) \in Nat /\ DOMAIN layers = 1..Len(layers)
      /\ job.entries \in Map
    BY MemTypes
<1>4. \A k \in Keys : state'[k] = Absent /\ pending'[k] = Absent
    BY <1>1 DEF EmptyMap
<1>5. StateClean' /\ NothingUnflushed'
    BY <1>4, ValuesAssumption DEF StateClean, NothingUnflushed
<1>6. ASSUME NEW k \in Keys \ replayed, job.kind = "flush" PROVE Get(k)' = Get(k)
    <2>1. layers' = Append(layers, job.entries) /\ pending = job.entries
        BY <1>1, <1>2, <1>6
    <2>2. DOMAIN layers' = 1..(Len(layers) + 1)
        BY <1>3, <2>1
    <2>3. Newest(DOMAIN layers', layers', k)
              = IF pending[k] # Absent THEN pending[k] ELSE Newest(DOMAIN layers, layers, k)
        BY <1>3, <2>1, <2>2, NewestAppend
    <2>4. Get(k)' = Strip(Newest(DOMAIN layers', layers', k))
        BY <1>4 DEF Get
    <2>5. pending[k] = Absent => state[k] = Absent
        BY <1>1 DEF MemInv, NothingUnflushed
    <2> QED BY <2>3, <2>4, <2>5 DEF Get
<1>7. ASSUME NEW k \in Keys \ replayed, job.kind # "flush" PROVE Get(k)' = Get(k)
    <2>1. layers' = <<job.entries>> /\ job.entries = Materialize
        BY <1>1, <1>2, <1>7
    <2> DEFINE I == DOMAIN layers'
    <2>2. I = 1..1 /\ 1 \in I /\ layers'[1] = job.entries /\ \A j \in I : j = 1
        BY <2>1
    <2>3. Positions(I)
        BY <2>2, ArePositions
    <2>4. Newest(I, layers', k) = job.entries[k]
        <3> HIDE DEF I
        <3>1. CASE job.entries[k] = Absent
            <4>1. \A i \in I : layers'[i][k] = Absent
                BY <2>2, <3>1
            <4> QED BY <2>3, <3>1, <4>1, NewestNone
        <3>2. CASE job.entries[k] # Absent
            <4>1. layers'[1][k] # Absent /\ \A j \in I : j > 1 => layers'[j][k] = Absent
                BY <2>2, <3>2
            <4> QED BY <2>2, <2>3, <4>1, NewestIs
        <3> QED BY <3>1, <3>2
    <2>5. job.entries[k] = Get(k) /\ Strip(Get(k)) = Get(k)
        BY <1>1, <2>1, MaterializeIs, GetClean DEF MemInv
    <2>6. Get(k)' = Strip(Newest(I, layers', k))
        BY <1>4 DEF Get
    <2> QED BY <2>4, <2>5, <2>6
<1>8. ReadsExact'
    <2>1. \A k \in Keys : Expected(k)' = Expected(k)
        BY <1>1 DEF Expected
    <2> QED BY <1>1, <1>6, <1>7, <2>1 DEF MemInv, ReadsExact
<1>9. JobEntries'
    <2>1. job.kind = "flush" => layers' # <<>> /\ layers'[Len(layers')] = job.entries
        <3>1. job.kind = "flush" => layers' = Append(layers, job.entries)
            BY <1>1, <1>2
        <3> QED BY <1>3, <3>1
    <2> QED BY <1>1, <2>1 DEF JobEntries, Early, Late
<1> QED BY <1>5, <1>8, <1>9 DEF MemInv

(* A failed flush puts back what the newest layer shows already. *)
LEMMA MemFails ==
    ASSUME ControlInv, MemInv, JobFails PROVE MemInv'
<1> USE DEF ControlInv, disk, memory, writer, past, history
<1>1. /\ up = "open" /\ fpc # "idle" /\ fpc' = "idle" /\ pending' = Restored
      /\ UNCHANGED <<up, state, layers, log, replayed>>
    BY DEF JobFails
<1>2. fpc \in Early \cup Late
    BY <1>1 DEF TypeOK, Early, Late
<1>3. JobEntries'
    BY <1>1 DEF JobEntries, Early, Late
<1>4. CASE pending' = pending
    BY <1>1, <1>3, <1>4, MemQuiet
<1>5. CASE pending' # pending
    <2>1. job.kind = "flush" /\ fpc \in Late /\ pending' = job.entries
        BY <1>1, <1>2, <1>5 DEF MemInv, JobEntries, Restored
    <2>2. /\ state = EmptyMap /\ pending = EmptyMap
          /\ layers # <<>> /\ layers[Len(layers)] = job.entries
        BY <1>1, <2>1 DEF MemInv, JobEntries
    <2>3. /\ layers \in Seq(Map) /\ Len(layers) \in Nat /\ DOMAIN layers = 1..Len(layers)
          /\ Len(layers) \in DOMAIN layers
        BY <2>2, MemTypes
    <2>4. \A k \in Keys : state[k] = Absent /\ pending[k] = Absent
        BY <2>2 DEF EmptyMap
    <2>5. StateClean' /\ NothingUnflushed'
        BY <1>1, <2>4, ValuesAssumption DEF StateClean, NothingUnflushed
    <2>6. ASSUME NEW k \in Keys PROVE Get(k)' = Get(k)
        <3>1. CASE job.entries[k] = Absent
            BY <1>1, <2>1, <2>4, <3>1 DEF Get
        <3>2. CASE job.entries[k] # Absent
            <4> DEFINE I == DOMAIN layers
                       i == Len(layers)
            <4>1. i \in I /\ layers[i][k] # Absent /\ \A j \in I : ~(j > i)
                BY <2>2, <2>3, <3>2
            <4>2. Positions(I)
                BY <2>3, ArePositions
            <4>3. layers[i] = job.entries
                BY <2>2
            <4>4. Newest(I, layers, k) = layers[i][k]
                <5> HIDE DEF I, i
                <5> QED BY <4>1, <4>2, NewestIs
            <4>5. Get(k) = Strip(Newest(I, layers, k))
                BY <2>4 DEF Get
            <4>6. Get(k)' = Strip(job.entries[k])
                BY <2>1, <3>2 DEF Get
            <4> QED BY <4>3, <4>4, <4>5, <4>6
        <3> QED BY <3>1, <3>2
    <2>7. ReadsExact'
        <3>1. \A k \in Keys : Expected(k)' = Expected(k)
            BY <1>1 DEF Expected
        <3> QED BY <1>1, <2>6, <3>1 DEF MemInv, ReadsExact
    <2> QED BY <1>3, <2>5, <2>7 DEF MemInv
<1> QED BY <1>4, <1>5

(* Readers see the same through every step of a flush or a compaction. *)
LEMMA MemMaintenance ==
    ASSUME ControlInv, MemInv, MaintenanceNext PROVE MemInv'
<1> USE DEF ControlInv, disk, memory, writer, past, history
<1>1. ASSUME NEW by \in {"persist", "worker"}, BeginFlush(by) PROVE MemInv'
    <2>1. /\ up = "open" /\ fpc' = "table" /\ job' = FlushJob(by, pending, sequence)
          /\ UNCHANGED <<up, state, pending, layers, log, replayed>>
        BY <1>1 DEF BeginFlush
    <2>2. JobEntries'
        BY <2>1 DEF JobEntries, FlushJob, Early, Late
    <2> QED BY <2>1, <2>2, MemQuiet
<1>2. ASSUME PersistNothing PROVE MemInv'
    <2>1. /\ up = "open" /\ fpc = "idle" /\ fpc' = "idle"
          /\ UNCHANGED <<up, state, pending, layers, log, replayed>>
        BY <1>2 DEF PersistNothing
    <2>2. JobEntries'
        BY <2>1 DEF JobEntries, Early, Late
    <2> QED BY <2>1, <2>2, MemQuiet
<1>3. ASSUME NEW by, job' = CompactJob(by), fpc' = "table", up = "open",
             UNCHANGED <<up, state, pending, layers, log, replayed>>
      PROVE  MemInv'
    <2>1. Materialize' = Materialize
        BY <1>3 DEF Materialize
    <2>2. job'.entries = Materialize /\ job'.kind = "compact"
        BY <1>3 DEF CompactJob
    <2>3. JobEntries'
        BY <1>3, <2>1, <2>2 DEF JobEntries, Early, Late
    <2> QED BY <1>3, <2>3, MemQuiet
<1>4. ASSUME BeginCompact PROVE MemInv'
    BY <1>3, <1>4 DEF BeginCompact
<1>5. ASSUME WriteTable \/ WriteManifest \/ SyncDirectory PROVE MemInv'
    <2>1. /\ up = "open" /\ fpc \in Early /\ fpc' \in Early
          /\ UNCHANGED <<up, state, pending, layers, log, replayed, job>>
        BY <1>5 DEF WriteTable, WriteManifest, SyncDirectory, Early
    <2>2. tables'[job.name] = job.entries
        BY <1>5 DEF WriteTable, WriteManifest, SyncDirectory, MemInv, JobEntries, Early
    <2>3. Materialize' = Materialize
        BY <2>1 DEF Materialize
    <2>4. JobEntries'
        BY <2>1, <2>2, <2>3 DEF MemInv, JobEntries, Early, Late
    <2> QED BY <2>1, <2>4, MemQuiet
<1>6. ASSUME TruncateWal PROVE MemInv'
    <2>1. /\ up = "open" /\ fpc = "setlen" /\ fpc' = "walsync"
          /\ UNCHANGED <<up, state, pending, layers, log, replayed, job>>
        BY <1>6 DEF TruncateWal
    <2>2. JobEntries'
        BY <2>1 DEF MemInv, JobEntries, Early, Late
    <2> QED BY <2>1, <2>2, MemQuiet
<1>7. ASSUME SyncEmptyWal PROVE MemInv'
    <2>1. /\ up = "open" /\ UNCHANGED <<up, state, pending, layers, log, replayed>>
        BY <1>7 DEF SyncEmptyWal
    <2>2. CASE fpc' = "table" /\ job' = CompactJob(job.by)
        BY <1>3, <2>1, <2>2
    <2>3. CASE fpc' = "idle"
        <3>1. JobEntries'
            BY <2>3 DEF JobEntries, Early, Late
        <3> QED BY <2>1, <3>1, MemQuiet
    <2> QED BY <1>7, <2>2, <2>3 DEF SyncEmptyWal
<1> QED BY <1>1, <1>2, <1>4, <1>5, <1>6, <1>7, MemInstall, MemFails DEF MaintenanceNext

(* A database that is not open shows nothing. *)
LEMMA MemDown ==
    ASSUME Crash \/ Close \/ RemoveLock PROVE MemInv'
BY DEF Crash, Close, RemoveLock, MemInv

-----------------------------------------------------------------------------
(* The engine implements the atomic map *)

(* One map more. *)
LEMMA NewestStep ==
    ASSUME NEW n \in Nat, NEW f, NEW k
    PROVE  Newest(1..(n + 1), f, k)
               = IF f[n + 1][k] # Absent THEN f[n + 1][k] ELSE Newest(1..n, f, k)
<1> DEFINE M == 1..(n + 1)
           N == 1..n
<1>1. Positions(M) /\ Positions(N)
    BY ArePositions
<1>2. n + 1 \in M /\ N \subseteq M /\ \A j \in M : j = n + 1 \/ (j \in N /\ ~(j > n + 1))
    OBVIOUS
<1>3. \A j \in M : ~(j > n + 1)
    OBVIOUS
<1> HIDE DEF M, N
<1>4. CASE f[n + 1][k] # Absent
    <2> DEFINE i == n + 1
    <2>1. i \in M /\ f[i][k] # Absent /\ \A j \in M : j > i => f[j][k] = Absent
        BY <1>2, <1>3, <1>4
    <2> HIDE DEF i
    <2>2. Newest(M, f, k) = f[i][k]
        BY <1>1, <2>1, NewestIs
    <2> QED BY <1>4, <2>2 DEF M, i
<1>5. CASE f[n + 1][k] = Absent
    <2>1. CASE \A j \in N : f[j][k] = Absent
        <3>1. \A j \in M : f[j][k] = Absent
            BY <1>2, <1>5, <2>1
        <3>2. Newest(M, f, k) = Absent /\ Newest(N, f, k) = Absent
            BY <1>1, <2>1, <3>1, NewestNone
        <3> QED BY <1>5, <3>2 DEF M, N
    <2>2. CASE ~ \A j \in N : f[j][k] = Absent
        <3>1. PICK h \in N : /\ f[h][k] # Absent /\ Newest(N, f, k) = f[h][k]
                             /\ \A j \in N : j > h => f[j][k] = Absent
            BY <1>1, <2>2, NewestWhich
        <3>2. h \in M /\ \A j \in M : j > h => f[j][k] = Absent
            BY <1>2, <1>5, <3>1
        <3>3. Newest(M, f, k) = f[h][k]
            BY <1>1, <3>1, <3>2, NewestIs
        <3> QED BY <1>5, <3>1, <3>3 DEF M, N
    <2> QED BY <2>1, <2>2
<1> QED BY <1>4, <1>5

(* The engine was opened once, and the writer's groups have a length. *)
OneRun ==
    /\ opens >= 1 /\ replayed = {}
    /\ wpc # "idle" => Len(group) \in 1..MaxGroup

(* OneRun holds while nothing is reopened. *)
LEMMA OneRunNext ==
    ASSUME ControlInv, OneRun, MaxOpens <= 1, [Next]_vars
    PROVE  OneRun' /\ ~Open
<1> USE DEF disk, memory, writer, past, history
<1>1. opens \in Nat /\ MaxOpens \in Nat
    BY BoundsAssumption DEF ControlInv, TypeOK
<1>2. ~Open
    BY <1>1 DEF OneRun, Open
<1>3. opens' = opens
    BY <1>2 DEF Next, vars, WriterNext, WriterBegin, WriterWrite, WriterWriteFails, WriterWriteTorn, WriterSync,
           WriterSyncFails, WriterApply, WriterSpawnFails, WriterApplyFails, ApplyGroup,
           MaintenanceNext, BeginFlush, PersistNothing, BeginCompact, WriteTable,
           WriteManifest, SyncDirectory, Install, TruncateWal, SyncEmptyWal, JobFails,
           LifecycleNext, Crash, Close, RemoveLock, Forget
<1>4. replayed' = {}
    BY <1>2 DEF OneRun, Next, vars, WriterNext, WriterBegin, WriterWrite, WriterWriteFails, WriterWriteTorn, WriterSync,
           WriterSyncFails, WriterApply, WriterSpawnFails, WriterApplyFails, ApplyGroup,
           MaintenanceNext, BeginFlush, PersistNothing, BeginCompact, WriteTable,
           WriteManifest, SyncDirectory, Install, TruncateWal, SyncEmptyWal, JobFails,
           LifecycleNext, Crash, Close, RemoveLock, Forget
<1>5. ASSUME NEW g \in Groups, WriterBegin(g) PROVE Len(group') \in 1..MaxGroup
    <2>1. PICK n \in 1..MaxGroup : g \in [1..n -> Batches]
        BY DEF Groups
    <2>2. n \in Nat /\ g \in Seq(Batches) /\ Len(g) = n
        BY <2>1, BoundsAssumption
    <2> QED BY <1>5, <2>1, <2>2 DEF WriterBegin
<1>6. CASE ~ \E g \in Groups : WriterBegin(g)
    <2>1. ASSUME SyncEmptyWal PROVE wpc' # "idle" => wpc # "idle" /\ group' = group
        <3>1. fpc = "walsync" /\ (job.by = "backpressure" => wpc # "idle")
            BY <2>1 DEF SyncEmptyWal, ControlInv, Exclusion, TypeOK
        <3> QED BY <2>1, <3>1 DEF SyncEmptyWal, ReleaseWriter
    <2>2. ASSUME WriterNext PROVE wpc' # "idle" => wpc # "idle" /\ group' = group
        BY <1>6, <2>2
           DEF WriterNext, WriterWrite, WriterWriteFails, WriterWriteTorn, WriterSync,
               WriterSyncFails, WriterApply, WriterSpawnFails, WriterApplyFails, ReleaseWriter
    <2>3. ASSUME MaintenanceNext PROVE wpc' # "idle" => wpc # "idle" /\ group' = group
        BY <2>1, <2>3
           DEF MaintenanceNext, BeginFlush, PersistNothing, BeginCompact, WriteTable,
               WriteManifest, SyncDirectory, Install, TruncateWal, JobFails, ReleaseWriter
    <2>4. ASSUME LifecycleNext PROVE wpc' # "idle" => wpc # "idle" /\ group' = group
        BY <1>2, <2>4 DEF LifecycleNext, Crash, Close, RemoveLock, Forget
    <2>5. ASSUME UNCHANGED vars PROVE wpc' # "idle" => wpc # "idle" /\ group' = group
        BY <2>5 DEF vars
    <2>6. wpc' # "idle" => wpc # "idle" /\ group' = group
        BY <2>2, <2>3, <2>4, <2>5 DEF Next
    <2> QED BY <1>2, <1>3, <1>4, <2>6 DEF OneRun
<1> QED BY <1>2, <1>3, <1>4, <1>5, <1>6 DEF OneRun

(* The history is what a caller sees, as long as nothing was reopened. *)
LEMMA ViewIsHistory ==
    ASSUME MemInv, OneRun PROVE View = [k \in Keys |-> Expected(k)]
BY DEF MemInv, OneRun, ReadsExact, View

(* The maps between the batches of a group, all of them histories. *)
Between(l, g) ==
    [i \in 0..Len(g) |->
        [k \in Keys |-> Strip(Newest(1..(Len(l) + i), l \o g, k))]]

(* Logging a group applies its batches one after the other. *)
LEMMA BetweenIs ==
    ASSUME NEW l \in Seq(Map), NEW g \in Seq(Map)
    PROVE  /\ Between(l, g) \in [0..Len(g) -> [Keys -> Values \cup {Absent}]]
           /\ Between(l, g)[0] = [k \in Keys |-> Strip(Newest(DOMAIN l, l, k))]
           /\ \A i \in 1..Len(g) : Between(l, g)[i] = KV!After(Between(l, g)[i - 1], g[i])
           /\ Between(l, g)[Len(g)] = [k \in Keys |-> Strip(Newest(DOMAIN (l \o g), l \o g, k))]
<1> DEFINE f == l \o g
           c == Len(l)
           n == Len(g)
           B == Between(l, g)
<1>1. /\ c \in Nat /\ n \in Nat /\ DOMAIN l = 1..c /\ DOMAIN f = 1..(c + n)
      /\ f \in Seq(Map)
      /\ \A i \in 1..c : f[i] = l[i]
      /\ \A j \in 1..n : f[c + j] = g[j]
    BY ConcatProperties
<1>2. \A i \in 0..n : B[i] = [k \in Keys |-> Strip(Newest(1..(c + i), f, k))]
    BY DEF Between
<1>3. B \in [0..n -> [Keys -> Values \cup {Absent}]]
    <2>1. ASSUME NEW i \in 0..n, NEW k \in Keys
          PROVE  Strip(Newest(1..(c + i), f, k)) \in Values \cup {Absent}
        <3> DEFINE m == c + i
                   I == 1..m
        <3>1. m \in Nat /\ I \subseteq DOMAIN f
            BY <1>1
        <3>2. \A j \in I : f[j] \in Map
            BY <1>1, <3>1, ElementOfSeq
        <3> HIDE DEF m, f
        <3>3. I \subseteq 1..m
            OBVIOUS
        <3> HIDE DEF I
        <3>4. Newest(I, f, k) \in Slot
            BY <3>1, <3>2, <3>3, NewestType
        <3>5. Strip(Newest(I, f, k)) \in Values \cup {Absent}
            BY <3>4, ValuesAssumption DEF Slot, Strip
        <3> QED BY <3>5 DEF I, m
    <2>2. B = [i \in 0..n |-> [k \in Keys |-> Strip(Newest(1..(c + i), f, k))]]
        BY DEF Between
    <2> HIDE DEF B, f, c, n
    <2> QED BY <2>1, <2>2
<1>4. B[0] = [k \in Keys |-> Strip(Newest(DOMAIN l, l, k))]
    <2>1. B[0] = [k \in Keys |-> Strip(Newest(1..(c + 0), f, k))] /\ c + 0 = c
        BY <1>1, <1>2
    <2>2. ASSUME NEW k \in Keys PROVE Newest(1..c, f, k) = Newest(1..c, l, k)
        <3> DEFINE I == 1..c
        <3>1. Positions(I) /\ \A i \in I : f[i][k] = l[i][k]
            BY <1>1, ArePositions
        <3> HIDE DEF I, f
        <3>2. Newest(I, f, k) = Newest(I, l, k)
            BY <3>1, NewestSame
        <3> QED BY <3>2 DEF I
    <2> QED BY <1>1, <2>1, <2>2
<1>5. ASSUME NEW i \in 1..n PROVE B[i] = KV!After(B[i - 1], g[i])
    <2> DEFINE m == c + (i - 1)
    <2>1. /\ m \in Nat /\ m + 1 = c + i /\ i \in 0..n /\ i - 1 \in 0..n
          /\ f[m + 1] = g[i]
        BY <1>1
    <2>2. /\ B[i] = [k \in Keys |-> Strip(Newest(1..(m + 1), f, k))]
          /\ B[i - 1] = [k \in Keys |-> Strip(Newest(1..m, f, k))]
        BY <1>2, <2>1
    <2> HIDE DEF B, f, m
    <2>3. \A k \in Keys : Newest(1..(m + 1), f, k)
                            = IF f[m + 1][k] # Absent THEN f[m + 1][k] ELSE Newest(1..m, f, k)
        BY <2>1, NewestStep
    <2>4. \A k \in Keys : Strip(Newest(1..(m + 1), f, k))
                            = IF g[i][k] = Absent THEN B[i - 1][k]
                              ELSE IF g[i][k] = Tombstone THEN Absent ELSE g[i][k]
        BY <2>1, <2>2, <2>3 DEF Strip
    <2> QED BY <2>2, <2>4 DEF KV!After
<1>6. B[n] = [k \in Keys |-> Strip(Newest(DOMAIN f, f, k))]
    <2>1. n \in 0..n
        BY <1>1
    <2> QED BY <1>1, <1>2, <2>1
<1> QED BY <1>3, <1>4, <1>5, <1>6

(* A step of the engine commits a group of batches, or nothing. *)
LEMMA StepCommits ==
    ASSUME ControlInv, MemInv, MemInv', OneRun, OneRun', [Next]_vars, ~Open
    PROVE  [KV!CommitBatches]_<<View, log>>
<1>1. View = [k \in Keys |-> Strip(Newest(DOMAIN log, log, k))]
    BY ViewIsHistory DEF Expected
<1>2. View' = [k \in Keys |-> Strip(Newest(DOMAIN log', log', k))]
    BY ViewIsHistory DEF Expected, MemInv, OneRun, ReadsExact, View
<1>3. CASE log' = log
    BY <1>1, <1>2, <1>3
<1>4. CASE log' # log
    <2>1. log' = log \o group /\ wpc = "apply"
        BY <1>4 DEF Next, vars, WriterNext, WriterBegin, WriterWrite, WriterWriteFails, WriterWriteTorn, WriterSync,
           WriterSyncFails, WriterApply, WriterSpawnFails, WriterApplyFails, ApplyGroup,
           MaintenanceNext, BeginFlush, PersistNothing, BeginCompact, WriteTable,
           WriteManifest, SyncDirectory, Install, TruncateWal, SyncEmptyWal, JobFails,
           LifecycleNext, Crash, Close, RemoveLock, Forget, disk, memory, writer, past, history
    <2> DEFINE n == Len(group)
               b == Between(log, group)
    <2>2. n \in 1..MaxGroup /\ group \in [1..n -> Batches] /\ group \in Seq(Map) /\ log \in Seq(Map)
        BY <2>1, BatchesAssumption DEF OneRun, ControlInv, TypeOK
    <2>3. /\ b \in [0..n -> [Keys -> Values \cup {Absent}]]
          /\ b[0] = View
          /\ \A i \in 1..n : b[i] = KV!After(b[i - 1], group[i])
          /\ View' = b[n]
        <3>1. b \in [0..n -> [Keys -> Values \cup {Absent}]]
            BY <2>2, BetweenIs
        <3>2. \A i \in 1..n : b[i] = KV!After(b[i - 1], group[i])
            BY <2>2, BetweenIs
        <3>3. b[0] = [k \in Keys |-> Strip(Newest(DOMAIN log, log, k))]
            BY <2>2, BetweenIs
        <3>4. b[n] = [k \in Keys |-> Strip(Newest(DOMAIN (log \o group), log \o group, k))]
            BY <2>2, BetweenIs
        <3> HIDE DEF b, n
        <3>5. View' = b[n]
            BY <1>2, <2>1, <3>4
        <3> QED BY <1>1, <3>1, <3>2, <3>3, <3>5
    <2> HIDE DEF b, n
    <2>4. KV!CommitBatches
        BY <2>1, <2>2, <2>3 DEF KV!CommitBatches
    <2> QED BY <2>4
<1> QED BY <1>3, <1>4

(* The engine implements KVStore for as long as it runs: seen through       *)
(* get(), a group commit of any size applies its batches at once and in     *)
(* order, and no flush, compaction, I/O error, crash or close changes       *)
(* anything.  Reopening is not part of it: a replayed delete is forgotten.  *)
THEOREM ImplementsMap == MaxOpens <= 1 => (Spec => RefinesKVStore)
<1> SUFFICES ASSUME MaxOpens <= 1 PROVE Spec => RefinesKVStore
    OBVIOUS
<1>1. Init => KV!KVInit
    <2> SUFFICES ASSUME Init PROVE KV!KVInit
        OBVIOUS
    <2>1. log = <<>> /\ replayed = {} /\ MemInv
        BY MemInit DEF Init
    <2>2. \A k \in Keys : Newest(DOMAIN log, log, k) = Absent
        <3>1. DOMAIN log = {}
            BY <2>1
        <3> QED BY <3>1 DEF Newest
    <2>3. \A k \in Keys : View[k] = Expected(k)
        BY <2>1 DEF View, MemInv, ReadsExact
    <2>4. View = [k \in Keys |-> Absent]
        BY <2>2, <2>3, StripIs DEF View, Expected
    <2> QED BY <2>1, <2>4 DEF KV!KVInit
<1>2. Init => OneRun
    BY DEF Init, OneRun
<1>3. ASSUME ControlInv, MemInv, OneRun, [Next]_vars
      PROVE  MemInv' /\ OneRun' /\ [KV!CommitBatches]_<<View, log>>
    <2>1. OneRun' /\ ~Open
        BY <1>3, OneRunNext
    <2>2. CASE UNCHANGED vars
        <3>1. UNCHANGED <<up, state, pending, layers, log, replayed, fpc, job, tables>>
            BY <2>2 DEF vars, disk, memory, past, history
        <3>2. Materialize' = Materialize
            BY <3>1 DEF Materialize
        <3>3. up = "open" => JobEntries'
            BY <1>3, <3>1, <3>2 DEF MemInv, JobEntries
        <3>4. MemInv'
            BY <1>3, <3>1, <3>3, MemQuiet DEF MemInv
        <3> QED BY <1>3, <2>1, <3>4, StepCommits
    <2>3. CASE Next
        <3>1. MemInv'
            BY <1>3, <2>1, <2>3, MemWriter, MemMaintenance, MemDown DEF Next, LifecycleNext
        <3> QED BY <1>3, <2>1, <3>1, StepCommits
    <2> QED BY <1>3, <2>2, <2>3
<1> QED BY <1>1, <1>2, <1>3, MemInit, ControlCorrect, PTL DEF Spec, RefinesKVStore, KV!KVSpec

-----------------------------------------------------------------------------
(* What is in the tables *)

(* The maps of a list of tables, and what they say about a key. *)
Loaded(tb, files) == [i \in 1..Len(files) |-> tb[files[i]]]
Shown(tb, files, k) == Strip(Newest(1..Len(files), Loaded(tb, files), k))
History(l, k) == Strip(Newest(DOMAIN l, l, k))

(* A key that no commit after the table sequence touches. *)
Settled(l, t, k) == \A s \in 1..Len(l) : s > t => l[s][k] = Absent

(* For the settled keys, the tables of the manifest m hold the history. *)
Holds(tb, m, l, rep) ==
    \A k \in Keys \ rep : Settled(l, m.seq, k) => Shown(tb, m.files, k) = History(l, k)

TablesExact == /\ Holds(tables, manifest, log, replayed)
               /\ Holds(tables, manifestDurable, log, replayed)

LayersLoaded ==
    up = "open" => /\ Len(layers) = Len(tableFiles)
                   /\ \A i \in 1..Len(layers) : layers[i] = tables[tableFiles[i]]

(* While there is something to flush, a manifest that names the table to be *)
(* written comes from an earlier attempt of the same flush.                 *)
Retried ==
    up = "open" /\ (pending # EmptyMap \/ (fpc \in Early /\ job.kind = "flush")) =>
        \A m \in {manifest, manifestDurable} : \A i \in DOMAIN m.files :
            m.files[i] = FlushName(sequence, Len(tableFiles))
                => m.files = Flushed(tableFiles, sequence)

(* A compaction writes no tombstones. *)
CompactedClean == \A n \in DOMAIN tables : n[2] = 1 => \A k \in Keys : tables[n][k] # Tombstone

DiskInv == TablesExact /\ LayersLoaded /\ Retried /\ CompactedClean

(* The entries of the listed tables are all that matters. *)
LEMMA ShownSame ==
    ASSUME NEW tb, NEW tc, NEW files \in Seq(TableName), NEW k,
           \A i \in 1..Len(files) : tc[files[i]] = tb[files[i]]
    PROVE  Shown(tc, files, k) = Shown(tb, files, k)
<1>1. Len(files) \in Nat
    OBVIOUS
<1>2. Loaded(tc, files) = Loaded(tb, files)
    BY DEF Loaded
<1> QED BY <1>2 DEF Shown

(* The layers show what the tables they were loaded from show. *)
LEMMA ShownLayers ==
    ASSUME NEW tb, NEW files \in Seq(TableName), NEW l \in Seq(Map), NEW k,
           Len(l) = Len(files), \A i \in 1..Len(l) : l[i] = tb[files[i]]
    PROVE  Shown(tb, files, k) = Strip(Newest(DOMAIN l, l, k))
<1> DEFINE I == 1..Len(files)
<1>1. Len(files) \in Nat /\ DOMAIN l = I
    OBVIOUS
<1>2. Positions(I)
    BY <1>1, ArePositions
<1>3. \A i \in I : Loaded(tb, files)[i][k] = l[i][k]
    BY DEF Loaded
<1> HIDE DEF I
<1>4. Newest(I, Loaded(tb, files), k) = Newest(I, l, k)
    BY <1>2, <1>3, NewestSame
<1> QED BY <1>1, <1>4 DEF Shown, I

(* One table. *)
LEMMA ShownOne ==
    ASSUME NEW tb, NEW x, NEW k PROVE Shown(tb, <<x>>, k) = Strip(tb[x][k])
<1> DEFINE f == Loaded(tb, <<x>>)
           n == 0
<1>1. Len(<<x>>) = n + 1 /\ n \in Nat /\ f[n + 1] = tb[x]
    BY DEF Loaded
<1>2. Newest(1..n, f, k) = Absent
    <2>1. 1..n = {}
        OBVIOUS
    <2> QED BY <2>1 DEF Newest
<1> HIDE DEF f, n
<1>3. Newest(1..(n + 1), f, k) = IF f[n + 1][k] # Absent THEN f[n + 1][k] ELSE Newest(1..n, f, k)
    BY <1>1, NewestStep
<1>4. Newest(1..(n + 1), f, k) = tb[x][k]
    BY <1>1, <1>2, <1>3
<1> QED BY <1>1, <1>4 DEF Shown, f

(* One table more. *)
LEMMA ShownAppend ==
    ASSUME NEW tb, NEW files \in Seq(TableName), NEW x \in TableName, NEW l \in Seq(Map), NEW k,
           Len(l) = Len(files), \A i \in 1..Len(l) : l[i] = tb[files[i]]
    PROVE  Shown(tb, Append(files, x), k)
               = Strip(IF tb[x][k] # Absent THEN tb[x][k] ELSE Newest(DOMAIN l, l, k))
<1> DEFINE n == Len(files)
           g == Append(files, x)
           f == Loaded(tb, g)
           I == 1..n
<1>1. n \in Nat /\ Len(g) = n + 1 /\ g[n + 1] = x /\ (\A i \in 1..n : g[i] = files[i]) /\ DOMAIN l = I
    OBVIOUS
<1>2. f[n + 1] = tb[x] /\ \A i \in 1..n : f[i] = l[i]
    <2>1. \A i \in 1..(n + 1) : f[i] = tb[g[i]]
        BY <1>1 DEF Loaded
    <2> HIDE DEF f, g, n
    <2>2. n + 1 \in 1..(n + 1) /\ \A i \in 1..n : i \in 1..(n + 1)
        BY <1>1
    <2> QED BY <1>1, <2>1, <2>2 DEF n
<1> HIDE DEF f, g, n
<1>3. Newest(1..(n + 1), f, k) = IF f[n + 1][k] # Absent THEN f[n + 1][k] ELSE Newest(1..n, f, k)
    BY <1>1, NewestStep
<1>4. Newest(I, f, k) = Newest(I, l, k)
    <2>1. Positions(I) /\ \A i \in I : f[i][k] = l[i][k]
        BY <1>1, <1>2, ArePositions
    <2> HIDE DEF I
    <2> QED BY <2>1, NewestSame
<1>5. Shown(tb, g, k) = Strip(Newest(1..(n + 1), f, k))
    BY <1>1 DEF Shown, f
<1> QED BY <1>1, <1>2, <1>3, <1>4, <1>5 DEF g

(* Commits that do not touch the key leave its history alone. *)
LEMMA HistoryKept ==
    ASSUME NEW l \in Seq(Map), NEW h \in Seq(Map), NEW k, Len(l) <= Len(h),
           \A s \in 1..Len(l) : h[s] = l[s],
           \A s \in 1..Len(h) : s > Len(l) => h[s][k] = Absent
    PROVE  History(h, k) = History(l, k)
<1> DEFINE I == 1..Len(l)
           H == 1..Len(h)
<1>1. /\ Len(l) \in Nat /\ Len(h) \in Nat /\ DOMAIN l = I /\ DOMAIN h = H
      /\ I \subseteq H /\ \A s \in H : s \notin I => s > Len(l)
    OBVIOUS
<1>2. Positions(I) /\ Positions(H)
    BY <1>1, ArePositions
<1>3. (\A s \in I : h[s][k] = l[s][k]) /\ (\A s \in H : s \notin I => h[s][k] = Absent)
    BY <1>1
<1>4. \A s \in I, r \in H : r > s \/ r \in I
    OBVIOUS
<1> HIDE DEF I, H
<1>5. Newest(H, h, k) = Newest(I, l, k)
    <2>1. CASE \A s \in I : l[s][k] = Absent
        <3>1. \A s \in H : h[s][k] = Absent
            BY <1>3, <2>1
        <3> QED BY <1>2, <2>1, <3>1, NewestNone
    <2>2. CASE ~ \A s \in I : l[s][k] = Absent
        <3>1. PICK s \in I : /\ l[s][k] # Absent /\ Newest(I, l, k) = l[s][k]
                             /\ \A r \in I : r > s => l[r][k] = Absent
            BY <1>2, <2>2, NewestWhich
        <3>2. s \in H /\ h[s][k] = l[s][k] /\ \A r \in H : r > s => h[r][k] = Absent
            BY <1>1, <1>3, <3>1
        <3>3. Newest(H, h, k) = h[s][k]
            BY <1>2, <3>1, <3>2, NewestIs
        <3> QED BY <3>1, <3>2, <3>3
    <2> QED BY <2>1, <2>2
<1> QED BY <1>1, <1>5 DEF History

(* Such commits leave what the tables hold alone, too. *)
LEMMA HoldsKept ==
    ASSUME NEW tb, NEW m \in Manifest, NEW l \in Seq(Map), NEW h \in Seq(Map), NEW rep, NEW res,
           Holds(tb, m, l, rep), m.seq <= Len(l), Len(l) <= Len(h),
           \A s \in 1..Len(l) : h[s] = l[s],
           \A k \in Keys \ res : Settled(h, m.seq, k) => k \notin rep
    PROVE  Holds(tb, m, h, res)
<1> SUFFICES ASSUME NEW k \in Keys \ res, Settled(h, m.seq, k)
             PROVE  Shown(tb, m.files, k) = History(h, k)
    BY DEF Holds
<1>1. Len(l) \in Nat /\ Len(h) \in Nat /\ m.seq \in Nat
    BY DEF Manifest
<1>2. \A s \in 1..Len(h) : s > Len(l) => h[s][k] = Absent
    BY <1>1 DEF Settled
<1>3. Settled(l, m.seq, k)
    BY <1>1 DEF Settled
<1>4. History(h, k) = History(l, k)
    BY <1>2, HistoryKept
<1> QED BY <1>3, <1>4 DEF Holds

(* The next flush has a name of its own. *)
LEMMA FreshName ==
    ASSUME NEW files \in Seq(TableName), Shaped(files), NEW s
    PROVE  \A i \in 1..Len(files) : files[i] # FlushName(s, Len(files))
<1> SUFFICES ASSUME NEW i \in 1..Len(files), files[i] = FlushName(s, Len(files)) PROVE FALSE
    OBVIOUS
<1>1. Len(files) \in Nat /\ i \in DOMAIN files
    OBVIOUS
<1>2. files[i][2] = 0 /\ files[i][3] = Len(files)
    BY DEF FlushName
<1>3. files[i] = FlushName(files[i][1], i - 1) \/ files[i] = CompactName(files[i][1])
    BY <1>1 DEF Shaped
<1>4. files[i] = CompactName(files[i][1]) => files[i][2] = 1
    BY DEF CompactName
<1>5. files[i] = FlushName(files[i][1], i - 1) => files[i][3] = i - 1
    BY DEF FlushName
<1> QED BY <1>1, <1>2, <1>3, <1>4, <1>5

(* A compaction at the newest sequence is the only table. *)
LEMMA OnlyCompacted ==
    ASSUME NEW files \in Seq(TableName), Shaped(files), Ascending(files), NEW s \in Nat,
           \A i \in DOMAIN files : files[i][1] <= s,
           NEW j \in DOMAIN files, files[j] = CompactName(s)
    PROVE  files = <<CompactName(s)>>
<1>1. Len(files) \in Nat /\ DOMAIN files = 1..Len(files)
    OBVIOUS
<1>2. files[j][2] = 1
    BY DEF CompactName
<1>3. j = 1
    <2>1. files[j] = FlushName(files[j][1], j - 1) => files[j][2] = 0
        BY DEF FlushName
    <2> QED BY <1>2, <2>1 DEF Shaped
<1>4. Len(files) = 1
    <2> SUFFICES ASSUME Len(files) # 1 PROVE FALSE
        OBVIOUS
    <2>1. 1 \in 1..(Len(files) - 1) /\ 2 \in DOMAIN files /\ 1 + 1 = 2
        BY <1>1, <1>3
    <2>2. NameLess(files[1], files[2])
        BY <2>1 DEF Ascending
    <2>3. files[2] = FlushName(files[2][1], 2 - 1)
        BY <2>1 DEF Shaped
    <2>4. files[2][2] = 0 /\ files[1][1] = s /\ files[1][2] = 1
        BY <1>3, <2>3 DEF FlushName, CompactName
    <2>5. files[2][1] <= s /\ files[2][1] \in Nat
        BY <2>1, ElementOfSeq DEF TableName
    <2> QED BY <2>2, <2>4, <2>5 DEF NameLess
<1> QED BY <1>1, <1>3, <1>4

(* A table list as a manifest or the engine has it. *)
LEMMA ManifestFiles ==
    ASSUME ControlInv, NamesInv, NEW m \in {manifest, manifestDurable}
    PROVE  /\ m \in Manifest /\ m.files \in Seq(TableName) /\ m.seq \in Nat
           /\ Shaped(m.files) /\ Ascending(m.files)
           /\ \A i \in DOMAIN m.files : m.files[i] \in DOMAIN tables /\ m.files[i][1] <= m.seq
                                        /\ m.files[i][1] \in Nat
<1>1. m \in Manifest /\ m.files \in Seq(TableName) /\ m.seq \in Nat
    BY DEF ControlInv, TypeOK, Manifest
<1>2. Shaped(m.files) /\ ManifestOpens(m)
    BY DEF NamesInv, ManifestNames
<1>3. \A i \in DOMAIN m.files : m.files[i][1] \in Nat
    BY <1>1, ElementOfSeq DEF TableName
<1> QED BY <1>1, <1>2, <1>3 DEF ManifestOpens, Ascending

(* Once its table is written, the file list of a job shows the history. *)
LEMMA JobShows ==
    ASSUME ControlInv, NamesInv, MemInv, LayersLoaded, up = "open", fpc \in Early,
           NEW tb, tb[job.name] = job.entries,
           job.kind = "flush" =>
               \A i \in 1..Len(tableFiles) : tb[tableFiles[i]] = tables[tableFiles[i]],
           NEW k \in Keys \ replayed
    PROVE  Shown(tb, job.files, k) = History(log, k)
<1>1. /\ layers \in Seq(Map) /\ DOMAIN layers = 1..Len(layers) /\ tableFiles \in Seq(TableName)
      /\ job.name \in TableName
    BY DEF ControlInv, TypeOK, Job
<1>2. StateClean /\ NothingUnflushed /\ ReadsExact /\ JobEntries
    BY DEF MemInv
<1>3. History(log, k) = Get(k)
    BY <1>2 DEF ReadsExact, Expected, History
<1>4. CASE job.kind = "flush"
    <2>1. job.files = Append(tableFiles, job.name) /\ job.entries = pending
        BY <1>2, <1>4 DEF NamesInv, JobNames, JobEntries
    <2>2. Len(layers) = Len(tableFiles) /\ \A i \in 1..Len(layers) : layers[i] = tb[tableFiles[i]]
        BY <1>4 DEF LayersLoaded
    <2>3. Shown(tb, Append(tableFiles, job.name), k)
              = Strip(IF tb[job.name][k] # Absent THEN tb[job.name][k]
                      ELSE Newest(DOMAIN layers, layers, k))
        BY <1>1, <2>2, ShownAppend
    <2>4. tb[job.name][k] = pending[k]
        BY <2>1
    <2>5. pending[k] = Absent => state[k] = Absent
        BY <1>2 DEF NothingUnflushed
    <2> QED BY <1>3, <2>1, <2>3, <2>4, <2>5 DEF Get
<1>5. CASE job.kind # "flush"
    <2>1. job.files = <<job.name>> /\ job.entries = Materialize
        BY <1>2, <1>5 DEF NamesInv, JobNames, JobEntries
    <2>2. Shown(tb, job.files, k) = Strip(Materialize[k])
        BY <2>1, ShownOne
    <2>3. Materialize[k] = Get(k) /\ Strip(Get(k)) = Get(k)
        BY <1>2, MaterializeIs, GetClean
    <2> QED BY <1>3, <2>2, <2>3
<1> QED BY <1>4, <1>5

(* The table of a job overwrites no table of another content. *)
LEMMA DiskWriteTable ==
    ASSUME ControlInv, NamesInv, LogInv, MemInv, DiskInv, WriteTable PROVE DiskInv'
<1> USE DEF ControlInv, disk, memory, writer, past, history
<1>1. /\ up = "open" /\ fpc = "table" /\ fpc' = "manifest"
      /\ tables' = [n \in DOMAIN tables \cup {job.name} |->
                       IF n = job.name THEN job.entries ELSE tables[n]]
      /\ UNCHANGED <<manifest, manifestDurable, up, pending, layers, tableFiles, sequence, job,
                     log, replayed>>
    BY DEF WriteTable
<1>2. /\ tables'[job.name] = job.entries
      /\ \A n \in DOMAIN tables : n # job.name => tables'[n] = tables[n]
      /\ DOMAIN tables' = DOMAIN tables \cup {job.name}
    BY <1>1
<1>3. /\ tableFiles \in Seq(TableName) /\ layers \in Seq(Map) /\ sequence \in Nat
      /\ tables \in [DOMAIN tables -> Map] /\ job.entries \in Map
      /\ DOMAIN tableFiles = 1..Len(tableFiles) /\ DOMAIN layers = 1..Len(layers)
    BY DEF TypeOK, Job
<1>4. /\ Shaped(tableFiles) /\ Ascending(tableFiles)
      /\ \A i \in DOMAIN tableFiles : tableFiles[i] \in DOMAIN tables /\ tableFiles[i][1] <= sequence
      /\ tableFiles = <<CompactName(sequence)>> => pending = EmptyMap /\ state = EmptyMap
    BY <1>1 DEF NamesInv, LiveNames
<1>5. /\ job.kind = "flush" => /\ job.name = FlushName(sequence, Len(tableFiles))
                               /\ job.files = Append(tableFiles, job.name)
      /\ job.kind # "flush" => /\ job.kind = "compact" /\ job.name = CompactName(sequence)
                               /\ job.files = <<job.name>>
    BY <1>1 DEF NamesInv, JobNames, Early
<1>6. job.kind = "flush" => \A i \in 1..Len(tableFiles) : tableFiles[i] # job.name
    BY <1>3, <1>4, <1>5, FreshName
<1>7. job.kind = "flush" => \A i \in 1..Len(tableFiles) : tables'[tableFiles[i]] = tables[tableFiles[i]]
    BY <1>2, <1>3, <1>4, <1>6
<1>8. \A k \in Keys \ replayed : Shown(tables', job.files, k) = History(log, k)
    BY <1>1, <1>2, <1>7, JobShows DEF DiskInv, Early
<1>9. ASSUME NEW m \in {manifest, manifestDurable}, Holds(tables, m, log, replayed)
      PROVE  Holds(tables', m, log, replayed)
    <2>1. /\ m.files \in Seq(TableName) /\ DOMAIN m.files = 1..Len(m.files)
          /\ Shaped(m.files) /\ Ascending(m.files)
          /\ \A i \in DOMAIN m.files : m.files[i] \in DOMAIN tables /\ m.files[i][1] <= m.seq
                                       /\ m.files[i][1] \in Nat
          /\ m.seq \in Nat
        BY ManifestFiles
    <2>2. CASE \A i \in 1..Len(m.files) : m.files[i] # job.name
        <3>1. \A i \in 1..Len(m.files) : tables'[m.files[i]] = tables[m.files[i]]
            BY <1>2, <2>1, <2>2
        <3>2. \A k : Shown(tables', m.files, k) = Shown(tables, m.files, k)
            <4> DEFINE files == m.files
                       tc == tables'
            <4>1. files \in Seq(TableName) /\ \A i \in 1..Len(files) : tc[files[i]] = tables[files[i]]
                BY <2>1, <3>1
            <4> HIDE DEF files, tc
            <4>2. \A k : Shown(tc, files, k) = Shown(tables, files, k)
                BY ONLY <4>1, ShownSame
            <4> QED BY <4>2 DEF files, tc
        <3> QED BY <1>9, <3>2 DEF Holds
    <2>3. CASE ~ \A i \in 1..Len(m.files) : m.files[i] # job.name
        <3>1. PICK i \in DOMAIN m.files : m.files[i] = job.name
            BY <2>1, <2>3
        <3>2. m.files = job.files
            <4>1. CASE job.kind = "flush"
                <5>1. m.files = Flushed(tableFiles, sequence)
                    BY <1>1, <1>5, <3>1, <4>1 DEF DiskInv, Retried, Early
                <5> QED BY <1>5, <4>1, <5>1 DEF Flushed
            <4>2. CASE job.kind # "flush"
                <5>1. m.seq <= sequence
                    BY <1>1 DEF LogInv, TablesBehind, Counted
                <5>2. \A j \in DOMAIN m.files : m.files[j][1] <= sequence
                    BY <1>3, <2>1, <5>1
                <5>3. m.files[i] = CompactName(sequence)
                    BY <1>5, <3>1, <4>2
                <5>4. m.files = <<CompactName(sequence)>>
                    BY <1>3, <2>1, <5>2, <5>3, OnlyCompacted
                <5> QED BY <1>5, <4>2, <5>4
            <4> QED BY <4>1, <4>2
        <3> QED BY <1>8, <3>2 DEF Holds
    <2> QED BY <2>2, <2>3
<1>10. TablesExact'
    BY <1>1, <1>9 DEF DiskInv, TablesExact
<1>11. ASSUME NEW i \in 1..Len(tableFiles), tableFiles[i] = job.name
       PROVE  tables'[tableFiles[i]] = tables[tableFiles[i]]
    <2>1. job.kind # "flush" /\ job.name = CompactName(sequence)
        BY <1>5, <1>6, <1>11
    <2>2. tableFiles = <<CompactName(sequence)>>
        BY <1>3, <1>4, <1>11, <2>1, OnlyCompacted
    <2>3. pending = EmptyMap /\ state = EmptyMap /\ job.name \in DOMAIN tables
        BY <1>3, <1>4, <1>11, <2>2
    <2>4. job.entries = Materialize /\ Materialize \in Map
        BY <1>1, <1>3, <2>1 DEF MemInv, JobEntries, Early
    <2>5. ASSUME NEW k \in Keys PROVE Materialize[k] = tables[job.name][k]
        <3>1. Get(k) = Strip(Newest(DOMAIN layers, layers, k))
            BY <2>3 DEF Get, EmptyMap
        <3>2. Len(layers) = Len(tableFiles) /\ \A j \in 1..Len(layers) : layers[j] = tables[tableFiles[j]]
            BY <1>1 DEF DiskInv, LayersLoaded
        <3>3. Shown(tables, tableFiles, k) = Strip(Newest(DOMAIN layers, layers, k))
            BY <1>3, <3>2, ShownLayers
        <3>4. Shown(tables, <<job.name>>, k) = Strip(tables[job.name][k])
            BY ShownOne
        <3>5. job.name[2] = 1
            BY <2>1 DEF CompactName
        <3>6. tables[job.name][k] # Tombstone
            BY <2>3, <3>5 DEF DiskInv, CompactedClean
        <3>7. Strip(tables[job.name][k]) = tables[job.name][k]
            BY <3>6, StripIs
        <3>8. tableFiles = <<job.name>>
            BY <2>1, <2>2
        <3> QED BY <3>1, <3>3, <3>4, <3>7, <3>8, MaterializeIs
    <2>6. Materialize = tables[job.name]
        BY <1>3, <2>3, <2>4, <2>5 DEF Map
    <2> QED BY <1>2, <1>11, <2>4, <2>6
<1>12. LayersLoaded'
    <2>1. \A i \in 1..Len(tableFiles) : tables'[tableFiles[i]] = tables[tableFiles[i]]
        BY <1>2, <1>3, <1>4, <1>11
    <2> QED BY <1>1, <2>1 DEF DiskInv, LayersLoaded
<1>13. Retried'
    BY <1>1 DEF DiskInv, Retried, Early
<1>14. CompactedClean'
    <2>1. job.name[2] = 1 => \A k \in Keys : job.entries[k] # Tombstone
        <3>1. job.kind = "flush" => job.name[2] = 0
            BY <1>5 DEF FlushName
        <3>2. job.kind # "flush" => job.entries = Materialize
            BY <1>1 DEF MemInv, JobEntries, Early
        <3>3. \A k \in Keys : Materialize[k] # Tombstone
            BY <1>1, MaterializeIs, GetClean DEF MemInv
        <3> QED BY <3>1, <3>2, <3>3
    <2> QED BY <1>2, <2>1 DEF DiskInv, CompactedClean
<1> QED BY <1>10, <1>12, <1>13, <1>14 DEF DiskInv

(* Steps that change no file, no commit and nothing that is pending. *)
LEMMA DiskQuiet ==
    ASSUME DiskInv, UNCHANGED <<tables, manifest, manifestDurable, log, replayed>>
    PROVE  TablesExact' /\ CompactedClean'
BY DEF DiskInv, TablesExact, CompactedClean

(* A step that leaves the disk and the layers alone keeps the disk exact. *)
LEMMA DiskIdle ==
    ASSUME DiskInv, UNCHANGED <<tables, manifest, manifestDurable, log, replayed>>,
           up = "open", UNCHANGED <<up, pending, layers, tableFiles, sequence>>,
           fpc' \in Early /\ job'.kind = "flush" =>
               pending # EmptyMap \/ (fpc \in Early /\ job.kind = "flush")
    PROVE  DiskInv'
<1>1. LayersLoaded'
    BY DEF DiskInv, LayersLoaded
<1>2. Retried'
    BY DEF DiskInv, Retried
<1> QED BY <1>1, <1>2, DiskQuiet DEF DiskInv

(* No manifest names a table of a sequence beyond the commits. *)
LEMMA NotNamed ==
    ASSUME ControlInv, NamesInv, TablesBehind, NEW s \in Nat, s > Len(log), NEW c,
           NEW m \in {manifest, manifestDurable}, NEW i \in DOMAIN m.files
    PROVE  m.files[i] # FlushName(s, c)
<1>1. m.files[i][1] <= m.seq /\ m.files[i][1] \in Nat /\ m.seq \in Nat
    BY ManifestFiles
<1>2. m.seq <= Len(log) /\ Len(log) \in Nat
    BY DEF TablesBehind, ControlInv, TypeOK
<1>3. FlushName(s, c)[1] = s
    BY DEF FlushName
<1> QED BY <1>1, <1>2, <1>3

(* A commit unsettles the keys it touches, and takes a new sequence. *)
LEMMA DiskApply ==
    ASSUME ControlInv, NamesInv, LogInv, DiskInv, up = "open", ApplyGroup, group # <<>>,
           UNCHANGED <<tables, manifest, manifestDurable, up, layers, tableFiles>>
    PROVE  DiskInv'
<1> DEFINE e == GroupEffect(group)
           h == log \o group
<1>1. /\ log \in Seq(Map) /\ group \in Seq(Map) /\ Len(log) \in Nat /\ Len(group) \in Nat
      /\ Len(group) # 0 /\ DOMAIN group = 1..Len(group)
    BY BatchesAssumption DEF ControlInv, TypeOK
<1>2. /\ log' = h /\ replayed' = replayed \ Touched(e) /\ sequence' = sequence + Len(group)
    BY DEF ApplyGroup
<1>3. /\ h \in Seq(Map) /\ Len(h) = Len(log) + Len(group)
      /\ \A s \in 1..Len(log) : h[s] = log[s]
      /\ \A j \in 1..Len(group) : h[Len(log) + j] = group[j]
    BY <1>1, ConcatProperties
<1>4. sequence = Len(log)
    BY DEF LogInv, Counted
<1> HIDE DEF h, e
<1>5. ASSUME NEW m \in {manifest, manifestDurable}, Holds(tables, m, log, replayed)
      PROVE  Holds(tables, m, log', replayed')
    <2>1. m \in Manifest /\ m.seq \in Nat
        BY ManifestFiles
    <2>2. m.seq <= Len(log)
        BY DEF LogInv, TablesBehind
    <2>3. ASSUME NEW k \in Keys \ replayed', Settled(h, m.seq, k) PROVE k \notin replayed
        <3>1. \A j \in 1..Len(group) : Len(log) + j \in 1..Len(h) /\ Len(log) + j > m.seq
            BY <1>1, <1>3, <2>1, <2>2
        <3>2. \A j \in 1..Len(group) : group[j][k] = Absent
            BY <1>3, <2>3, <3>1 DEF Settled
        <3>3. e[k] = Absent
            <4> DEFINE J == DOMAIN group
            <4>1. Positions(J) /\ \A j \in J : group[j][k] = Absent
                BY <1>1, <3>2, ArePositions
            <4>2. e[k] = Newest(J, group, k)
                BY DEF e, GroupEffect
            <4> HIDE DEF J
            <4> QED BY <4>1, <4>2, NewestNone
        <3> QED BY <1>2, <2>3, <3>3 DEF Touched
    <2>4. Len(log) <= Len(h)
        BY <1>1, <1>3
    <2>5. Holds(tables, m, h, replayed')
        <3> DEFINE res == replayed'
        <3>1. \A k \in Keys \ res : Settled(h, m.seq, k) => k \notin replayed
            BY <2>3
        <3> HIDE DEF res
        <3>2. Holds(tables, m, h, res)
            BY <1>1, <1>3, <1>5, <2>1, <2>2, <2>4, <3>1, HoldsKept
        <3> QED BY <3>2 DEF res
    <2> QED BY <1>2, <2>5
<1>6. TablesExact'
    BY <1>5 DEF DiskInv, TablesExact
<1>7. LayersLoaded' /\ CompactedClean'
    BY DEF DiskInv, LayersLoaded, CompactedClean
<1>8. Retried'
    <2> SUFFICES ASSUME NEW m \in {manifest, manifestDurable}, NEW i \in DOMAIN m.files
                 PROVE  m.files[i] # FlushName(sequence', Len(tableFiles))
        BY DEF Retried
    <2>1. sequence' \in Nat /\ sequence' > Len(log)
        BY <1>1, <1>2, <1>4
    <2> QED BY <2>1, NotNamed DEF LogInv
<1> QED BY <1>6, <1>7, <1>8 DEF DiskInv

(* Group commits leave the tables alone. *)
LEMMA DiskWriter ==
    ASSUME ControlInv, NamesInv, LogInv, DiskInv, WriterNext PROVE DiskInv'
<1> USE DEF ControlInv, disk, memory, writer, past, history
<1>1. ASSUME NEW g \in Groups, WriterBegin(g) PROVE DiskInv'
    <2>1. /\ up = "open" /\ fpc = "idle"
          /\ UNCHANGED <<tables, manifest, manifestDurable, log, replayed, up, pending, layers,
                         tableFiles, sequence>>
        BY <1>1 DEF WriterBegin
    <2>2. fpc' \in Early => pending # EmptyMap
        <3>1. fpc' \in Early => PendingBytes(pending) >= 2 * MaxMemtableBytes
            BY <1>1, <2>1 DEF WriterBegin, Early
        <3>2. 2 * MaxMemtableBytes > 0 /\ MaxMemtableBytes \in Nat
            BY BoundsAssumption
        <3> QED BY <3>1, <3>2, EmptyHasNoBytes
    <2> QED BY <2>1, <2>2, DiskIdle
<1>2. ASSUME WriterWrite \/ WriterWriteFails \/ WriterWriteTorn \/ WriterSync \/ WriterSyncFails
             \/ WriterApplyFails
      PROVE  DiskInv'
    <2>1. /\ UNCHANGED <<tables, manifest, manifestDurable, log, replayed, up, pending, layers,
                         tableFiles, sequence>>
          /\ fpc' = fpc /\ up = "open"
        BY <1>2 DEF WriterWrite, WriterWriteFails, WriterWriteTorn, WriterSync, WriterSyncFails,
                    WriterApplyFails
    <2>2. fpc = "idle"
        BY <1>2 DEF WriterWrite, WriterWriteFails, WriterWriteTorn, WriterSync, WriterSyncFails,
                    WriterApplyFails, Exclusion
    <2>3. ~(fpc' \in Early)
        BY <2>1, <2>2 DEF Early
    <2> QED BY <2>1, <2>3, DiskIdle
<1>3. ASSUME WriterApply \/ WriterSpawnFails PROVE DiskInv'
    <2>1. /\ up = "open" /\ ApplyGroup /\ wpc = "apply"
          /\ UNCHANGED <<tables, manifest, manifestDurable, up, layers, tableFiles>>
        BY <1>3 DEF WriterApply, WriterSpawnFails
    <2>2. group # <<>>
        BY <2>1 DEF Exclusion
    <2> QED BY <2>1, <2>2, DiskApply
<1> QED BY <1>1, <1>2, <1>3 DEF WriterNext

(* Publishing, installing and giving up keep what the tables hold. *)
LEMMA DiskMaintenance ==
    ASSUME ControlInv, NamesInv, LogInv, MemInv, DiskInv, MaintenanceNext, "reload" \notin Faults
    PROVE  DiskInv'
<1> USE DEF ControlInv, disk, memory, writer, past, history
<1>1. ASSUME NEW by \in {"persist", "worker"}, BeginFlush(by) PROVE DiskInv'
    <2>1. /\ up = "open" /\ pending # EmptyMap
          /\ UNCHANGED <<tables, manifest, manifestDurable, log, replayed, up, pending, layers,
                         tableFiles, sequence>>
        BY <1>1 DEF BeginFlush
    <2> QED BY <2>1, DiskIdle
<1>2. ASSUME PersistNothing \/ BeginCompact \/ TruncateWal \/ SyncEmptyWal PROVE DiskInv'
    <2>1. /\ up = "open"
          /\ UNCHANGED <<tables, manifest, manifestDurable, log, replayed, up, pending, layers,
                         tableFiles, sequence>>
        BY <1>2 DEF PersistNothing, BeginCompact, TruncateWal, SyncEmptyWal
    <2>2. ~(fpc' \in Early /\ job'.kind = "flush")
        BY <1>2 DEF PersistNothing, BeginCompact, TruncateWal, SyncEmptyWal, CompactJob, Early
    <2> QED BY <2>1, <2>2, DiskIdle
<1>3. ASSUME WriteManifest PROVE DiskInv'
    <2>1. /\ up = "open" /\ fpc = "manifest" /\ fpc' = "dirsync" /\ manifest' = JobManifest
          /\ UNCHANGED <<tables, manifestDurable, log, replayed, up, pending, layers,
                         tableFiles, sequence, job>>
        BY <1>3 DEF WriteManifest, JobManifest
    <2>2. tables[job.name] = job.entries
        BY <2>1 DEF MemInv, JobEntries, Early
    <2>3. \A k \in Keys \ replayed : Shown(tables, job.files, k) = History(log, k)
        BY <2>1, <2>2, JobShows DEF DiskInv, Early
    <2>4. TablesExact'
        BY <2>1, <2>3 DEF DiskInv, TablesExact, Holds, JobManifest
    <2>5. LayersLoaded' /\ CompactedClean'
        BY <2>1 DEF DiskInv, LayersLoaded, CompactedClean
    <2>6. ASSUME NEW i \in DOMAIN job.files, job.files[i] = FlushName(sequence, Len(tableFiles))
          PROVE  job.files = Flushed(tableFiles, sequence)
        <3>1. CASE job.kind = "flush"
            BY <2>1, <3>1 DEF NamesInv, JobNames, Early, Flushed
        <3>2. CASE job.kind # "flush"
            <4>1. job.files = <<CompactName(sequence)>>
                BY <2>1, <3>2 DEF NamesInv, JobNames, Early
            <4>2. job.files[i] = CompactName(sequence)
                BY <4>1
            <4>3. CompactName(sequence)[2] = 1 /\ FlushName(sequence, Len(tableFiles))[2] = 0
                BY DEF CompactName, FlushName
            <4> QED BY <2>6, <4>2, <4>3
        <3> QED BY <3>1, <3>2
    <2>7. (up = "open" /\ (pending # EmptyMap \/ (fpc' \in Early /\ job.kind = "flush")))
          => (pending # EmptyMap \/ (fpc \in Early /\ job.kind = "flush"))
        BY <2>1 DEF Early
    <2>8. Retried'
        BY <2>1, <2>6, <2>7 DEF DiskInv, Retried, JobManifest
    <2> QED BY <2>4, <2>5, <2>8 DEF DiskInv
<1>4. ASSUME SyncDirectory PROVE DiskInv'
    <2>1. /\ up = "open" /\ fpc = "dirsync" /\ fpc' = "install" /\ manifestDurable' = manifest
          /\ UNCHANGED <<tables, manifest, log, replayed, up, pending, layers,
                         tableFiles, sequence, job>>
        BY <1>4 DEF SyncDirectory
    <2>2. TablesExact' /\ LayersLoaded' /\ CompactedClean'
        BY <2>1 DEF DiskInv, TablesExact, LayersLoaded, CompactedClean
    <2>3. Retried'
        BY <2>1 DEF DiskInv, Retried, Early
    <2> QED BY <2>2, <2>3 DEF DiskInv
<1>5. ASSUME Install PROVE DiskInv'
    <2>1. /\ up = "open" /\ fpc = "install" /\ fpc' = "setlen" /\ pending' = EmptyMap
          /\ tables' = TablesKept /\ tableFiles' = job.files
          /\ layers' = IF job.kind = "flush" THEN Append(layers, tables[job.name])
                       ELSE <<tables[job.name]>>
          /\ UNCHANGED <<manifest, manifestDurable, log, replayed, up, sequence, job>>
        BY <1>5 DEF Install
    <2>2. manifest.files = job.files /\ manifestDurable.files = job.files
        BY <2>1 DEF NamesInv, JobPublished, JobManifest
    <2>3. /\ DOMAIN TablesKept \subseteq DOMAIN tables
          /\ \A n \in DOMAIN TablesKept : TablesKept[n] = tables[n]
          /\ \A i \in DOMAIN job.files : job.files[i] \in DOMAIN TablesKept
        BY <2>1, KeptTables
    <2>4. job.files \in Seq(TableName) /\ DOMAIN job.files = 1..Len(job.files)
        BY DEF TypeOK, Job
    <2>5. \A i \in 1..Len(job.files) : tables'[job.files[i]] = tables[job.files[i]]
        BY <2>1, <2>3, <2>4
    <2>6. \A k : Shown(tables', job.files, k) = Shown(tables, job.files, k)
        <3> DEFINE files == job.files
                   tc == tables'
        <3>1. files \in Seq(TableName) /\ \A i \in 1..Len(files) : tc[files[i]] = tables[files[i]]
            BY <2>4, <2>5
        <3> HIDE DEF files, tc
        <3>2. \A k : Shown(tc, files, k) = Shown(tables, files, k)
            BY <3>1, ShownSame
        <3> QED BY <3>2 DEF files, tc
    <2>7. TablesExact'
        BY <2>1, <2>2, <2>6 DEF DiskInv, TablesExact, Holds
    <2>8. LayersLoaded'
        <3>1. Len(layers') = Len(job.files)
              /\ \A i \in 1..Len(layers') : layers'[i] = tables[job.files[i]]
            <4>1. CASE job.kind = "flush"
                <5>1. /\ job.files = Append(tableFiles, job.name)
                      /\ layers' = Append(layers, tables[job.name])
                    BY <2>1, <4>1 DEF NamesInv, JobNames, Early
                <5>2. /\ Len(layers) = Len(tableFiles) /\ Len(layers) \in Nat
                      /\ layers \in Seq(Map) /\ tableFiles \in Seq(TableName)
                      /\ \A i \in 1..Len(layers) : layers[i] = tables[tableFiles[i]]
                    BY <2>1 DEF DiskInv, LayersLoaded, TypeOK
                <5>3. /\ Len(layers') = Len(layers) + 1 /\ Len(job.files) = Len(layers) + 1
                      /\ layers'[Len(layers) + 1] = tables[job.name]
                      /\ job.files[Len(layers) + 1] = job.name
                      /\ \A i \in 1..Len(layers) : /\ layers'[i] = layers[i]
                                                   /\ job.files[i] = tableFiles[i]
                    BY <5>1, <5>2
                <5>4. \A i \in 1..(Len(layers) + 1) : i \in 1..Len(layers) \/ i = Len(layers) + 1
                    BY <5>2
                <5> QED BY <5>2, <5>3, <5>4
            <4>2. CASE job.kind # "flush"
                <5>1. job.files = <<job.name>> /\ layers' = <<tables[job.name]>>
                    BY <2>1, <4>2 DEF NamesInv, JobNames, Early
                <5> QED BY <5>1
            <4> QED BY <4>1, <4>2
        <3> QED BY <2>1, <2>5, <3>1 DEF LayersLoaded
    <2>9. Retried' /\ CompactedClean'
        BY <2>1, <2>3 DEF DiskInv, Retried, CompactedClean, Early
    <2> QED BY <2>7, <2>8, <2>9 DEF DiskInv
<1>6. ASSUME JobFails PROVE DiskInv'
    <2>1. fpc # "install"
        BY <1>6 DEF JobFails, Fault
    <2>2. /\ up = "open" /\ fpc # "idle" /\ fpc' = "idle" /\ pending' = Restored
          /\ UNCHANGED <<tables, manifest, manifestDurable, log, replayed, up, layers,
                         tableFiles, sequence>>
        BY <1>6, <2>1 DEF JobFails
    <2>3. fpc \in Early \cup Late
        BY <2>2 DEF TypeOK, Early, Late
    <2>4. LayersLoaded'
        BY <2>2 DEF DiskInv, LayersLoaded
    <2>5. Retried'
        <3>1. CASE fpc \in Early
            <4>1. pending' = pending
                BY <2>2, <3>1 DEF MemInv, JobEntries, Restored
            <4> QED BY <2>2, <4>1 DEF DiskInv, Retried, Early
        <3>2. CASE fpc \in Late
            <4>1. manifest.files = job.files /\ manifestDurable.files = job.files /\ tableFiles = job.files
                BY <3>2 DEF NamesInv, JobPublished, JobManifest, JobNames
            <4>2. tableFiles \in Seq(TableName) /\ Shaped(tableFiles) /\ DOMAIN tableFiles = 1..Len(tableFiles)
                BY <2>2 DEF TypeOK, NamesInv, LiveNames
            <4>3. \A i \in DOMAIN tableFiles : tableFiles[i] # FlushName(sequence, Len(tableFiles))
                BY <4>2, FreshName
            <4> QED BY <2>2, <4>1, <4>3 DEF Retried
        <3> QED BY <2>3, <3>1, <3>2
    <2> QED BY <2>2, <2>4, <2>5, DiskQuiet DEF DiskInv
<1> QED BY <1>1, <1>2, <1>3, <1>4, <1>5, <1>6, DiskWriteTable DEF MaintenanceNext

(* open() reads back from tables and WAL what the commits say, for every    *)
(* key that replay does not touch.                                          *)
LEMMA OpenReads ==
    ASSUME ControlInv, NamesInv, LogInv, DiskInv, Open PROVE MemInv' /\ DiskInv'
<1> USE DEF ControlInv, disk, memory, writer, past, history
<1> DEFINE A == Accepted(wal, manifest.seq)
           b == [i \in DOMAIN wal |-> wal[i].batch]
           h == log'
<1>1. /\ up' = "open" /\ fpc' = fpc /\ pending' = pending
      /\ tableFiles' = manifest.files
      /\ layers' = [i \in 1..Len(manifest.files) |-> tables[manifest.files[i]]]
      /\ state' = ReplayedState(wal, manifest.seq)
      /\ replayed' = replayed \cup UNION {Touched(wal[i].batch) : i \in A}
      /\ UNCHANGED <<manifest, manifestDurable, tables>>
    BY DEF Open
<1>2. fpc = "idle" /\ pending = EmptyMap
    BY DEF Open, Exclusion, NamesInv, DownIsEmpty
<1>3. /\ h \in Seq(Map) /\ Len(h) >= Len(log)
      /\ \A s \in 1..Len(log) : h[s] = log[s]
      /\ \A i \in A : wal[i].seq \in 1..Len(h) /\ h[wal[i].seq] = wal[i].batch
      /\ \A s \in 1..Len(h) : s > manifest.seq => \E i \in A : wal[i].seq = s
    BY OpenReplays
<1>4. /\ log \in Seq(Map) /\ wal \in Seq(Frame) /\ DOMAIN wal = 1..Len(wal) /\ Len(wal) \in Nat
      /\ manifest.files \in Seq(TableName) /\ Len(manifest.files) \in Nat
    BY DEF TypeOK, Manifest
<1>5. Positions(A) /\ A \subseteq DOMAIN wal
    <2>1. A \subseteq 1..Len(wal)
        BY <1>4 DEF Accepted, Readable
    <2> HIDE DEF A
    <2> QED BY <1>4, <2>1, ArePositions
<1>6. \A k \in Keys \ replayed' : k \notin replayed /\ \A i \in A : wal[i].batch[k] = Absent
    BY <1>1 DEF Touched
<1>7. \A k \in Keys : state'[k] = Strip(Newest(A, b, k))
    BY <1>1 DEF ReplayedState
<1>8. \A i \in A : b[i] = wal[i].batch
    BY <1>5
<1> HIDE DEF A, b, h
<1>9. ASSUME NEW k \in Keys \ replayed' PROVE state'[k] = Absent /\ pending'[k] = Absent
    <2>1. \A i \in A : b[i][k] = Absent
        BY <1>6, <1>8
    <2>2. Newest(A, b, k) = Absent
        BY <1>5, <2>1, NewestNone
    <2> QED BY <1>1, <1>2, <1>7, <2>2, StripIs DEF EmptyMap
<1>10. StateClean' /\ NothingUnflushed'
    BY <1>7, <1>9, StripIs DEF StateClean, NothingUnflushed
<1>11. ASSUME NEW m \in {manifest, manifestDurable}, Holds(tables, m, log, replayed)
       PROVE  Holds(tables, m, h, replayed')
    <2> DEFINE res == replayed'
    <2>1. m \in Manifest /\ m.seq <= Len(log) /\ Len(log) <= Len(h)
        BY <1>3, <1>4, ManifestFiles DEF LogInv, TablesBehind
    <2>2. \A k \in Keys \ res : Settled(h, m.seq, k) => k \notin replayed
        BY <1>6
    <2> HIDE DEF res
    <2>3. Holds(tables, m, h, res)
        BY <1>3, <1>4, <1>11, <2>1, <2>2, HoldsKept
    <2> QED BY <2>3 DEF res
<1>12. TablesExact'
    BY <1>1, <1>11 DEF DiskInv, TablesExact, h
<1>13. ReadsExact'
    <2> SUFFICES ASSUME NEW k \in Keys \ replayed' PROVE Get(k)' = Expected(k)'
        BY DEF ReadsExact
    <2>1. Settled(h, manifest.seq, k)
        <3> SUFFICES ASSUME NEW s \in 1..Len(h), s > manifest.seq PROVE h[s][k] = Absent
            BY DEF Settled
        <3>1. PICK i \in A : wal[i].seq = s
            BY <1>3
        <3> QED BY <1>3, <1>6, <3>1
    <2>2. Shown(tables, manifest.files, k) = History(h, k)
        BY <1>11, <2>1 DEF DiskInv, TablesExact, Holds
    <2>3. Get(k)' = Strip(Newest(DOMAIN layers', layers', k))
        BY <1>9 DEF Get
    <2>4. layers' = Loaded(tables, manifest.files) /\ DOMAIN layers' = 1..Len(manifest.files)
        BY <1>1 DEF Loaded
    <2>5. Get(k)' = Shown(tables, manifest.files, k)
        BY <2>3, <2>4 DEF Shown
    <2> QED BY <2>2, <2>5 DEF Expected, History, h
<1>14. JobEntries'
    BY <1>1, <1>2 DEF JobEntries, Early, Late
<1>15. LayersLoaded'
    <2>1. layers' \in Seq(Map)
        <3>1. \A i \in 1..Len(manifest.files) : manifest.files[i] \in DOMAIN tables
            BY <1>4, ManifestFiles
        <3>2. \A i \in 1..Len(manifest.files) : tables[manifest.files[i]] \in Map
            BY <3>1 DEF TypeOK
        <3> QED BY <1>1, <1>4, <3>2
    <2>2. Len(layers') = Len(manifest.files)
        BY <1>1, <1>4, <2>1
    <2> QED BY <1>1, <2>2 DEF LayersLoaded
<1>16. Retried'
    BY <1>1, <1>2 DEF Retried, Early
<1>17. CompactedClean'
    BY <1>1 DEF DiskInv, CompactedClean
<1> QED BY <1>10, <1>12, <1>13, <1>14, <1>15, <1>16, <1>17 DEF MemInv, DiskInv

(* Going down keeps the tables and one of the manifests. *)
LEMMA DiskDown ==
    ASSUME DiskInv, Crash \/ Close \/ RemoveLock PROVE DiskInv'
<1>1. /\ up' # "open" /\ UNCHANGED <<tables, log, replayed>>
      /\ manifest' \in {manifest, manifestDurable} /\ manifestDurable' \in {manifest, manifestDurable}
    BY DEF Crash, Close, RemoveLock, disk, past, history
<1>2. TablesExact' /\ CompactedClean'
    BY <1>1 DEF DiskInv, TablesExact, CompactedClean
<1> QED BY <1>1, <1>2 DEF DiskInv, LayersLoaded, Retried

(* Nothing is on disk at first. *)
LEMMA DiskInit == Init => DiskInv
<1> SUFFICES ASSUME Init PROVE DiskInv
    OBVIOUS
<1>1. /\ manifest = [files |-> <<>>, seq |-> 0] /\ manifestDurable = manifest
      /\ DOMAIN tables = {} /\ log = <<>> /\ layers = <<>> /\ tableFiles = <<>>
    BY DEF Init
<1>2. manifest.files = <<>> /\ manifestDurable.files = <<>>
    BY <1>1
<1>3. \A k \in Keys : Shown(tables, <<>>, k) = Strip(Absent) /\ History(log, k) = Strip(Absent)
    <2>1. Len(<<>>) = 0 /\ 1..0 = {} /\ DOMAIN log = {}
        BY <1>1
    <2>2. \A f, k : Newest({}, f, k) = Absent
        BY DEF Newest
    <2> QED BY <2>1, <2>2 DEF Shown, History
<1>4. TablesExact
    BY <1>2, <1>3 DEF TablesExact, Holds
<1>5. LayersLoaded
    BY <1>1 DEF LayersLoaded
<1>6. Retried
    BY <1>2 DEF Retried
<1>7. CompactedClean
    BY <1>1 DEF CompactedClean
<1> QED BY <1>4, <1>5, <1>6, <1>7 DEF DiskInv

(* Nothing changes when nothing happens. *)
LEMMA ReadsStutter ==
    ASSUME MemInv, DiskInv, UNCHANGED vars PROVE MemInv' /\ DiskInv'
<1>1. UNCHANGED <<up, state, pending, layers, log, replayed, fpc, job, tables, manifest,
                  manifestDurable, tableFiles, sequence>>
    BY DEF vars, disk, memory, past, history
<1>2. Materialize' = Materialize
    BY <1>1 DEF Materialize
<1>3. up = "open" => JobEntries'
    BY <1>1, <1>2 DEF MemInv, JobEntries
<1>4. MemInv'
    BY <1>1, <1>3, MemQuiet DEF MemInv
<1>5. LayersLoaded' /\ Retried'
    BY <1>1 DEF DiskInv, LayersLoaded, Retried
<1> QED BY <1>1, <1>4, <1>5, DiskQuiet DEF DiskInv

(* What the engine guarantees when these I/O errors do not strike. *)
SafeReads == SafeLog /\ "reload" \notin Faults

ReadsInv == NamesInv /\ LogInv /\ MemInv /\ DiskInv

(* The files, the log, the memory and the tables, together, are inductive. *)
LEMMA ReadsNext ==
    ASSUME ControlInv, ReadsInv, SafeReads, [Next]_vars PROVE ReadsInv'
<1>1. LogInv'
    BY LogNext DEF ReadsInv, SafeReads
<1>2. CASE UNCHANGED vars
    <2>1. NamesInv'
        BY <1>2, NamesQuiet DEF vars, disk, memory, ReadsInv
    <2> QED BY <1>1, <1>2, <2>1, ReadsStutter DEF ReadsInv
<1>3. CASE WriterNext
    BY <1>1, <1>3, NamesWriter, MemWriter, DiskWriter DEF ReadsInv
<1>4. CASE MaintenanceNext
    BY <1>1, <1>4, NamesMaintenance, MemMaintenance, DiskMaintenance DEF ReadsInv, SafeReads
<1>5. CASE LifecycleNext
    <2>1. NamesInv'
        BY <1>5, NamesLifecycle DEF ReadsInv
    <2>2. CASE Open
        BY <1>1, <2>1, <2>2, OpenReads DEF ReadsInv
    <2>3. CASE Crash \/ Close \/ RemoveLock
        BY <1>1, <2>1, <2>3, MemDown, DiskDown DEF ReadsInv
    <2> QED BY <1>5, <2>2, <2>3 DEF LifecycleNext
<1> QED BY <1>2, <1>3, <1>4, <1>5 DEF Next

(* The invariants of this module hold throughout. *)
THEOREM ReadsCorrect == SafeReads => (Spec => []ReadsInv)
<1> SUFFICES ASSUME SafeReads PROVE Spec => []ReadsInv
    OBVIOUS
<1>1. Init => ReadsInv
    BY NamesInit, LogInit, MemInit, DiskInit DEF ReadsInv
<1> QED BY <1>1, ReadsNext, ControlCorrect, PTL DEF Spec

(* Every read of a key that was not last written by a replayed frame is     *)
(* exact, in every incarnation of the database, for any number of crashes   *)
(* and reopens, and no sequence is used for two commits.                    *)
THEOREM ReadsAreExact == SafeReads => (Spec => []UnreplayedKeysExact)
<1> SUFFICES ASSUME SafeReads PROVE Spec => []UnreplayedKeysExact
    OBVIOUS
<1>1. ReadsInv => UnreplayedKeysExact
    BY DEF ReadsInv, LogInv, Counted, MemInv, ReadsExact, UnreplayedKeysExact
<1> QED BY <1>1, ReadsCorrect, PTL

(* open() also brings back every key whose newest replayed operation is a   *)
(* put: what replay_wal leaves in state is the newest commit.               *)
THEOREM RecoveryBringsPutsBack == SafeReads => (Spec => RecoveryExactForPuts)
<1> SUFFICES ASSUME SafeReads PROVE Spec => RecoveryExactForPuts
    OBVIOUS
<1> DEFINE Back(k) == (k \notin replayed' \/ state'[k] # Absent) => Get(k)' = Expected(k)'
<1>1. ASSUME ControlInv, ReadsInv, Open, NEW k \in Keys PROVE Back(k)
    <2> USE <1>1 DEF ReadsInv
    <2>1. CASE k \notin replayed'
        <3>1. MemInv' /\ up' = "open"
            BY OpenReads DEF Open
        <3> QED BY <2>1, <3>1 DEF MemInv, ReadsExact
    <2>2. CASE k \in replayed' /\ state'[k] # Absent
        <3> DEFINE A == Accepted(wal, manifest.seq)
                   b == [i \in DOMAIN wal |-> wal[i].batch]
                   h == log'
        <3>1. /\ wal \in Seq(Frame) /\ DOMAIN wal = 1..Len(wal) /\ Len(wal) \in Nat
              /\ manifest.seq \in Nat /\ Chained(wal)
            BY DEF ControlInv, TypeOK, Manifest, LogInv, Recoverable, Complete
        <3>2. A = {i \in 1..Len(wal) : wal[i].seq > manifest.seq}
            BY <3>1, AcceptedFrames
        <3>3. Positions(A) /\ A \subseteq 1..Len(wal) /\ \A i \in A : wal[i].seq > manifest.seq
            <4>1. A \subseteq 1..Len(wal) /\ \A i \in A : wal[i].seq > manifest.seq
                BY <3>2
            <4> HIDE DEF A
            <4> QED BY <3>1, <4>1, ArePositions
        <3>4. \A i \in A : b[i] = wal[i].batch
            BY <3>1, <3>3
        <3>5. /\ h \in Seq(Map) /\ Len(h) \in Nat
              /\ \A i \in A : wal[i].seq \in 1..Len(h) /\ h[wal[i].seq] = wal[i].batch
              /\ \A s \in 1..Len(h) : s > manifest.seq => \E i \in A : wal[i].seq = s
            BY OpenReplays
        <3>6. state'[k] = Strip(Newest(A, b, k))
            BY DEF Open, ReplayedState
        <3>7. Get(k)' = state'[k]
            <4>1. pending'[k] = Absent
                BY DEF Open, NamesInv, DownIsEmpty, EmptyMap
            <4> QED BY <2>2, <4>1 DEF Get
        <3> HIDE DEF A, b, h
        <3>8. Newest(A, b, k) # Absent
            BY <2>2, <3>6, StripIs
        <3>9. PICK i \in A : /\ b[i][k] # Absent /\ Newest(A, b, k) = b[i][k]
                             /\ \A j \in A : j > i => b[j][k] = Absent
            <4>1. Positions(A)
                BY <3>3
            <4> QED BY ONLY <4>1, <3>8, NewestWhich
        <3> DEFINE s == wal[i].seq
        <3>10. s \in 1..Len(h) /\ h[s][k] = b[i][k] /\ s > manifest.seq /\ s \in Nat
            BY <3>3, <3>4, <3>5
        <3>11. ASSUME NEW r \in 1..Len(h), r > s PROVE h[r][k] = Absent
            <4>1. r > manifest.seq
                BY <3>1, <3>5, <3>10, <3>11
            <4>2. PICK j \in A : wal[j].seq = r
                BY <3>5, <4>1
            <4>3. /\ i \in 1..Len(wal) /\ j \in 1..Len(wal) /\ 1 \in 1..Len(wal)
                BY <3>1, <3>3
            <4>4. s = wal[1].seq + i - 1 /\ r = wal[1].seq + j - 1 /\ wal[1].seq \in Nat
                BY <3>1, <4>2, <4>3, FrameFields DEF Chained
            <4>5. j > i
                <5> DEFINE a == wal[1].seq
                <5>1. s = a + i - 1 /\ r = a + j - 1 /\ a \in Nat /\ i \in Nat /\ j \in Nat /\ r > s
                    BY <3>11, <4>3, <4>4
                <5> HIDE DEF a, s
                <5> QED BY <5>1
            <4>6. b[j][k] = Absent
                BY <3>9, <4>5
            <4> QED BY <3>4, <3>5, <4>2, <4>6
        <3>12. Newest(DOMAIN h, h, k) = h[s][k]
            <4> DEFINE H == DOMAIN h
            <4>0. H = 1..Len(h)
                BY <3>5
            <4>a. Positions(H)
                <5>1. H \subseteq 1..Len(h) /\ Len(h) \in Nat
                    BY <3>5, <4>0
                <5> HIDE DEF H
                <5> QED BY ONLY <5>1, ArePositions
            <4>1. Positions(H) /\ s \in H /\ H = 1..Len(h)
                BY <3>10, <4>0, <4>a
            <4>2. h[s][k] # Absent /\ \A r \in H : r > s => h[r][k] = Absent
                BY <3>9, <3>10, <3>11, <4>1
            <4> HIDE DEF H, s
            <4> QED BY <4>1, <4>2, NewestIs
        <3>13. Expected(k)' = Strip(Newest(DOMAIN h, h, k))
            BY DEF Expected, h
        <3> QED BY <3>6, <3>7, <3>9, <3>10, <3>12, <3>13
    <2> QED BY <2>1, <2>2
<1>2. ASSUME ControlInv, ReadsInv
      PROVE  [Open => \A k \in Keys : Back(k)]_vars
    BY <1>1, <1>2
<1> QED BY <1>2, ReadsCorrect, ControlCorrect, PTL DEF RecoveryExactForPuts
===============================================================================
