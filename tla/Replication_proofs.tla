-------------------------- MODULE Replication_proofs --------------------------
(***************************************************************************)
(* Proofs about Replication, for every set of keys, bodies and clients,    *)
(* every page size and a log of any length: the variables keep their       *)
(* types, the replica's checkpoint never moves back, and a replica whose   *)
(* checkpoint is the end of the log is the replay of that log over its     *)
(* last snapshot, with every event of it once.                             *)
(*                                                                         *)
(* The argument.  A batch that was cut short leaves some objects ahead of  *)
(* the checkpoint, and the batch sent again takes them back and forward    *)
(* once more, so no single prefix of the log describes the replica.  What  *)
(* is invariant is weaker: every key on its own is what SOME prefix of the *)
(* log makes of it, a prefix no shorter than the checkpoint (Ahead).  When *)
(* the checkpoint is the end of the log only one prefix is left.  It rests *)
(* on the pages: each is a run of cursors without a gap that begins at     *)
(* most one past the checkpoint, although retention trims the log, `sync`  *)
(* may be reset and pages arrive late (RequestsFit).                       *)
(***************************************************************************)
EXTENDS Replication, FiniteSetTheorems, WellFoundedInduction, TLAPS

(* The conditions the results are proved under, those of the run: no        *)
(* snapshot arrives after `sync` gave it up, and retention leaves the       *)
(* newest change in the log.                                                *)
Orderly == KeepsLast /\ "snapshot" \notin Late

Values == Bodies \cup {None}
Contents == [Keys -> Values]

(* A change as the record_* functions make it. *)
Changes ==
    {Upsert(k, b) : k \in Keys \cup {Elsewhere}, b \in Values}
      \cup {Delete(k) : k \in Keys} \cup {Appended(e) : e \in Nat}

(* An event the replica has appended; key 0 of no origin stands for none.   *)
Marks == {"none", "own", "change"} \X Nat
Replicas ==
    [obj : Contents, prov : SUBSET Keys, cursor : Nat, conflicts : SUBSET Nat,
     events : Seq([event : Nat, key : Marks])]

Snapshots == [cursor : Nat, at : Nat, objects : Contents, events : Seq(BOOLEAN)]

(* A page: consecutive cursors. *)
Pages == {p \in Seq(Nat) : p # <<>> /\ \A i \in DOMAIN p : p[i] = p[1] + i - 1}
Requests ==
    [kind : {"page"}, page : Pages]
      \cup [kind : {"snapshot"}, snap : Snapshots, replace : BOOLEAN]

Types ==
    /\ src \in Contents /\ events \in Seq(BOOLEAN) /\ log \in Seq(Changes)
    /\ first \in Nat \ {0} /\ reported \in Nat /\ pending \in [Clients -> Seq(Changes)]
    /\ rep \in Replicas
    /\ cli.cursor \in Nat /\ DOMAIN cli = {"cursor", "wait"}
    /\ cli.wait # None => cli.wait \in Requests
    /\ late # None => late \in [kind : {"page"}, page : Pages]
    /\ basis \in [obj : Contents, at : Nat] /\ broken \in BOOLEAN

(* Retention stays behind the checkpoint that was reported, that one behind *)
(* the replica's, and so does the cursor of the configuration.              *)
CursorsOrdered ==
    /\ first <= reported + 1 /\ reported <= rep.cursor /\ rep.cursor <= Len(log)
    /\ cli.cursor <= rep.cursor /\ basis.at <= rep.cursor
    /\ first <= Len(log) \/ Len(log) = 0
    /\ rep.conflicts \subseteq 1..Len(log)

(* A page on its way leaves no gap after the checkpoint. *)
PageFits(p) == p[1] >= 1 /\ p[1] <= rep.cursor + 1 /\ p[Len(p)] <= Len(log)

(* A snapshot on its way is of a time no earlier than the checkpoint, and   *)
(* than any page that is late.                                              *)
SnapshotFits(s) ==
    /\ s.cursor = s.at /\ rep.cursor <= s.cursor /\ s.cursor <= Len(log)
    /\ late # None => late.page[Len(late.page)] <= s.cursor

RequestsFit ==
    /\ cli.wait # None /\ cli.wait.kind = "page" => PageFits(cli.wait.page)
    /\ cli.wait # None /\ cli.wait.kind = "snapshot" => SnapshotFits(cli.wait.snap)
    /\ late # None => PageFits(late.page)

(* v is what the changes up to n make of key k. *)
ValueAt(k, n, v) ==
    \/ v = basis.obj[k] /\ \A c \in (basis.at + 1)..n : log[c].key # k
    \/ \E c \in (basis.at + 1)..n :
          log[c].key = k /\ v = log[c].body /\ \A d \in (c + 1)..n : log[d].key # k

(* Each key is what some prefix no shorter than m made of it. *)
AheadOf(R, m) == \A k \in Keys : \E n \in m..Len(log) : ValueAt(k, n, R.obj[k])
Ahead == ~broken => AheadOf(rep, rep.cursor)

(* Events that carry the mark of a change are of that change, one of each.  *)
MarksRight(R) ==
    /\ \A i \in DOMAIN R.events : R.events[i].key[1] = "change" =>
          /\ R.events[i].key[2] \in 1..Len(log)
          /\ R.events[i].event = log[R.events[i].key[2]].event
    /\ \A i, j \in DOMAIN R.events :
          R.events[i].key[1] = "change" /\ R.events[i].key = R.events[j].key => i = j

(* Every event up to m since the last snapshot is there. *)
EventsTo(R, m) ==
    \A c \in (basis.at + 1)..m : log[c].op = "event.append" => HasKey(R, <<"change", c>>)
EventsThere == MarksRight(rep) /\ EventsTo(rep, rep.cursor)

(* The inductive invariant. *)
Inv == Types /\ CursorsOrdered /\ RequestsFit /\ Ahead /\ EventsThere

-----------------------------------------------------------------------------
(* Numbers, sequences and changes. *)

(* Every nonempty set of naturals has a least member. *)
LEMMA LeastNumber ==
    ASSUME NEW S \in SUBSET Nat, S # {}
    PROVE  \E m \in S : \A n \in S : m <= n
<1>1. PICK m \in S : \A n \in S : ~ (<<n, m>> \in OpToRel(<, Nat))
  <2>1. IsWellFoundedOn(OpToRel(<, Nat), Nat)
    BY NatLessThanWellFounded
  <2> QED
    BY <2>1, WFMin
<1>2. \A n \in S : ~(n < m)
  BY <1>1 DEF OpToRel
<1> QED
  BY <1>2

(* SetToSeq lists a set of keys. *)
LEMMA SetToSeqLists ==
    ASSUME NEW S \in SUBSET Keys
    PROVE  SetToSeq(S) \in Seq(S)
<1>1. IsFiniteSet(S)
  BY ReplicationConstants, FS_Subset
<1>2. Cardinality(S) \in Nat /\ ExistsBijection(1..Cardinality(S), S)
  BY <1>1, FS_CardinalityType
<1>3. PICK f \in [1..Cardinality(S) -> S] : IsInjective(f)
  BY <1>2 DEF ExistsBijection, Bijection, Injection, IsInjective
<1>4. SetToSeq(S) \in [1..Cardinality(S) -> S]
  BY <1>3 DEF SetToSeq
<1> QED
  BY <1>2, <1>4

(* What a change says. *)
LEMMA ChangeForms ==
    ASSUME NEW e \in Changes
    PROVE  /\ e.op \in {"object.upsert", "object.delete", "event.append"}
           /\ e.op = "object.upsert" => e.key \in Keys \cup {Elsewhere} /\ e.body \in Values
           /\ e.op = "object.delete" => e.key \in Keys /\ e.body = None
           /\ e.op = "event.append" => e.key = None
           /\ e.event \in Nat
BY DEF Changes, Upsert, Delete, Appended, Values

(* The changes of a write are changes. *)
LEMMA ChangesMade ==
    /\ \A k \in Keys \cup {Elsewhere}, b \in Values : Upsert(k, b) \in Changes
    /\ \A k \in Keys : Delete(k) \in Changes
    /\ \A e \in Nat : Appended(e) \in Changes
BY DEF Changes

(* A batch of puts logs a list of changes, and so does one of deletes. *)
LEMMA BatchPuts ==
    ASSUME NEW f \in [Keys -> Bodies], NEW ks, ks = SetToSeq(Keys)
    PROVE  [i \in DOMAIN ks |-> Upsert(ks[i], f[ks[i]])] \in Seq(Changes)
<1>1. ks \in Seq(Keys)
  BY SetToSeqLists
<1>2. DOMAIN ks = 1..Len(ks) /\ Len(ks) \in Nat /\ \A i \in 1..Len(ks) : ks[i] \in Keys
  BY <1>1
<1>3. \A i \in 1..Len(ks) : Upsert(ks[i], f[ks[i]]) \in Changes
  BY <1>2, ChangesMade DEF Values
<1> QED
  BY <1>2, <1>3

(* The deletes. *)
LEMMA BatchDeletes ==
    ASSUME NEW S \in SUBSET Keys, NEW ks, ks = SetToSeq(S)
    PROVE  [i \in DOMAIN ks |-> Delete(ks[i])] \in Seq(Changes)
<1>1. ks \in Seq(S)
  BY SetToSeqLists
<1>2. DOMAIN ks = 1..Len(ks) /\ Len(ks) \in Nat /\ \A i \in 1..Len(ks) : ks[i] \in Keys
  BY <1>1
<1>3. \A i \in 1..Len(ks) : Delete(ks[i]) \in Changes
  BY <1>2, ChangesMade
<1> QED
  BY <1>2, <1>3

(* The log only grows, by changes. *)
Grown ==
    /\ log' \in Seq(Changes) /\ Len(log) <= Len(log')
    /\ \A i \in 1..Len(log) : log'[i] = log[i]

(* record_change, once for each change of a write, until one fails. *)
LEMMA RecordGrows ==
    ASSUME log \in Seq(Changes), NEW changes \in Seq(Changes), Record(changes)
    PROVE  Grown
<1>1. ASSUME NEW more \in Seq(Changes), log' = log \o more PROVE Grown
  BY <1>1 DEF Grown
<1>2. CASE log' = log \o changes
  BY <1>1, <1>2
<1>3. CASE \E n \in 0..(Len(changes) - 1) : log' = log \o SubSeq(changes, 1, n)
  <2>1. PICK n \in 0..(Len(changes) - 1) : log' = log \o SubSeq(changes, 1, n)
    BY <1>3
  <2>2. SubSeq(changes, 1, n) \in Seq(Changes)
    <3>1. n \in Nat /\ n <= Len(changes)
      OBVIOUS
    <3> QED
      BY <3>1
  <2> QED
    BY <1>1, <2>1, <2>2
<1> QED
  BY <1>2, <1>3 DEF Record, Odd

-----------------------------------------------------------------------------
(* What a longer log leaves true. *)

(* What a prefix makes of a key. *)
LEMMA ValueAtGrown ==
    ASSUME Types, Grown, UNCHANGED basis, NEW k \in Keys, NEW n \in 0..Len(log), NEW v,
           ValueAt(k, n, v)
    PROVE  ValueAt(k, n, v)'
<1>1. basis.at \in Nat /\ Len(log) \in Nat /\ n \in Nat /\ n <= Len(log)
  BY DEF Types
<1>2. \A c \in (basis.at + 1)..n : log'[c] = log[c]
  BY <1>1 DEF Grown
<1>3. \A c \in (basis.at + 1)..n : \A d \in (c + 1)..n : log'[d] = log[d]
  BY <1>1 DEF Grown
<1> QED
  BY <1>2, <1>3 DEF ValueAt

(* A step of the source that only adds to the log. *)
LEMMA SourceStep ==
    ASSUME Inv, Grown, UNCHANGED <<first, reported, rep, cli, late, basis, broken>>,
           src' \in Contents, events' \in Seq(BOOLEAN), pending' \in [Clients -> Seq(Changes)]
    PROVE  Inv'
<1> USE DEF Inv
<1>1. Len(log) \in Nat /\ Len(log') \in Nat /\ Len(log) <= Len(log')
  BY DEF Types, Grown
<1>2. Types'
  BY DEF Types, Grown
<1>3. CursorsOrdered'
  <2>1. rep.cursor \in Nat /\ cli.cursor \in Nat /\ reported \in Nat /\ first \in Nat \ {0}
    BY DEF Types, Replicas
  <2> QED
    BY <1>1, <2>1 DEF CursorsOrdered, Types
<1>4. ASSUME NEW p \in Pages, PageFits(p) PROVE PageFits(p)'
  <2>1. p[Len(p)] \in Nat
    BY DEF Pages
  <2> QED
    BY <1>1, <1>4, <2>1 DEF PageFits
<1>5. ASSUME NEW s \in Snapshots, SnapshotFits(s) PROVE SnapshotFits(s)'
  BY <1>1, <1>5 DEF SnapshotFits, Snapshots
<1>6. RequestsFit'
  <2>1. cli.wait # None /\ cli.wait.kind = "page" => cli.wait.page \in Pages
    BY DEF Types, Requests
  <2>2. cli.wait # None /\ cli.wait.kind = "snapshot" => cli.wait.snap \in Snapshots
    BY DEF Types, Requests
  <2>3. late # None => late.page \in Pages
    BY DEF Types
  <2> QED
    BY <1>4, <1>5, <2>1, <2>2, <2>3 DEF RequestsFit, PageFits, SnapshotFits
<1>7. Ahead'
  <2> SUFFICES ASSUME ~broken, NEW k \in Keys
               PROVE  \E n \in rep.cursor..Len(log') : ValueAt(k, n, rep.obj[k])'
    BY DEF Ahead, AheadOf
  <2>1. PICK n \in rep.cursor..Len(log) : ValueAt(k, n, rep.obj[k])
    BY DEF Ahead, AheadOf
  <2>2. rep.cursor \in Nat
    BY DEF Types, Replicas
  <2>3. n \in 0..Len(log) /\ n \in rep.cursor..Len(log')
    BY <1>1, <2>2
  <2>4. ValueAt(k, n, rep.obj[k])'
    BY <2>1, <2>3, ValueAtGrown
  <2> QED
    BY <2>3, <2>4
<1>8. EventsThere'
  <2>1. MarksRight(rep)'
    BY <1>1 DEF EventsThere, MarksRight, Grown
  <2>2. EventsTo(rep, rep.cursor)'
    <3>1. \A c \in (basis.at + 1)..rep.cursor : log'[c] = log[c]
      BY <1>1 DEF Types, Replicas, CursorsOrdered, Grown
    <3> QED
      BY <3>1 DEF EventsThere, EventsTo, HasKey
  <2> QED
    BY <2>1, <2>2 DEF EventsThere
<1> QED
  BY <1>2, <1>3, <1>6, <1>7, <1>8

-----------------------------------------------------------------------------
(* The writes of the source. *)

(* A REST write and its change are one step. *)
LEMMA WritesInv ==
    ASSUME Inv, Writes
    PROVE  Inv'
<1>0. /\ log \in Seq(Changes) /\ src \in Contents /\ events \in Seq(BOOLEAN)
      /\ pending \in [Clients -> Seq(Changes)] /\ Len(events) + 1 \in Nat
  BY DEF Inv, Types
<1>1. ASSUME NEW k \in Keys, DeleteObject(k) PROVE Inv'
  <2>1. <<Delete(k)>> \in Seq(Changes)
    BY ChangesMade
  <2>2. Grown
    BY <1>0, <1>1, <2>1, RecordGrows DEF DeleteObject
  <2>3. src' \in Contents
    BY <1>0, <1>1 DEF DeleteObject, Contents, Values
  <2> QED
    BY <1>0, <1>1, <2>2, <2>3, SourceStep DEF DeleteObject, Replica
<1>2. ASSUME NEW k \in Keys, NEW b \in Bodies, PutObject(k, b) PROVE Inv'
  <2>1. <<Upsert(k, b)>> \in Seq(Changes)
    <3>1. Upsert(k, b) \in Changes
      BY ChangesMade DEF Values
    <3> QED
      BY <3>1
  <2>2. Grown
    BY <1>0, <1>2, <2>1, RecordGrows DEF PutObject
  <2>3. src' \in Contents
    BY <1>0, <1>2 DEF PutObject, Contents, Values
  <2> QED
    BY <1>0, <1>2, <2>2, <2>3, SourceStep DEF PutObject, Replica
<1>3. ASSUME PutElsewhere PROVE Inv'
  <2>1. <<Upsert(Elsewhere, None)>> \in Seq(Changes)
    <3>1. Upsert(Elsewhere, None) \in Changes
      BY ChangesMade DEF Values
    <3> QED
      BY <3>1
  <2>2. Grown
    BY <1>0, <1>3, <2>1, RecordGrows DEF PutElsewhere
  <2> QED
    BY <1>0, <1>3, <2>2, SourceStep DEF PutElsewhere, Replica
<1>4. ASSUME NEW f \in [Keys -> Bodies], PutBatch(f) PROVE Inv'
  <2>1. PICK ks : ks = SetToSeq(Keys)
    OBVIOUS
  <2>2. [i \in DOMAIN ks |-> Upsert(ks[i], f[ks[i]])] \in Seq(Changes)
    BY <2>1, BatchPuts
  <2>3. Record([i \in DOMAIN ks |-> Upsert(ks[i], f[ks[i]])])
    BY <1>4, <2>1 DEF PutBatch
  <2>4. Grown
    BY <1>0, <2>2, <2>3, RecordGrows
  <2>5. src' \in Contents
    BY <1>4 DEF PutBatch, Contents, Values
  <2> QED
    BY <1>0, <1>4, <2>4, <2>5, SourceStep DEF PutBatch, Replica
<1>5. ASSUME NEW S \in SUBSET Keys, DeleteBatch(S) PROVE Inv'
  <2>1. PICK ks : ks = SetToSeq(S)
    OBVIOUS
  <2>2. [i \in DOMAIN ks |-> Delete(ks[i])] \in Seq(Changes)
    BY <2>1, BatchDeletes
  <2>3. Record([i \in DOMAIN ks |-> Delete(ks[i])])
    BY <1>5, <2>1 DEF DeleteBatch
  <2>4. Grown
    BY <1>0, <2>2, <2>3, RecordGrows
  <2>5. src' \in Contents
    BY <1>0, <1>5 DEF DeleteBatch, Contents, Values
  <2> QED
    BY <1>0, <1>5, <2>4, <2>5, SourceStep DEF DeleteBatch, Replica
<1>6. ASSUME NEW keyed \in BOOLEAN, AppendEvent(keyed) PROVE Inv'
  <2>1. <<Appended(Len(events) + 1)>> \in Seq(Changes)
    <3>1. Appended(Len(events) + 1) \in Changes
      BY <1>0, ChangesMade
    <3> QED
      BY <3>1
  <2>2. Grown
    BY <1>0, <1>6, <2>1, RecordGrows DEF AppendEvent
  <2>3. events' \in Seq(BOOLEAN)
    BY <1>0, <1>6 DEF AppendEvent
  <2> QED
    BY <1>0, <1>6, <2>2, <2>3, SourceStep DEF AppendEvent, Replica
<1>7. ASSUME NEW e \in DOMAIN events, RetryEvent(e) PROVE Inv'
  <2>1. <<Appended(e)>> \in Seq(Changes)
    <3>1. e \in Nat
      BY <1>0
    <3>2. Appended(e) \in Changes
      BY <3>1, ChangesMade
    <3> QED
      BY <3>2
  <2>2. Grown
    BY <1>0, <1>7, <2>1, RecordGrows DEF RetryEvent
  <2> QED
    BY <1>0, <1>7, <2>2, SourceStep DEF RetryEvent, Replica
<1> QED
  BY <1>1, <1>2, <1>3, <1>4, <1>5, <1>6, <1>7 DEF Writes

(* An MCP write leaves the log alone; its changes wait. *)
LEMMA McpWritesInv ==
    ASSUME Inv, NEW c \in Clients, McpWrites(c)
    PROVE  Inv'
<1>0. /\ log \in Seq(Changes) /\ src \in Contents /\ events \in Seq(BOOLEAN)
      /\ pending \in [Clients -> Seq(Changes)] /\ Len(events) + 1 \in Nat
  BY DEF Inv, Types
<1>1. ASSUME NEW f \in Contents, NEW changes \in Seq(Changes), McpWrite(c, f, changes)
      PROVE  Inv'
  <2>1. Grown
    BY <1>0, <1>1 DEF McpWrite, Grown
  <2>2. pending' \in [Clients -> Seq(Changes)]
    BY <1>0, <1>1 DEF McpWrite
  <2> QED
    BY <1>0, <1>1, <2>1, <2>2, SourceStep DEF McpWrite, Replica
<1>2. ASSUME NEW k \in Keys, McpDelete(c, k) PROVE Inv'
  <2>1. <<Delete(k)>> \in Seq(Changes)
    BY ChangesMade
  <2>2. [src EXCEPT ![k] = None] \in Contents
    BY <1>0 DEF Contents, Values
  <2> QED
    BY <1>1, <1>2, <2>1, <2>2 DEF McpDelete
<1>3. ASSUME NEW k \in Keys, NEW b \in Bodies, McpPut(c, k, b) PROVE Inv'
  <2>1. <<Upsert(k, b)>> \in Seq(Changes)
    <3>1. Upsert(k, b) \in Changes
      BY ChangesMade DEF Values
    <3> QED
      BY <3>1
  <2>2. [src EXCEPT ![k] = b] \in Contents
    BY <1>0 DEF Contents, Values
  <2> QED
    BY <1>1, <1>3, <2>1, <2>2 DEF McpPut
<1>4. ASSUME NEW f \in [Keys -> Bodies], McpPutBatch(c, f) PROVE Inv'
  <2>1. PICK ks : ks = SetToSeq(Keys)
    OBVIOUS
  <2>2. PICK ch : ch = [i \in DOMAIN ks |-> Upsert(ks[i], f[ks[i]])]
    OBVIOUS
  <2>3. ch \in Seq(Changes)
    BY <2>1, <2>2, BatchPuts
  <2>4. f \in Contents
    BY DEF Contents, Values
  <2>5. McpWrite(c, f, ch)
    BY <1>4, <2>1, <2>2 DEF McpPutBatch
  <2> QED
    BY <1>1, <2>3, <2>4, <2>5
<1>5. ASSUME NEW S \in SUBSET Keys, McpDeleteBatch(c, S) PROVE Inv'
  <2>1. PICK ks : ks = SetToSeq(S)
    OBVIOUS
  <2>2. PICK ch : ch = [i \in DOMAIN ks |-> Delete(ks[i])]
    OBVIOUS
  <2>3. ch \in Seq(Changes)
    BY <2>1, <2>2, BatchDeletes
  <2>4. PICK f : f = [k \in Keys |-> IF k \in S THEN None ELSE src[k]]
    OBVIOUS
  <2>5. f \in Contents
    BY <1>0, <2>4 DEF Contents, Values
  <2>6. McpWrite(c, f, ch)
    BY <1>5, <2>1, <2>2, <2>4 DEF McpDeleteBatch
  <2> QED
    BY <1>1, <2>3, <2>5, <2>6
<1>6. ASSUME NEW keyed \in BOOLEAN, McpAppendEvent(c, keyed) PROVE Inv'
  <2>1. <<Appended(Len(events) + 1)>> \in Seq(Changes)
    <3>1. Appended(Len(events) + 1) \in Changes
      BY <1>0, ChangesMade
    <3> QED
      BY <3>1
  <2>2. Grown
    BY <1>0, <1>6 DEF McpAppendEvent, Grown
  <2>3. events' \in Seq(BOOLEAN) /\ pending' \in [Clients -> Seq(Changes)]
    BY <1>0, <1>6, <2>1 DEF McpAppendEvent
  <2> QED
    BY <1>0, <1>6, <2>2, <2>3, SourceStep DEF McpAppendEvent, Replica
<1> QED
  BY <1>2, <1>3, <1>4, <1>5, <1>6 DEF McpWrites

(* Logging them is a second step. *)
LEMMA McpRecordInv ==
    ASSUME Inv, NEW c \in Clients, McpRecord(c)
    PROVE  Inv'
<1>0. /\ log \in Seq(Changes) /\ src \in Contents /\ events \in Seq(BOOLEAN)
      /\ pending \in [Clients -> Seq(Changes)] /\ pending[c] \in Seq(Changes)
  BY DEF Inv, Types
<1>1. Grown
  BY <1>0, RecordGrows DEF McpRecord
<1>2. pending' \in [Clients -> Seq(Changes)]
  <2>1. <<>> \in Seq(Changes)
    OBVIOUS
  <2> QED
    BY <1>0, <2>1 DEF McpRecord
<1> QED
  BY <1>0, <1>1, <1>2, SourceStep DEF McpRecord, Replica

-----------------------------------------------------------------------------
(* Retention and the steps of `sync` that do not reach the replica. *)

(* They leave the replica and the log alone. *)
LEMMA ReplicaStays ==
    ASSUME Inv, UNCHANGED <<log, rep, basis, broken>>
    PROVE  Ahead' /\ EventsThere'
<1>1. Ahead'
  BY DEF Inv, Ahead, AheadOf, ValueAt
<1>2. EventsThere'
  BY DEF Inv, EventsThere, MarksRight, EventsTo, HasKey
<1> QED
  BY <1>1, <1>2

(* The numbers the invariant is about. *)
LEMMA Numbers ==
    ASSUME Inv
    PROVE  /\ Len(log) \in Nat /\ rep.cursor \in Nat /\ cli.cursor \in Nat
           /\ reported \in Nat /\ first \in Nat \ {0} /\ basis.at \in Nat
BY DEF Inv, Types, Replicas

(* A checkpoint is reported. *)
LEMMA ReportInv ==
    ASSUME Inv, ReportCheckpoint
    PROVE  Inv'
<1>1. Types'
  BY Numbers DEF Inv, Types, ReportCheckpoint, Replica
<1>2. CursorsOrdered'
  BY Numbers DEF Inv, CursorsOrdered, ReportCheckpoint, Replica
<1>3. RequestsFit'
  BY DEF Inv, RequestsFit, PageFits, SnapshotFits, ReportCheckpoint, Replica
<1> QED
  BY <1>1, <1>2, <1>3, ReplicaStays DEF Inv, ReportCheckpoint, Replica

(* The log is trimmed behind it. *)
LEMMA RetainInv ==
    ASSUME Inv, Orderly, NEW to \in Nat, Retain(to)
    PROVE  Inv'
<1>1. Types'
  BY Numbers DEF Inv, Types, Retain, Replica
<1>2. CursorsOrdered'
  BY Numbers DEF Inv, CursorsOrdered, Retain, Replica, Orderly
<1>3. RequestsFit'
  BY DEF Inv, RequestsFit, PageFits, SnapshotFits, Retain, Replica
<1> QED
  BY <1>1, <1>2, <1>3, ReplicaStays DEF Inv, Retain, Replica

(* A page is consecutive, begins where the reader may continue and ends in  *)
(* the log.                                                                 *)
LEMMA PageForm ==
    ASSUME Inv, Page(cli.cursor) # <<>>
    PROVE  /\ Page(cli.cursor) \in Pages /\ PageFits(Page(cli.cursor))
<1>0. Limit \in Nat \ {0}
  BY ReplicationConstants
<1>1. PICK from : from = Larger(first, cli.cursor + 1)
  OBVIOUS
<1>2. from \in Nat /\ from >= 1 /\ from <= rep.cursor + 1
  BY <1>1, Numbers DEF Larger, Inv, CursorsOrdered
<1>3. PICK n : n = Smaller(Limit, Len(log) + 1 - Smaller(from, Len(log) + 1))
  OBVIOUS
<1>4. n \in Nat /\ (n > 0 => from + n - 1 <= Len(log))
  <2>1. PICK m : m = Len(log) + 1 - Smaller(from, Len(log) + 1)
    OBVIOUS
  <2>2. m \in Nat /\ (m > 0 => m = Len(log) + 1 - from)
    <3>1. Len(log) \in Nat
      BY Numbers
    <3>2. CASE from < Len(log) + 1
      BY <1>2, <2>1, <3>1, <3>2 DEF Smaller
    <3>3. CASE ~(from < Len(log) + 1)
      <4>1. Smaller(from, Len(log) + 1) = Len(log) + 1
        BY <3>3 DEF Smaller
      <4>2. m = 0
        BY <2>1, <3>1, <4>1
      <4> QED
        BY <4>2
    <3> QED
      BY <3>2, <3>3
  <2>3. n = IF Limit < m THEN Limit ELSE m
    BY <1>3, <2>1 DEF Smaller
  <2>4. Len(log) \in Nat
    BY Numbers
  <2> QED
    BY <1>0, <1>2, <2>2, <2>3, <2>4
<1>5. Page(cli.cursor) = [i \in 1..n |-> from + i - 1]
  BY <1>1, <1>3 DEF Page
<1>6. PICK p : p = [i \in 1..n |-> from + i - 1]
  OBVIOUS
<1>7. p \in Seq(Nat) /\ Len(p) = n /\ DOMAIN p = 1..n
  <2>1. \A i \in 1..n : from + i - 1 \in Nat
    BY <1>2, <1>4
  <2> QED
    BY <1>4, <1>6, <2>1
<1>8. n > 0 /\ p # <<>>
  BY <1>4, <1>5, <1>6
<1>9. p[1] = from /\ p[Len(p)] = from + n - 1 /\ \A i \in DOMAIN p : p[i] = from + i - 1
  BY <1>2, <1>4, <1>6, <1>7, <1>8
<1>10. p \in Pages
  BY <1>7, <1>8, <1>9 DEF Pages
<1>11. PageFits(p)
  BY <1>2, <1>4, <1>8, <1>9 DEF PageFits
<1> QED
  BY <1>5, <1>6, <1>10, <1>11

(* `sync` fetches a page. *)
LEMMA PullInv ==
    ASSUME Inv, Pull
    PROVE  Inv'
<1>1. PICK p : p = Page(cli.cursor)
  OBVIOUS
<1>2. p \in Pages /\ PageFits(p)
  BY <1>1, PageForm DEF Pull
<1>3. /\ cli' = [cli EXCEPT !.wait = [kind |-> "page", page |-> p]]
      /\ UNCHANGED <<svars, rep, late, basis, broken>>
  BY <1>1 DEF Pull, Source
<1>4. cli'.cursor = cli.cursor /\ cli'.wait = [kind |-> "page", page |-> p]
      /\ DOMAIN cli' = {"cursor", "wait"}
  BY <1>3 DEF Inv, Types
<1>5. Types'
  <2>1. cli'.wait \in Requests
    BY <1>2, <1>4 DEF Requests
  <2> QED
    BY <1>3, <1>4, <2>1 DEF Inv, Types, svars
<1>6. CursorsOrdered'
  BY <1>3, <1>4 DEF Inv, CursorsOrdered, svars
<1>7. RequestsFit'
  <2>1. cli'.wait.kind = "page" /\ cli'.wait.page = p
    BY <1>4
  <2>2. PageFits(p)'
    BY <1>2, <1>3 DEF PageFits, svars
  <2>3. late # None => PageFits(late.page)'
    BY <1>3 DEF Inv, RequestsFit, PageFits, svars
  <2> QED
    BY <1>3, <2>1, <2>2, <2>3 DEF RequestsFit, PageFits
<1> QED
  BY <1>3, <1>5, <1>6, <1>7, ReplicaStays DEF Inv, svars

(* `sync` fetches a snapshot.  Its cursor is the end of the log, because    *)
(* retention has left the newest change.                                    *)
LEMMA BootstrapInv ==
    ASSUME Inv, NEW replace \in BOOLEAN, Bootstrap(replace)
    PROVE  Inv'
<1>1. PICK s : s = Snapshot
  OBVIOUS
<1>2. s.cursor = Len(log) /\ s.at = Len(log) /\ s \in Snapshots
  <2>1. (IF first > Len(log) THEN 0 ELSE Len(log)) = Len(log)
    BY Numbers DEF Inv, CursorsOrdered
  <2> QED
    BY <1>1, <2>1, Numbers DEF Snapshot, Snapshots, Inv, Types
<1>3. /\ cli' = [cli EXCEPT !.wait = [kind |-> "snapshot", snap |-> s, replace |-> replace]]
      /\ UNCHANGED <<svars, rep, late, basis, broken>>
  BY <1>1 DEF Bootstrap, Source
<1>4. /\ cli'.cursor = cli.cursor /\ DOMAIN cli' = {"cursor", "wait"}
      /\ cli'.wait = [kind |-> "snapshot", snap |-> s, replace |-> replace]
  BY <1>3 DEF Inv, Types
<1>5. Types'
  <2>1. cli'.wait \in Requests
    BY <1>2, <1>4 DEF Requests
  <2> QED
    BY <1>3, <1>4, <2>1 DEF Inv, Types, svars
<1>6. CursorsOrdered'
  BY <1>3, <1>4 DEF Inv, CursorsOrdered, svars
<1>7. RequestsFit'
  <2>1. cli'.wait.kind = "snapshot" /\ cli'.wait.snap = s
    BY <1>4
  <2>2. late # None => PageFits(late.page)
    BY DEF Inv, RequestsFit
  <2>3. SnapshotFits(s)'
    BY <1>2, <1>3, <2>2, Numbers DEF SnapshotFits, PageFits, svars, Inv, CursorsOrdered
  <2>4. late # None => PageFits(late.page)'
    BY <1>3, <2>2 DEF PageFits, svars
  <2> QED
    BY <1>3, <2>1, <2>3, <2>4 DEF RequestsFit, PageFits, SnapshotFits
<1> QED
  BY <1>3, <1>5, <1>6, <1>7, ReplicaStays DEF Inv, svars

(* The configuration is reset. *)
LEMMA ResetInv ==
    ASSUME Inv, Reset
    PROVE  Inv'
<1>1. /\ cli' = [cli EXCEPT !.cursor = 0] /\ cli.wait = None
      /\ UNCHANGED <<svars, rep, late, basis, broken>>
  BY DEF Reset, Source
<1>2. cli'.cursor = 0 /\ cli'.wait = cli.wait /\ DOMAIN cli' = {"cursor", "wait"}
  BY <1>1 DEF Inv, Types
<1>3. Types'
  BY <1>1, <1>2 DEF Inv, Types, svars
<1>4. CursorsOrdered'
  BY <1>1, <1>2, Numbers DEF Inv, CursorsOrdered, svars
<1>5. RequestsFit'
  BY <1>1, <1>2 DEF Inv, RequestsFit, PageFits, SnapshotFits, svars
<1> QED
  BY <1>1, <1>3, <1>4, <1>5, ReplicaStays DEF Inv, svars

(* `sync` gives a request up; a page may still arrive. *)
LEMMA GiveUpInv ==
    ASSUME Inv, Orderly, GiveUp
    PROVE  Inv'
<1>1. /\ cli' = [cli EXCEPT !.wait = None] /\ cli.wait # None
      /\ UNCHANGED <<svars, rep, basis, broken>>
      /\ late' = late \/ (late' = cli.wait /\ cli.wait.kind \in Late)
  BY DEF GiveUp, Source
<1>2. cli'.cursor = cli.cursor /\ cli'.wait = None /\ DOMAIN cli' = {"cursor", "wait"}
  BY <1>1 DEF Inv, Types
<1>3. cli.wait.kind \in Late => cli.wait.kind = "page"
  BY ReplicationConstants DEF Orderly
<1>4. late' = late \/ (late' = cli.wait /\ cli.wait.kind = "page")
  BY <1>1, <1>3
<1>5. late' # None => late' \in [kind : {"page"}, page : Pages]
  BY <1>1, <1>4 DEF Inv, Types, Requests
<1>6. Types'
  BY <1>1, <1>2, <1>5 DEF Inv, Types, svars
<1>7. CursorsOrdered'
  BY <1>1, <1>2 DEF Inv, CursorsOrdered, svars
<1>8. RequestsFit'
  <2>1. late' # None => PageFits(late'.page)
    BY <1>1, <1>4 DEF Inv, RequestsFit
  <2> QED
    BY <1>1, <1>2, <2>1 DEF RequestsFit, PageFits, svars
<1> QED
  BY <1>1, <1>6, <1>7, <1>8, ReplicaStays DEF Inv, svars

-----------------------------------------------------------------------------
(* What one change does to what a replica holds.  R is the replica before   *)
(* change c, Q after it.                                                    *)

(* What prefixes make of a key: one more change that is not the key's       *)
(* leaves its value, one that is sets it.                                   *)
LEMMA ValueNext ==
    ASSUME basis.at \in Nat, NEW c \in Nat, c > basis.at, NEW k, NEW v
    PROVE  /\ ValueAt(k, c - 1, v) /\ log[c].key # k => ValueAt(k, c, v)
           /\ log[c].key = k => ValueAt(k, c, log[c].body)
<1>1. ASSUME ValueAt(k, c - 1, v), log[c].key # k PROVE ValueAt(k, c, v)
  <2>1. CASE v = basis.obj[k] /\ \A d \in (basis.at + 1)..(c - 1) : log[d].key # k
    <3>1. \A d \in (basis.at + 1)..c : d = c \/ d \in (basis.at + 1)..(c - 1)
      OBVIOUS
    <3> QED
      BY <1>1, <2>1, <3>1 DEF ValueAt
  <2>2. CASE \E d \in (basis.at + 1)..(c - 1) :
                log[d].key = k /\ v = log[d].body /\ \A e \in (d + 1)..(c - 1) : log[e].key # k
    <3>1. PICK d \in (basis.at + 1)..(c - 1) :
                log[d].key = k /\ v = log[d].body /\ \A e \in (d + 1)..(c - 1) : log[e].key # k
      BY <2>2
    <3>2. d \in (basis.at + 1)..c /\ \A e \in (d + 1)..c : e = c \/ e \in (d + 1)..(c - 1)
      OBVIOUS
    <3>3. \A e \in (d + 1)..c : log[e].key # k
      BY <1>1, <3>1, <3>2
    <3> QED
      BY <3>1, <3>2, <3>3 DEF ValueAt
  <2> QED
    BY <1>1, <2>1, <2>2 DEF ValueAt
<1>2. ASSUME log[c].key = k PROVE ValueAt(k, c, log[c].body)
  <2>1. c \in (basis.at + 1)..c /\ (c + 1)..c = {}
    OBVIOUS
  <2> QED
    BY <1>2, <2>1 DEF ValueAt
<1> QED
  BY <1>1, <1>2

(* The objects of Q are those of R with change c made. *)
Written(R, Q, c) ==
    \A k \in Keys : IF log[c].key = k THEN Q.obj[k] = log[c].body ELSE Q.obj[k] = R.obj[k]

(* Every key is ahead of one change more once that change is written. *)
LEMMA AheadNext ==
    ASSUME basis.at \in Nat, Len(log) \in Nat, NEW c \in 1..Len(log), c > basis.at,
           NEW R, NEW Q, AheadOf(R, c - 1),
           Written(R, Q, c)
    PROVE  AheadOf(Q, c)
<1> SUFFICES ASSUME NEW k \in Keys
             PROVE  \E n \in c..Len(log) : ValueAt(k, n, Q.obj[k])
  BY DEF AheadOf
<1>0. c \in Nat /\ c \in c..Len(log)
  OBVIOUS
<1>1. CASE log[c].key = k
  BY <1>0, <1>1, ValueNext DEF Written
<1>2. CASE log[c].key # k
  <2>1. PICK n \in (c - 1)..Len(log) : ValueAt(k, n, R.obj[k])
    BY DEF AheadOf
  <2>2. Q.obj[k] = R.obj[k]
    BY <1>2 DEF Written
  <2>3. CASE n = c - 1
    <3>1. ValueAt(k, c, R.obj[k])
      BY <1>0, <1>2, <2>1, <2>3, ValueNext
    <3> QED
      BY <1>0, <2>2, <3>1
  <2>4. CASE n # c - 1
    <3>1. n \in c..Len(log)
      BY <2>4
    <3> QED
      BY <2>1, <2>2, <3>1
  <2> QED
    BY <2>3, <2>4
<1> QED
  BY <1>1, <1>2

(* A longer prefix is ahead of a shorter one. *)
LEMMA AheadWeaker ==
    ASSUME Len(log) \in Nat, NEW m \in Nat, NEW n \in Nat, m <= n, NEW R, AheadOf(R, n)
    PROVE  AheadOf(R, m)
<1>1. n..Len(log) \subseteq m..Len(log)
  OBVIOUS
<1> QED
  BY <1>1 DEF AheadOf

(* Events up to c are there when those before it are and it is. *)
LEMMA EventsNext ==
    ASSUME basis.at \in Nat, NEW c \in Nat, c > basis.at, NEW Q, EventsTo(Q, c - 1),
           log[c].op = "event.append" => HasKey(Q, <<"change", c>>)
    PROVE  EventsTo(Q, c)
<1>1. \A d \in (basis.at + 1)..c : d = c \/ d \in (basis.at + 1)..(c - 1)
  OBVIOUS
<1> QED
  BY <1>1 DEF EventsTo

(* Appending an event the way append_event does: it is there, the others    *)
(* are still there, and no mark of a change is there twice.                 *)
LEMMA WithEventRight ==
    ASSUME NEW R \in Replicas, MarksRight(R), NEW e \in Nat, NEW key \in Marks,
           key[1] = "change" => key[2] \in 1..Len(log) /\ e = log[key[2]].event,
           NEW Q, Q = WithEvent(R, e, key)
    PROVE  /\ Q \in Replicas /\ Q.obj = R.obj /\ Q.prov = R.prov
           /\ Q.cursor = R.cursor /\ Q.conflicts = R.conflicts
           /\ MarksRight(Q) /\ (key # NoKey => HasKey(Q, key))
           /\ \A x : HasKey(R, x) => HasKey(Q, x)
<1>0. R.events \in Seq([event : Nat, key : Marks])
  BY DEF Replicas
<1>1. CASE key # NoKey /\ HasKey(R, key)
  BY <1>1 DEF WithEvent
<1>2. CASE ~(key # NoKey /\ HasKey(R, key))
  <2>1. PICK r : r = [event |-> e, key |-> key]
    OBVIOUS
  <2>2. r \in [event : Nat, key : Marks] /\ r.event = e /\ r.key = key
    BY <2>1
  <2>3. Q = [R EXCEPT !.events = Append(R.events, r)]
    BY <1>2, <2>1 DEF WithEvent
  <2>4. Append(R.events, r) \in Seq([event : Nat, key : Marks])
    BY <1>0, <2>2
  <2>5. /\ Q \in Replicas /\ Q.obj = R.obj /\ Q.prov = R.prov
        /\ Q.cursor = R.cursor /\ Q.conflicts = R.conflicts
        /\ Q.events = Append(R.events, r)
    BY <2>3, <2>4 DEF Replicas
  <2>6. PICK n : n = Len(R.events)
    OBVIOUS
  <2>7. /\ n \in Nat /\ DOMAIN R.events = 1..n /\ DOMAIN Q.events = 1..(n + 1)
        /\ Q.events[n + 1] = r /\ \A i \in 1..n : Q.events[i] = R.events[i]
    BY <1>0, <2>2, <2>5, <2>6
  <2>8. \A i \in 1..(n + 1) : i = n + 1 \/ i \in 1..n
    BY <2>7
  <2>9. \A x : HasKey(R, x) => HasKey(Q, x)
    BY <2>7 DEF HasKey
  <2>10. HasKey(Q, key)
    BY <2>2, <2>7 DEF HasKey
  <2>11. key[1] = "change" => \A i \in 1..n : R.events[i].key # key
    BY <1>2, <2>7 DEF HasKey, NoKey
  <2>12. MarksRight(Q)
    <3>1. ASSUME NEW i \in 1..(n + 1), Q.events[i].key[1] = "change"
          PROVE  /\ Q.events[i].key[2] \in 1..Len(log)
                 /\ Q.events[i].event = log[Q.events[i].key[2]].event
      <4>1. CASE i = n + 1
        BY <2>2, <2>7, <3>1, <4>1
      <4>2. CASE i \in 1..n
        BY <2>7, <3>1, <4>2 DEF MarksRight
      <4> QED
        BY <2>8, <4>1, <4>2
    <3>2. ASSUME NEW i \in 1..(n + 1), NEW j \in 1..(n + 1),
                 Q.events[i].key[1] = "change", Q.events[i].key = Q.events[j].key
          PROVE  i = j
      <4>1. CASE i = n + 1 /\ j = n + 1
        BY <4>1
      <4>2. CASE i = n + 1 /\ j \in 1..n
        BY <2>2, <2>7, <2>11, <3>2, <4>2
      <4>3. CASE i \in 1..n /\ j = n + 1
        BY <2>2, <2>7, <2>11, <3>2, <4>3
      <4>4. CASE i \in 1..n /\ j \in 1..n
        BY <2>7, <3>2, <4>4 DEF MarksRight
      <4> QED
        BY <2>8, <4>1, <4>2, <4>3, <4>4
    <3> QED
      BY <2>7, <3>1, <3>2 DEF MarksRight
  <2> QED
    BY <2>5, <2>9, <2>10, <2>12
<1> QED
  BY <1>1, <1>2

-----------------------------------------------------------------------------
(* A batch of changes.  R0 is the replica the call finds. *)

(* What holds of every durable state of the call. *)
Kept(R0, R) ==
    /\ R \in Replicas /\ R.cursor = R0.cursor /\ R.conflicts \subseteq 1..Len(log)
    /\ MarksRight(R) /\ EventsTo(R, R0.cursor)
    /\ ~broken => AheadOf(R, R0.cursor)

(* The changes up to m are in it. *)
Reached(R, m) == EventsTo(R, m) /\ (~broken => AheadOf(R, m))

(* A trail of such states. *)
AllKept(R0, t) == t \in Seq(Replicas) /\ t # <<>> /\ \A n \in DOMAIN t : Kept(R0, t[n])

(* The call after the changes up to m. *)
Sound(R0, a, m) ==
    /\ AllKept(R0, a.trail) /\ a.ok \in BOOLEAN /\ a.last \in Nat
    /\ DOMAIN a = {"trail", "ok", "last"}
    /\ a.ok => /\ Reached(a.trail[Len(a.trail)], IF m > R0.cursor THEN m ELSE R0.cursor)
               /\ a.last = IF m > R0.cursor THEN m ELSE 0

(* Only objects, events and the checkpoint matter to it. *)
LEMMA KeptAlike ==
    ASSUME NEW R0, NEW R, Kept(R0, R), NEW Q \in Replicas, Q.obj = R.obj,
           Q.events = R.events, Q.cursor = R.cursor, Q.conflicts \subseteq 1..Len(log)
    PROVE  Kept(R0, Q) /\ \A m : Reached(R, m) => Reached(Q, m)
<1>1. \A m : EventsTo(R, m) => EventsTo(Q, m)
  BY DEF EventsTo, HasKey
<1>2. \A m : AheadOf(R, m) => AheadOf(Q, m)
  BY DEF AheadOf
<1>3. MarksRight(Q)
  BY DEF Kept, MarksRight
<1> QED
  BY <1>1, <1>2, <1>3 DEF Kept, Reached

(* A state written after the changes before c that has change c in it is    *)
(* kept, and has reached c.                                                 *)
LEMMA KeptNext ==
    ASSUME basis.at \in Nat, Len(log) \in Nat, NEW R0, R0.cursor \in Nat, basis.at <= R0.cursor,
           NEW c \in 1..Len(log), c > R0.cursor, NEW R, Kept(R0, R), Reached(R, c - 1),
           NEW Q \in Replicas, Q.cursor = R.cursor, Q.conflicts = R.conflicts, MarksRight(Q),
           \A x : HasKey(R, x) => HasKey(Q, x),
           log[c].op = "event.append" => HasKey(Q, <<"change", c>>),
           Written(R, Q, c)
    PROVE  Kept(R0, Q) /\ Reached(Q, c)
<1>0. c \in Nat /\ c > basis.at /\ c - 1 \in Nat
  OBVIOUS
<1>1. ASSUME NEW m, EventsTo(R, m) PROVE EventsTo(Q, m)
  BY <1>1 DEF EventsTo
<1>2. EventsTo(Q, c) /\ EventsTo(Q, R0.cursor)
  <2>1. EventsTo(Q, c - 1)
    BY <1>1 DEF Reached
  <2>2. EventsTo(Q, R0.cursor)
    BY <1>1 DEF Kept
  <2> QED
    BY <1>0, <2>1, <2>2, EventsNext
<1>3. ASSUME ~broken PROVE AheadOf(Q, c) /\ AheadOf(Q, R0.cursor)
  <2>1. AheadOf(R, c - 1)
    BY <1>3 DEF Reached
  <2>2. AheadOf(Q, c)
    BY <1>0, <2>1, AheadNext
  <2> QED
    BY <1>0, <2>2, AheadWeaker
<1> QED
  BY <1>2, <1>3 DEF Kept, Reached

(* Two trails one after the other are one. *)
LEMMA TrailExtended ==
    ASSUME NEW R0, NEW t, AllKept(R0, t), NEW more, AllKept(R0, more), NEW u, u = t \o more
    PROVE  AllKept(R0, u)
<1>1. /\ t \in Seq(Replicas) /\ \A n \in 1..Len(t) : Kept(R0, t[n])
      /\ more \in Seq(Replicas) /\ more # <<>> /\ \A n \in 1..Len(more) : Kept(R0, more[n])
  BY DEF AllKept
<1>2. /\ u \in Seq(Replicas) /\ Len(u) = Len(t) + Len(more) /\ DOMAIN u = 1..Len(u)
      /\ Len(more) \in Nat \ {0} /\ Len(t) \in Nat
      /\ \A n \in 1..Len(u) : u[n] = IF n <= Len(t) THEN t[n] ELSE more[n - Len(t)]
  BY <1>1
<1>3. ASSUME NEW n \in 1..Len(u) PROVE Kept(R0, u[n])
  <2>1. CASE n <= Len(t)
    BY <1>1, <1>2, <2>1
  <2>2. CASE ~(n <= Len(t))
    <3>1. n - Len(t) \in 1..Len(more)
      BY <1>2, <2>2
    <3> QED
      BY <1>1, <1>2, <2>2, <3>1
  <2> QED
    BY <2>1, <2>2
<1> QED
  BY <1>2, <1>3 DEF AllKept

(* One round of the loop of apply. *)
LEMMA ApplyItemSound ==
    ASSUME log \in Seq(Changes), basis.at \in Nat, NEW R0, R0.cursor \in Nat,
           basis.at <= R0.cursor, NEW c \in 1..Len(log), NEW a, Sound(R0, a, c - 1)
    PROVE  Sound(R0, ApplyItem(c, a), c)
<1>0. c \in Nat /\ Len(log) \in Nat /\ log[c] \in Changes
  OBVIOUS
<1>1. PICK R : R = a.trail[Len(a.trail)]
  OBVIOUS
<1>2. /\ AllKept(R0, a.trail) /\ a.ok \in BOOLEAN /\ a.last \in Nat
      /\ DOMAIN a = {"trail", "ok", "last"} /\ Kept(R0, R) /\ R \in Replicas
  <2>1. AllKept(R0, a.trail) /\ Len(a.trail) \in DOMAIN a.trail
    BY DEF Sound, AllKept
  <2> QED
    BY <1>1, <2>1 DEF Sound, AllKept, Kept
<1>3. R.cursor = R0.cursor /\ Last(a.trail) = R
  BY <1>1, <1>2 DEF Kept, Last
<1>4. CASE ~a.ok \/ c <= R.cursor
  <2>1. ApplyItem(c, a) = a
    BY <1>3, <1>4 DEF ApplyItem
  <2>2. a.ok => ~(c > R0.cursor) /\ ~(c - 1 > R0.cursor)
    BY <1>0, <1>3, <1>4
  <2> QED
    BY <2>1, <2>2 DEF Sound
<1>5. CASE a.ok /\ ~(c <= R.cursor)
  <2>0. c > R0.cursor
    BY <1>0, <1>3, <1>5
  <2>1. Reached(R, c - 1)
    <3>1. (IF c - 1 > R0.cursor THEN c - 1 ELSE R0.cursor) = c - 1
      BY <1>0, <2>0
    <3> QED
      BY <1>1, <1>5, <3>1 DEF Sound
  <2>2. ASSUME NEW more, AllKept(R0, more), Reached(more[Len(more)], c), NEW b,
               b = [a EXCEPT !.trail = @ \o more, !.last = c]
        PROVE  Sound(R0, b, c)
    <3>1. PICK u, t : t = a.trail /\ u = t \o more
      OBVIOUS
    <3>2. AllKept(R0, u) /\ u[Len(u)] = more[Len(more)]
      <4>1. AllKept(R0, t)
        BY <1>2, <3>1
      <4>2. AllKept(R0, more) /\ u = t \o more
        BY <2>2, <3>1
      <4>3. AllKept(R0, u)
        BY <4>1, <4>2, TrailExtended
      <4>4. u[Len(u)] = more[Len(more)]
        <5>1. t \in Seq(Replicas) /\ more \in Seq(Replicas) /\ more # <<>>
          BY <4>1, <4>2 DEF AllKept
        <5> QED
          BY <4>2, <5>1
      <4> QED
        BY <4>3, <4>4
    <3>3. b.trail = u /\ b.ok = a.ok /\ b.last = c /\ DOMAIN b = {"trail", "ok", "last"}
      BY <1>2, <2>2, <3>1
    <3> QED
      BY <1>0, <1>2, <2>0, <2>2, <3>2, <3>3 DEF Sound
  <2>3. CASE Filtered(c)
    <3>1. ApplyItem(c, a) = [a EXCEPT !.last = c]
      BY <1>3, <1>5, <2>3 DEF ApplyItem
    <3>2. log[c].key \notin Keys /\ log[c].op # "event.append"
      BY <2>3, ReplicationConstants DEF Filtered
    <3>3. Reached(R, c)
      <4>1. MarksRight(R) /\ Written(R, R, c)
        BY <1>2, <3>2 DEF Kept, Written
      <4> QED
        BY <1>0, <1>2, <2>0, <2>1, <3>2, <4>1, KeptNext
    <3>4. PICK b : b = [a EXCEPT !.last = c]
      OBVIOUS
    <3>5. b.trail = a.trail /\ b.ok = a.ok /\ b.last = c /\ DOMAIN b = {"trail", "ok", "last"}
      BY <1>2, <3>4
    <3>6. Sound(R0, b, c)
      BY <1>0, <1>1, <1>2, <2>0, <3>3, <3>5 DEF Sound
    <3> QED
      BY <3>1, <3>4, <3>6
  <2>4. CASE ~Filtered(c) /\ log[c].op = "object.upsert" /\ Conflicts(R, c)
    <3>1. PICK Q : Q = [R EXCEPT !.conflicts = @ \cup {c}]
      OBVIOUS
    <3>2. Q \in Replicas /\ Q.obj = R.obj /\ Q.events = R.events /\ Q.cursor = R.cursor
          /\ Q.conflicts = R.conflicts \cup {c}
      BY <1>0, <1>2, <3>1 DEF Replicas
    <3>3. Kept(R0, Q)
      <4>1. Q.conflicts \subseteq 1..Len(log)
        BY <1>2, <3>2 DEF Kept
      <4> QED
        BY <1>2, <3>2, <4>1, KeptAlike
    <3>4. ApplyItem(c, a) = [a EXCEPT !.trail = @ \o <<Q>>, !.ok = FALSE]
      BY <1>3, <1>5, <2>4, <3>1 DEF ApplyItem, ApplyObject
    <3>5. PICK t, more, u, b : /\ t = a.trail /\ more = <<Q>> /\ u = t \o more
                              /\ b = [a EXCEPT !.trail = @ \o <<Q>>, !.ok = FALSE]
      OBVIOUS
    <3>6. AllKept(R0, u)
      <4>1. AllKept(R0, t)
        BY <1>2, <3>5
      <4>2. AllKept(R0, more)
        BY <3>2, <3>3, <3>5 DEF AllKept
      <4> QED
        BY <3>5, <4>1, <4>2, TrailExtended
    <3>7. b.trail = u /\ b.ok = FALSE /\ b.last = a.last /\ DOMAIN b = {"trail", "ok", "last"}
      BY <1>2, <3>5
    <3>8. Sound(R0, b, c)
      BY <1>2, <3>6, <3>7 DEF Sound
    <3> QED
      BY <3>4, <3>5, <3>8
  <2>5. CASE ~Filtered(c) /\ log[c].op = "object.upsert" /\ ~Conflicts(R, c)
    <3>1. log[c].key \in Keys /\ log[c].body \in Values
      BY <1>0, <2>5, ChangeForms DEF Filtered
    <3>2. PICK put : put = [R EXCEPT !.obj[log[c].key] = log[c].body]
      OBVIOUS
    <3>3. PICK owned : owned = [put EXCEPT !.prov = @ \cup {log[c].key}]
      OBVIOUS
    <3>4. /\ put \in Replicas /\ put.cursor = R.cursor /\ put.conflicts = R.conflicts
          /\ put.events = R.events /\ put.obj = [R.obj EXCEPT ![log[c].key] = log[c].body]
      BY <1>2, <3>1, <3>2 DEF Replicas, Contents
    <3>5. Written(R, put, c)
      <4>1. R.obj \in [Keys -> Values]
        BY <1>2 DEF Replicas, Contents
      <4> QED
        BY <3>1, <3>4, <4>1 DEF Written
    <3>6. MarksRight(put) /\ \A x : HasKey(R, x) => HasKey(put, x)
      BY <1>2, <3>4 DEF Kept, MarksRight, HasKey
    <3>7. Kept(R0, put) /\ Reached(put, c)
      <4>1. log[c].op # "event.append"
        BY <2>5
      <4> QED
        BY <1>0, <1>2, <2>0, <2>1, <3>4, <3>5, <3>6, <4>1, KeptNext
    <3>8. /\ owned \in Replicas /\ owned.cursor = put.cursor /\ owned.obj = put.obj
          /\ owned.events = put.events /\ owned.conflicts = put.conflicts
      BY <3>1, <3>3, <3>4 DEF Replicas
    <3>9. Kept(R0, owned) /\ Reached(owned, c)
      <4>1. owned.conflicts \subseteq 1..Len(log)
        BY <3>7, <3>8 DEF Kept
      <4> QED
        BY <3>7, <3>8, <4>1, KeptAlike
    <3>10. PICK more : more = <<put, owned>>
      OBVIOUS
    <3>11. ApplyItem(c, a) = [a EXCEPT !.trail = @ \o more, !.last = c]
      BY <1>3, <1>5, <2>5, <3>2, <3>3, <3>10 DEF ApplyItem, ApplyObject
    <3>12. AllKept(R0, more) /\ more[Len(more)] = owned
      BY <3>4, <3>7, <3>8, <3>9, <3>10 DEF AllKept
    <3> QED
      BY <2>2, <3>9, <3>11, <3>12
  <2>6. CASE ~Filtered(c) /\ log[c].op = "object.delete"
    <3>1. log[c].key \in Keys /\ log[c].body = None
      BY <1>0, <2>6, ChangeForms
    <3>2. PICK gone : gone = [R EXCEPT !.obj[log[c].key] = None]
      OBVIOUS
    <3>4. /\ gone \in Replicas /\ gone.cursor = R.cursor /\ gone.conflicts = R.conflicts
          /\ gone.events = R.events /\ gone.obj = [R.obj EXCEPT ![log[c].key] = None]
      BY <1>2, <3>1, <3>2 DEF Replicas, Contents, Values
    <3>5. Written(R, gone, c)
      <4>1. R.obj \in [Keys -> Values]
        BY <1>2 DEF Replicas, Contents
      <4> QED
        BY <3>1, <3>4, <4>1 DEF Written
    <3>6. MarksRight(gone) /\ \A x : HasKey(R, x) => HasKey(gone, x)
      BY <1>2, <3>4 DEF Kept, MarksRight, HasKey
    <3>7. Kept(R0, gone) /\ Reached(gone, c)
      <4>1. log[c].op # "event.append"
        BY <2>6
      <4> QED
        BY <1>0, <1>2, <2>0, <2>1, <3>4, <3>5, <3>6, <4>1, KeptNext
    <3>8. PICK more : more = <<gone>>
      OBVIOUS
    <3>9. ApplyItem(c, a) = [a EXCEPT !.trail = @ \o more, !.last = c]
      BY <1>3, <1>5, <2>6, <3>2, <3>8 DEF ApplyItem, ApplyDelete
    <3>10. AllKept(R0, more) /\ more[Len(more)] = gone
      BY <3>4, <3>7, <3>8 DEF AllKept
    <3> QED
      BY <2>2, <3>7, <3>9, <3>10
  <2>7. CASE ~Filtered(c) /\ log[c].op = "event.append"
    <3>1. log[c].key \notin Keys /\ log[c].event \in Nat
      BY <1>0, <2>7, ChangeForms, ReplicationConstants
    <3>2. PICK mark : mark = <<"change", c>>
      OBVIOUS
    <3>3. mark \in Marks /\ mark[1] = "change" /\ mark[2] = c /\ mark # NoKey
      BY <1>0, <3>2 DEF Marks, NoKey
    <3>4. PICK told : told = WithEvent(R, log[c].event, mark)
      OBVIOUS
    <3>5. /\ told \in Replicas /\ told.obj = R.obj /\ told.cursor = R.cursor
          /\ told.conflicts = R.conflicts /\ MarksRight(told) /\ HasKey(told, mark)
          /\ \A x : HasKey(R, x) => HasKey(told, x)
      <4>1. MarksRight(R)
        BY <1>2 DEF Kept
      <4>2. mark[1] = "change" => mark[2] \in 1..Len(log) /\ log[c].event = log[mark[2]].event
        BY <3>3
      <4> QED
        BY <1>2, <3>1, <3>3, <3>4, <4>1, <4>2, WithEventRight
    <3>6. Written(R, told, c)
      BY <3>1, <3>5 DEF Written
    <3>7. Kept(R0, told) /\ Reached(told, c)
      BY <1>0, <1>2, <2>0, <2>1, <3>2, <3>5, <3>6, KeptNext
    <3>8. PICK more : more = <<told>>
      OBVIOUS
    <3>9. ApplyItem(c, a) = [a EXCEPT !.trail = @ \o more, !.last = c]
      BY <1>3, <1>5, <2>7, <3>2, <3>4, <3>8 DEF ApplyItem, ApplyEvent
    <3>10. AllKept(R0, more) /\ more[Len(more)] = told
      BY <3>5, <3>7, <3>8 DEF AllKept
    <3> QED
      BY <2>2, <3>7, <3>9, <3>10
  <2> QED
    BY <1>0, <2>3, <2>4, <2>5, <2>6, <2>7, ChangeForms
<1> QED
  BY <1>4, <1>5

(* f follows the loop of apply through the first m changes of a page. *)
Started(R) == [trail |-> <<R>>, ok |-> TRUE, last |-> 0]
Rounds(f, R, page, m) ==
    f = [i \in 0..m |-> IF i = 0 THEN Started(R) ELSE ApplyItem(page[i], f[i - 1])]

(* The recursion of Apply has a solution. *)
LEMMA RoundsExist ==
    ASSUME NEW R, NEW page, NEW n \in Nat
    PROVE  \E f : Rounds(f, R, page, n)
<1> DEFINE T == {m \in Nat : ~ \E f : Rounds(f, R, page, m)}
<1> SUFFICES ASSUME T # {} PROVE FALSE
  OBVIOUS
<1>1. PICK m \in T : \A x \in T : m <= x
  <2>1. T \in SUBSET Nat
    OBVIOUS
  <2> HIDE DEF T
  <2> QED
    BY <2>1, LeastNumber
<1>2. m # 0
  <2>1. Rounds([i \in 0..0 |-> Started(R)], R, page, 0)
    BY DEF Rounds
  <2> QED
    BY <1>1, <2>1
<1>3. PICK g : Rounds(g, R, page, m - 1)
  BY <1>1, <1>2
<1> DEFINE f == [i \in 0..m |-> IF i = m THEN ApplyItem(page[m], g[m - 1]) ELSE g[i]]
<1>4. m \in Nat
  BY <1>1
<1>5. ASSUME NEW i \in 0..m
      PROVE  f[i] = IF i = 0 THEN Started(R) ELSE ApplyItem(page[i], f[i - 1])
  <2>1. CASE i = m
    <3>1. f[m - 1] = g[m - 1] /\ f[m] = ApplyItem(page[m], g[m - 1])
      BY <1>2, <1>4
    <3> QED
      BY <1>2, <2>1, <3>1
  <2>2. CASE i # m
    <3>1. i \in 0..(m - 1) /\ f[i] = g[i]
      BY <1>4, <2>2
    <3>2. g[i] = IF i = 0 THEN Started(R) ELSE ApplyItem(page[i], g[i - 1])
      BY <1>3, <3>1 DEF Rounds
    <3>3. i # 0 => i - 1 \in 0..m /\ i - 1 # m
      BY <1>4, <2>2
    <3>4. i # 0 => f[i - 1] = g[i - 1]
      BY <3>3
    <3> HIDE DEF f
    <3> QED
      BY <3>1, <3>2, <3>4
  <2> QED
    BY <2>1, <2>2
<1>6. f = [i \in 0..m |-> f[i]]
  OBVIOUS
<1>7. Rounds(f, R, page, m)
  <2> HIDE DEF f
  <2> QED
    BY <1>5, <1>6 DEF Rounds
<1> QED
  BY <1>1, <1>7

(* Apply is the end of such a loop and the checkpoint. *)
LEMMA ApplyIs ==
    ASSUME NEW R, NEW page, Len(page) \in Nat
    PROVE  \E f : /\ Rounds(f, R, page, Len(page))
                  /\ Apply(R, page) =
                        LET a == f[Len(page)]
                        IN  IF a.ok /\ a.last > R.cursor
                            THEN [a EXCEPT !.trail =
                                     Append(@, [Last(a.trail) EXCEPT !.cursor = a.last])]
                            ELSE a
<1>1. PICK f : f = CHOOSE rounds : rounds = [i \in 0..Len(page) |->
             IF i = 0 THEN [trail |-> <<R>>, ok |-> TRUE, last |-> 0]
             ELSE ApplyItem(page[i], rounds[i - 1])]
  OBVIOUS
<1>2. Rounds(f, R, page, Len(page))
  <2>1. \E g : Rounds(g, R, page, Len(page))
    BY RoundsExist
  <2>2. \E g : g = [i \in 0..Len(page) |->
             IF i = 0 THEN [trail |-> <<R>>, ok |-> TRUE, last |-> 0]
             ELSE ApplyItem(page[i], g[i - 1])]
    BY <2>1 DEF Rounds, Started
  <2>3. f = [i \in 0..Len(page) |->
             IF i = 0 THEN [trail |-> <<R>>, ok |-> TRUE, last |-> 0]
             ELSE ApplyItem(page[i], f[i - 1])]
    BY <1>1, <2>2
  <2> QED
    BY <2>3 DEF Rounds, Started
<1>3. Apply(R, page) =
         LET a == f[Len(page)]
         IN  IF a.ok /\ a.last > R.cursor
             THEN [a EXCEPT !.trail = Append(@, [Last(a.trail) EXCEPT !.cursor = a.last])]
             ELSE a
  BY <1>1 DEF Apply
<1> QED
  BY <1>2, <1>3

(* Every state of the call is kept, and the loop ends having reached the    *)
(* end of the page unless a conflict ended it.                              *)
LEMMA RoundsSound ==
    ASSUME Inv, NEW page \in Pages, PageFits(page),
           NEW f, Rounds(f, rep, page, Len(page)), NEW i \in 0..Len(page)
    PROVE  Sound(rep, f[i], page[1] + i - 1)
<1>0. /\ log \in Seq(Changes) /\ basis.at \in Nat /\ rep.cursor \in Nat
      /\ basis.at <= rep.cursor /\ Len(log) \in Nat
  BY Numbers DEF Inv, Types, CursorsOrdered
<1>a. PICK m, n : m = page[1] /\ n = Len(page)
  OBVIOUS
<1>b. n \in Nat /\ n >= 1 /\ m \in Nat /\ \A x \in 1..n : page[x] = m + x - 1
  <2>1. page \in Seq(Nat) /\ page # <<>> /\ \A x \in DOMAIN page : page[x] = page[1] + x - 1
    BY DEF Pages
  <2>2. DOMAIN page = 1..n /\ n \in Nat /\ n >= 1 /\ 1 \in 1..n
    BY <1>a, <2>1
  <2>3. m \in Nat
    BY <1>a, <2>1, <2>2
  <2> QED
    BY <1>a, <2>1, <2>2, <2>3
<1>c. m >= 1 /\ m <= rep.cursor + 1 /\ m + n - 1 <= Len(log)
  BY <1>a, <1>b DEF PageFits
<1> DEFINE T == {j \in 0..n : ~ Sound(rep, f[j], m + j - 1)}
<1> SUFFICES ASSUME T # {} PROVE FALSE
  BY <1>a
<1>1. PICK j \in T : \A x \in T : j <= x
  <2>1. T \in SUBSET Nat
    BY <1>b
  <2> HIDE DEF T
  <2> QED
    BY <2>1, LeastNumber
<1>2. j \in 0..n /\ ~ Sound(rep, f[j], m + j - 1)
  BY <1>1
<1>3. CASE j = 0
  <2>1. f[0] = Started(rep)
    BY <1>a, <1>b DEF Rounds
  <2>2. PICK a : a = Started(rep)
    OBVIOUS
  <2>3. /\ a.trail = <<rep>> /\ a.ok \in BOOLEAN /\ a.last = 0
        /\ DOMAIN a = {"trail", "ok", "last"}
    BY <2>2 DEF Started
  <2>4. Kept(rep, rep) /\ Reached(rep, rep.cursor) /\ rep \in Replicas
    BY DEF Inv, Types, CursorsOrdered, EventsThere, Ahead, Kept, Reached
  <2>5. AllKept(rep, a.trail) /\ a.trail[Len(a.trail)] = rep
    BY <2>3, <2>4 DEF AllKept
  <2>6. PICK z : z = m + j - 1
    OBVIOUS
  <2>7. ~(z > rep.cursor)
    BY <1>0, <1>3, <1>b, <1>c, <2>6
  <2>8. Sound(rep, a, z)
    <3>1. (IF z > rep.cursor THEN z ELSE rep.cursor) = rep.cursor
          /\ (IF z > rep.cursor THEN z ELSE 0) = 0
      BY <2>7
    <3>2. Reached(a.trail[Len(a.trail)], rep.cursor)
      BY <2>4, <2>5
    <3>3. a.ok \in BOOLEAN /\ a.last \in Nat
      BY <2>3
    <3>4. Reached(a.trail[Len(a.trail)], IF z > rep.cursor THEN z ELSE rep.cursor)
      BY <3>1, <3>2
    <3>5. a.last = IF z > rep.cursor THEN z ELSE 0
      BY <2>3, <3>1
    <3>6. AllKept(rep, a.trail) /\ DOMAIN a = {"trail", "ok", "last"}
      BY <2>3, <2>5
    <3> QED
      BY <3>3, <3>4, <3>5, <3>6 DEF Sound
  <2> QED
    BY <1>2, <1>3, <2>1, <2>2, <2>6, <2>8
<1>4. CASE j # 0
  <2>1. j - 1 \in 0..n /\ j - 1 \notin T /\ j \in 1..n
    BY <1>b, <1>1, <1>2, <1>4
  <2>2. Sound(rep, f[j - 1], m + (j - 1) - 1)
    BY <2>1
  <2>3. f[j] = ApplyItem(page[j], f[j - 1])
    BY <1>a, <1>2, <1>4 DEF Rounds
  <2>4. PICK c, a : c = m + j - 1 /\ a = f[j - 1]
    OBVIOUS
  <2>5. c \in 1..Len(log) /\ c - 1 = m + (j - 1) - 1 /\ page[j] = c
    BY <1>0, <1>b, <1>c, <2>1, <2>4
  <2>6. Sound(rep, ApplyItem(c, a), c)
    <3>1. Sound(rep, a, c - 1)
      BY <2>2, <2>4, <2>5
    <3> QED
      BY <1>0, <2>5, <3>1, ApplyItemSound
  <2> QED
    BY <1>2, <2>3, <2>4, <2>5, <2>6
<1> QED
  BY <1>3, <1>4

(* Where the replica may be left by a batch that would end at cursor e. *)
Landed(R, e) ==
    /\ R \in Replicas /\ rep.cursor <= R.cursor /\ R.cursor \in {rep.cursor, e}
    /\ R.conflicts \subseteq 1..Len(log) /\ MarksRight(R) /\ EventsTo(R, R.cursor)
    /\ ~broken => AheadOf(R, R.cursor)

(* A batch may be cut anywhere, and one that ends well has its end as the   *)
(* checkpoint at least.                                                     *)
LEMMA ApplySound ==
    ASSUME Inv, NEW page \in Pages, PageFits(page), NEW a, a = Apply(rep, page),
           NEW e, e = page[Len(page)]
    PROVE  /\ \A n \in DOMAIN a.trail : Landed(a.trail[n], e)
           /\ Len(a.trail) \in DOMAIN a.trail
           /\ a.ok => e <= a.trail[Len(a.trail)].cursor
<1>0. Len(page) \in Nat /\ Len(page) >= 1 /\ page[1] \in Nat /\ page[1] >= 1
      /\ e = page[1] + Len(page) - 1 /\ e \in Nat
  <2>1. page \in Seq(Nat) /\ page # <<>> /\ \A x \in DOMAIN page : page[x] = page[1] + x - 1
    BY DEF Pages
  <2>2. DOMAIN page = 1..Len(page) /\ Len(page) \in Nat /\ Len(page) >= 1
    BY <2>1
  <2>3. page[1] \in Nat /\ page[Len(page)] = page[1] + Len(page) - 1
    BY <2>1, <2>2
  <2> QED
    BY <2>2, <2>3 DEF PageFits
<1>1. PICK f : /\ Rounds(f, rep, page, Len(page))
               /\ a = LET b == f[Len(page)]
                      IN  IF b.ok /\ b.last > rep.cursor
                          THEN [b EXCEPT !.trail =
                                   Append(@, [Last(b.trail) EXCEPT !.cursor = b.last])]
                          ELSE b
  BY <1>0, ApplyIs
<1>2. PICK b : b = f[Len(page)]
  OBVIOUS
<1>3. Sound(rep, b, e)
  <2>1. Len(page) \in 0..Len(page)
    BY <1>0
  <2>2. Sound(rep, f[Len(page)], page[1] + Len(page) - 1)
    BY <1>1, <2>1, RoundsSound
  <2> QED
    BY <1>0, <1>2, <2>2
<1>4. /\ AllKept(rep, b.trail) /\ DOMAIN b = {"trail", "ok", "last"} /\ rep.cursor \in Nat
      /\ b.trail \in Seq(Replicas) /\ b.trail # <<>>
  BY <1>3, Numbers DEF Sound, AllKept
<1>5. ASSUME NEW R, Kept(rep, R) PROVE Landed(R, e)
  BY <1>4, <1>5 DEF Kept, Landed
<1>6. \A n \in DOMAIN b.trail : Landed(b.trail[n], e)
  BY <1>4, <1>5 DEF AllKept
<1>7. CASE ~(b.ok /\ b.last > rep.cursor)
  <2>1. a = b
    BY <1>1, <1>2, <1>7
  <2>2. Len(b.trail) \in DOMAIN b.trail
    BY <1>4
  <2>3. b.ok => e <= b.trail[Len(b.trail)].cursor
    <3>1. b.trail[Len(b.trail)].cursor = rep.cursor
      BY <1>4, <2>2 DEF AllKept, Kept
    <3>2. b.ok => ~(e > rep.cursor)
      BY <1>0, <1>3, <1>7 DEF Sound
    <3> QED
      BY <1>0, <1>4, <3>1, <3>2
  <2> QED
    BY <1>6, <2>1, <2>2, <2>3
<1>8. CASE b.ok /\ b.last > rep.cursor
  <2>1. PICK R : R = b.trail[Len(b.trail)]
    OBVIOUS
  <2>2. Kept(rep, R) /\ R \in Replicas
    <3>1. Len(b.trail) \in DOMAIN b.trail
      BY <1>4
    <3> QED
      BY <1>4, <2>1, <3>1 DEF AllKept, Kept
  <2>3. b.last = e /\ e > rep.cursor /\ Reached(R, e)
    <3>1. b.last = IF e > rep.cursor THEN e ELSE 0
      BY <1>3, <1>8 DEF Sound
    <3>2. e > rep.cursor
      BY <1>0, <1>4, <1>8, <3>1
    <3> QED
      BY <1>3, <1>8, <2>1, <3>1, <3>2 DEF Sound
  <2>4. PICK Q : Q = [R EXCEPT !.cursor = e]
    OBVIOUS
  <2>5. /\ Q \in Replicas /\ Q.obj = R.obj /\ Q.events = R.events /\ Q.cursor = e
        /\ Q.conflicts = R.conflicts
    BY <1>0, <2>2, <2>4 DEF Replicas
  <2>6. Landed(Q, e)
    <3>1. MarksRight(Q)
      BY <2>2, <2>5 DEF Kept, MarksRight
    <3>2. EventsTo(Q, e)
      BY <2>3, <2>5 DEF Reached, EventsTo, HasKey
    <3>3. ~broken => AheadOf(Q, e)
      BY <2>3, <2>5 DEF Reached, AheadOf
    <3>4. Q.conflicts \subseteq 1..Len(log)
      BY <2>2, <2>5 DEF Kept
    <3>5. rep.cursor <= Q.cursor /\ Q.cursor \in {rep.cursor, e}
      BY <1>0, <1>4, <2>3, <2>5
    <3> QED
      BY <2>5, <3>1, <3>2, <3>3, <3>4, <3>5 DEF Landed
  <2>7. a = [b EXCEPT !.trail = Append(@, Q)]
    BY <1>1, <1>2, <1>8, <2>1, <2>3, <2>4 DEF Last
  <2>8. a.trail = Append(b.trail, Q)
    BY <1>4, <2>7
  <2>9. PICK t, u : t = b.trail /\ u = Append(t, Q)
    OBVIOUS
  <2>10. /\ DOMAIN u = 1..(Len(t) + 1) /\ Len(t) \in Nat /\ DOMAIN t = 1..Len(t)
         /\ Len(u) = Len(t) + 1 /\ u[Len(t) + 1] = Q
         /\ \A n \in 1..Len(t) : u[n] = t[n]
    BY <1>4, <2>5, <2>9
  <2>11. \A n \in DOMAIN u : n = Len(t) + 1 \/ n \in 1..Len(t)
    BY <2>10
  <2>12. \A n \in 1..Len(t) : Landed(t[n], e)
    BY <1>6, <2>9, <2>10
  <2>13. \A n \in DOMAIN u : Landed(u[n], e)
    BY <2>6, <2>10, <2>11, <2>12
  <2>14. Len(u) \in DOMAIN u /\ u[Len(u)] = Q
    BY <2>10
  <2>15. e <= Q.cursor
    BY <1>0, <2>5
  <2> QED
    BY <2>8, <2>9, <2>13, <2>14, <2>15
<1> QED
  BY <1>7, <1>8

-----------------------------------------------------------------------------
(* A snapshot. *)

(* What apply_snapshot writes. *)
Steps(s) ==
    [do : {"delete", "put"}, of : Keys] \cup [do : {"append"}, of : DOMAIN s.events]

(* They are a list of such writes. *)
LEMMA SnapshotWritesForm ==
    ASSUME NEW R \in Replicas, NEW s \in Snapshots, NEW replace \in BOOLEAN
    PROVE  SnapshotWrites(R, s, replace) \in Seq(Steps(s))
<1>1. PICK old, new : /\ old = SetToSeq({k \in Keys : R.obj[k] # None})
                      /\ new = SetToSeq({k \in Keys : s.objects[k] # None})
  OBVIOUS
<1>2. old \in Seq(Keys)
  <2>1. PICK S : S = {k \in Keys : R.obj[k] # None}
    OBVIOUS
  <2>2. S \in SUBSET Keys
    BY <2>1
  <2>3. SetToSeq(S) \in Seq(S)
    BY <2>2, SetToSeqLists
  <2> QED
    BY <1>1, <2>1, <2>2, <2>3
<1>3. new \in Seq(Keys)
  <2>1. PICK S : S = {k \in Keys : s.objects[k] # None}
    OBVIOUS
  <2>2. S \in SUBSET Keys
    BY <2>1
  <2>3. SetToSeq(S) \in Seq(S)
    BY <2>2, SetToSeqLists
  <2> QED
    BY <1>1, <2>1, <2>2, <2>3
<1>4. PICK a, b, c : /\ a = [i \in DOMAIN old |-> [do |-> "delete", of |-> old[i]]]
                     /\ b = [i \in DOMAIN new |-> [do |-> "put", of |-> new[i]]]
                     /\ c = [i \in DOMAIN s.events |-> [do |-> "append", of |-> i]]
  OBVIOUS
<1>5. a \in Seq(Steps(s))
  <2>1. Len(old) \in Nat /\ DOMAIN old = 1..Len(old) /\ \A i \in 1..Len(old) : old[i] \in Keys
    BY <1>2
  <2>2. \A i \in 1..Len(old) : [do |-> "delete", of |-> old[i]] \in Steps(s)
    BY <2>1 DEF Steps
  <2> QED
    BY <1>4, <2>1, <2>2
<1>6. b \in Seq(Steps(s))
  <2>1. Len(new) \in Nat /\ DOMAIN new = 1..Len(new) /\ \A i \in 1..Len(new) : new[i] \in Keys
    BY <1>3
  <2>2. \A i \in 1..Len(new) : [do |-> "put", of |-> new[i]] \in Steps(s)
    BY <2>1 DEF Steps
  <2> QED
    BY <1>4, <2>1, <2>2
<1>7. c \in Seq(Steps(s))
  <2>1. s.events \in Seq(BOOLEAN)
    BY DEF Snapshots
  <2>2. Len(s.events) \in Nat /\ DOMAIN s.events = 1..Len(s.events)
    BY <2>1
  <2>3. \A i \in 1..Len(s.events) : [do |-> "append", of |-> i] \in Steps(s)
    BY <2>2 DEF Steps
  <2> QED
    BY <1>4, <2>2, <2>3
<1>8. SnapshotWrites(R, s, replace) = (IF replace THEN a ELSE <<>>) \o b \o c
  BY <1>1, <1>4 DEF SnapshotWrites
<1>9. (IF replace THEN a ELSE <<>>) \in Seq(Steps(s))
  <2>1. <<>> \in Seq(Steps(s))
    OBVIOUS
  <2> QED
    BY <1>5, <2>1
<1>10. PICK d : d = IF replace THEN a ELSE <<>>
  OBVIOUS
<1>11. d \o b \o c \in Seq(Steps(s))
  BY <1>6, <1>7, <1>9, <1>10
<1> QED
  BY <1>8, <1>10, <1>11

(* A snapshot leaves marks, events and the checkpoint alone until its last  *)
(* write.                                                                   *)
Untouched(R) ==
    /\ R \in Replicas /\ R.cursor = rep.cursor /\ R.conflicts = rep.conflicts
    /\ MarksRight(R) /\ EventsTo(R, rep.cursor)

(* One write of it. *)
LEMMA SnapshotWriteSound ==
    ASSUME NEW R, Untouched(R), NEW s \in Snapshots, NEW w \in Steps(s)
    PROVE  Untouched(SnapshotWrite(R, s, w))
<1>0. R \in Replicas /\ s.objects \in Contents /\ s.events \in Seq(BOOLEAN)
  BY DEF Untouched, Snapshots
<1>1. ASSUME NEW k \in Keys, NEW v \in Values, NEW Q, Q = [R EXCEPT !.obj[k] = v]
      PROVE  Untouched(Q)
  <2>1. /\ Q \in Replicas /\ Q.cursor = R.cursor /\ Q.conflicts = R.conflicts
        /\ Q.events = R.events
    BY <1>0, <1>1 DEF Replicas, Contents
  <2>2. MarksRight(Q)
    BY <2>1 DEF Untouched, MarksRight
  <2>3. EventsTo(Q, rep.cursor)
    BY <2>1 DEF Untouched, EventsTo, HasKey
  <2> QED
    BY <2>1, <2>2, <2>3 DEF Untouched
<1>2. CASE w.do = "delete"
  <2>1. w.of \in Keys /\ None \in Values
    BY <1>2 DEF Steps, Values
  <2>2. SnapshotWrite(R, s, w) = [R EXCEPT !.obj[w.of] = None]
    BY <1>2 DEF SnapshotWrite
  <2> QED
    BY <1>1, <2>1, <2>2
<1>3. CASE w.do = "put"
  <2>1. w.of \in Keys /\ s.objects[w.of] \in Values
    BY <1>0, <1>3 DEF Steps, Contents
  <2>2. SnapshotWrite(R, s, w) = [R EXCEPT !.obj[w.of] = s.objects[w.of]]
    BY <1>3 DEF SnapshotWrite
  <2> QED
    BY <1>1, <2>1, <2>2
<1>4. CASE w.do = "append"
  <2>1. w.of \in DOMAIN s.events /\ w.of \in Nat
    BY <1>0, <1>4 DEF Steps
  <2>2. PICK key : key = IF s.events[w.of] THEN <<"own", w.of>> ELSE NoKey
    OBVIOUS
  <2>3. key \in Marks /\ key[1] # "change"
    <3>1. key = <<"own", w.of>> \/ key = <<"none", 0>>
      BY <2>2 DEF NoKey
    <3> QED
      BY <2>1, <3>1 DEF Marks
  <2>4. PICK e, Q : e = w.of /\ Q = WithEvent(R, e, key)
    OBVIOUS
  <2>5. /\ Q \in Replicas /\ Q.cursor = R.cursor /\ Q.conflicts = R.conflicts
        /\ MarksRight(Q) /\ \A x : HasKey(R, x) => HasKey(Q, x)
    <3>1. MarksRight(R) /\ e \in Nat
      BY <2>1, <2>4 DEF Untouched
    <3>2. key[1] = "change" => key[2] \in 1..Len(log) /\ e = log[key[2]].event
      BY <2>3
    <3>3. key \in Marks /\ Q = WithEvent(R, e, key)
      BY <2>3, <2>4
    <3> QED
      BY <1>0, <3>1, <3>2, <3>3, WithEventRight
  <2>6. EventsTo(Q, rep.cursor)
    BY <2>5 DEF Untouched, EventsTo
  <2>7. SnapshotWrite(R, s, w) = Q
    BY <1>4, <2>2, <2>4 DEF SnapshotWrite
  <2> QED
    BY <2>5, <2>6, <2>7 DEF Untouched
<1> QED
  BY <1>2, <1>3, <1>4 DEF Steps

(* f follows the writes ws of snapshot s through the first m. *)
Stages(f, R, s, ws, m) ==
    f = [i \in 0..m |-> IF i = 0 THEN R ELSE SnapshotWrite(f[i - 1], s, ws[i])]

(* The recursion of ApplySnapshot has a solution. *)
LEMMA StagesExist ==
    ASSUME NEW R, NEW s, NEW ws, NEW n \in Nat
    PROVE  \E f : Stages(f, R, s, ws, n)
<1> DEFINE T == {m \in Nat : ~ \E f : Stages(f, R, s, ws, m)}
<1> SUFFICES ASSUME T # {} PROVE FALSE
  OBVIOUS
<1>1. PICK m \in T : \A x \in T : m <= x
  <2>1. T \in SUBSET Nat
    OBVIOUS
  <2> HIDE DEF T
  <2> QED
    BY <2>1, LeastNumber
<1>2. m # 0
  <2>1. Stages([i \in 0..0 |-> R], R, s, ws, 0)
    BY DEF Stages
  <2> QED
    BY <1>1, <2>1
<1>3. PICK g : Stages(g, R, s, ws, m - 1)
  BY <1>1, <1>2
<1> DEFINE f == [i \in 0..m |-> IF i = m THEN SnapshotWrite(g[m - 1], s, ws[m]) ELSE g[i]]
<1>4. m \in Nat
  BY <1>1
<1>5. ASSUME NEW i \in 0..m
      PROVE  f[i] = IF i = 0 THEN R ELSE SnapshotWrite(f[i - 1], s, ws[i])
  <2>1. CASE i = m
    <3>1. f[m - 1] = g[m - 1] /\ f[m] = SnapshotWrite(g[m - 1], s, ws[m])
      BY <1>2, <1>4
    <3> QED
      BY <1>2, <2>1, <3>1
  <2>2. CASE i # m
    <3>1. i \in 0..(m - 1) /\ f[i] = g[i]
      BY <1>4, <2>2
    <3>2. g[i] = IF i = 0 THEN R ELSE SnapshotWrite(g[i - 1], s, ws[i])
      BY <1>3, <3>1 DEF Stages
    <3>3. i # 0 => i - 1 \in 0..m /\ i - 1 # m
      BY <1>4, <2>2
    <3>4. i # 0 => f[i - 1] = g[i - 1]
      BY <3>3
    <3> HIDE DEF f
    <3> QED
      BY <3>1, <3>2, <3>4
  <2> QED
    BY <2>1, <2>2
<1>6. f = [i \in 0..m |-> f[i]]
  OBVIOUS
<1>7. Stages(f, R, s, ws, m)
  <2> HIDE DEF f
  <2> QED
    BY <1>5, <1>6 DEF Stages
<1> QED
  BY <1>1, <1>7

(* ApplySnapshot goes through those stages and then writes the checkpoint. *)
LEMMA ApplySnapshotIs ==
    ASSUME NEW R, NEW s, NEW replace, NEW ws, ws = SnapshotWrites(R, s, replace), Len(ws) \in Nat
    PROVE  \E f : /\ Stages(f, R, s, ws, Len(ws))
                  /\ ApplySnapshot(R, s, replace).trail =
                        [i \in 1..(Len(ws) + 2) |->
                           IF i <= Len(ws) + 1 THEN f[i - 1]
                           ELSE [f[Len(ws)] EXCEPT !.cursor = s.cursor]]
<1>1. PICK f : f = CHOOSE states : states = [i \in 0..Len(ws) |->
                      IF i = 0 THEN R ELSE SnapshotWrite(states[i - 1], s, ws[i])]
  OBVIOUS
<1>2. Stages(f, R, s, ws, Len(ws))
  <2>1. \E g : g = [i \in 0..Len(ws) |-> IF i = 0 THEN R ELSE SnapshotWrite(g[i - 1], s, ws[i])]
    <3>1. \E g : Stages(g, R, s, ws, Len(ws))
      BY StagesExist
    <3> QED
      BY <3>1 DEF Stages
  <2>2. f = [i \in 0..Len(ws) |-> IF i = 0 THEN R ELSE SnapshotWrite(f[i - 1], s, ws[i])]
    BY <1>1, <2>1
  <2> QED
    BY <2>2 DEF Stages
<1>3. ApplySnapshot(R, s, replace).trail =
         [i \in 1..(Len(ws) + 2) |-> IF i <= Len(ws) + 1 THEN f[i - 1]
                                     ELSE [f[Len(ws)] EXCEPT !.cursor = s.cursor]]
  BY <1>1 DEF ApplySnapshot
<1> QED
  BY <1>2, <1>3

(* Every stage is untouched, the first one is the replica itself, and the   *)
(* last state has the snapshot's cursor as its checkpoint.                  *)
SnapshotTrail(t, s) ==
    /\ DOMAIN t = 1..Len(t) /\ Len(t) \in Nat /\ Len(t) >= 2 /\ t[1] = rep
    /\ \A n \in 1..Len(t) : n # Len(t) => Untouched(t[n])
    /\ \E R : Untouched(R) /\ t[Len(t)] = [R EXCEPT !.cursor = s.cursor]

(* The states apply_snapshot goes through are such a trail. *)
LEMMA ApplySnapshotSound ==
    ASSUME Inv, NEW s \in Snapshots, NEW replace \in BOOLEAN,
           NEW t, t = ApplySnapshot(rep, s, replace).trail
    PROVE  SnapshotTrail(t, s)
<1>1. PICK ws : ws = SnapshotWrites(rep, s, replace)
  OBVIOUS
<1>2. ws \in Seq(Steps(s))
  BY <1>1, SnapshotWritesForm DEF Inv, Types
<1>3. PICK m : m = Len(ws)
  OBVIOUS
<1>4. m \in Nat /\ \A i \in 1..m : ws[i] \in Steps(s)
  BY <1>2, <1>3
<1>5. PICK f : /\ Stages(f, rep, s, ws, m)
               /\ t = [i \in 1..(m + 2) |-> IF i <= m + 1 THEN f[i - 1]
                                            ELSE [f[m] EXCEPT !.cursor = s.cursor]]
  <2>1. Len(ws) \in Nat
    BY <1>3, <1>4
  <2>2. \E f : /\ Stages(f, rep, s, ws, Len(ws))
               /\ ApplySnapshot(rep, s, replace).trail =
                     [i \in 1..(Len(ws) + 2) |-> IF i <= Len(ws) + 1 THEN f[i - 1]
                                                 ELSE [f[Len(ws)] EXCEPT !.cursor = s.cursor]]
    BY <1>1, <2>1, ApplySnapshotIs
  <2> QED
    BY <1>3, <2>2
<1>6. \A i \in 0..m : Untouched(f[i])
  <2> DEFINE T == {j \in 0..m : ~ Untouched(f[j])}
  <2> SUFFICES ASSUME T # {} PROVE FALSE
    OBVIOUS
  <2>1. PICK j \in T : \A x \in T : j <= x
    <3>1. T \in SUBSET Nat
      BY <1>4
    <3> HIDE DEF T
    <3> QED
      BY <3>1, LeastNumber
  <2>2. j \in 0..m /\ ~ Untouched(f[j])
    BY <2>1
  <2>3. CASE j = 0
    <3>1. f[0] = rep
      BY <1>4, <1>5 DEF Stages
    <3>2. Untouched(rep)
      BY DEF Untouched, Inv, Types, EventsThere
    <3> QED
      BY <2>2, <2>3, <3>1, <3>2
  <2>4. CASE j # 0
    <3>1. j - 1 \in 0..m /\ j - 1 \notin T /\ j \in 1..m
      BY <1>4, <2>1, <2>2, <2>4
    <3>2. Untouched(f[j - 1])
      BY <3>1
    <3>3. f[j] = SnapshotWrite(f[j - 1], s, ws[j])
      BY <1>5, <2>2, <2>4 DEF Stages
    <3>4. PICK R, w : R = f[j - 1] /\ w = ws[j]
      OBVIOUS
    <3>5. Untouched(SnapshotWrite(R, s, w))
      BY <1>4, <3>1, <3>2, <3>4, SnapshotWriteSound
    <3> QED
      BY <2>2, <3>3, <3>4, <3>5
  <2> QED
    BY <2>3, <2>4
<1>7. DOMAIN t = 1..(m + 2) /\ Len(t) = m + 2
  BY <1>4, <1>5
<1>8. t[1] = rep
  <2>1. f[0] = rep
    BY <1>4, <1>5 DEF Stages
  <2> QED
    BY <1>4, <1>5, <2>1
<1>9. ASSUME NEW n \in 1..(m + 2), n # m + 2 PROVE Untouched(t[n])
  <2>1. n - 1 \in 0..m /\ t[n] = f[n - 1]
    BY <1>4, <1>5, <1>9
  <2> QED
    BY <1>6, <2>1
<1>10. t[m + 2] = [f[m] EXCEPT !.cursor = s.cursor] /\ Untouched(f[m])
  <2>1. t[m + 2] = [f[m] EXCEPT !.cursor = s.cursor]
    BY <1>4, <1>5
  <2> QED
    BY <1>4, <1>6, <2>1
<1> QED
  BY <1>4, <1>7, <1>8, <1>9, <1>10 DEF SnapshotTrail

-----------------------------------------------------------------------------
(* The requests that reach the replica. *)

(* A page was applied, to its end or not. *)
LEMMA PageHandled ==
    ASSUME Inv, UNCHANGED <<svars, basis, broken>>, NEW page \in Pages, PageFits(page),
           NEW e, e = page[Len(page)], NEW R, rep' = R, Landed(R, e),
           cli'.cursor \in Nat, DOMAIN cli' = {"cursor", "wait"}, cli'.cursor <= R.cursor,
           \/ cli'.wait = None
           \/ /\ cli' = cli
              /\ cli.wait # None /\ cli.wait.kind = "snapshot" => e <= cli.wait.snap.cursor,
           late' = late \/ late' = None
    PROVE  Inv'
<1>0. /\ R \in Replicas /\ rep.cursor <= R.cursor /\ R.cursor \in Nat
      /\ R.cursor = rep.cursor \/ R.cursor = e
      /\ e <= Len(log) /\ R.cursor <= Len(log)
  <2>1. R \in Replicas /\ rep.cursor <= R.cursor /\ (R.cursor = rep.cursor \/ R.cursor = e)
    BY DEF Landed
  <2>2. e <= Len(log)
    BY DEF PageFits
  <2>3. rep.cursor <= Len(log)
    BY DEF Inv, CursorsOrdered
  <2>4. R.cursor \in Nat
    BY <2>1 DEF Replicas
  <2> QED
    BY <2>1, <2>2, <2>3, <2>4
<1>1. Types'
  BY <1>0 DEF Inv, Types, svars
<1>2. CursorsOrdered'
  BY <1>0, Numbers DEF Inv, CursorsOrdered, svars, Landed
<1>3. ASSUME NEW p \in Pages, PageFits(p) PROVE PageFits(p)'
  <2>1. p[1] \in Nat
    BY DEF Pages
  <2> QED
    BY <1>0, <1>3, <2>1, Numbers DEF PageFits, svars
<1>4. late' # None => PageFits(late.page)'
  <2>1. CASE late' = None
    BY <2>1
  <2>2. CASE late' = late
    <3>1. late # None => late.page \in Pages /\ PageFits(late.page)
      BY DEF Inv, Types, RequestsFit
    <3>2. late # None => PageFits(late.page)' /\ late'.page = late.page
      BY <1>3, <2>2, <3>1 DEF PageFits
    <3> QED
      BY <2>2, <3>2
  <2> QED
    BY <2>1, <2>2
<1>5. cli'.wait # None /\ cli'.wait.kind = "page" => PageFits(cli.wait.page)'
  <2>1. CASE cli'.wait = None
    BY <2>1
  <2>2. CASE cli' = cli
    <3>1. cli.wait # None /\ cli.wait.kind = "page" =>
             cli.wait.page \in Pages /\ PageFits(cli.wait.page)
      BY DEF Inv, Types, Requests, RequestsFit
    <3> QED
      BY <1>3, <2>2, <3>1 DEF PageFits
  <2> QED
    BY <2>1, <2>2
<1>6. cli'.wait # None /\ cli'.wait.kind = "snapshot" => SnapshotFits(cli.wait.snap)'
  <2>1. CASE cli'.wait = None
    BY <2>1
  <2>2. CASE cli'.wait # None /\ cli'.wait.kind = "snapshot"
    <3>1. cli' = cli /\ e <= cli.wait.snap.cursor
      BY <2>2
    <3>2. SnapshotFits(cli.wait.snap) /\ cli.wait.snap \in Snapshots
      BY <2>2, <3>1 DEF Inv, RequestsFit, Types, Requests
    <3>3. PICK s : s = cli.wait.snap
      OBVIOUS
    <3>4. /\ s.cursor = s.at /\ rep.cursor <= s.cursor /\ s.cursor <= Len(log)
          /\ late # None => late.page[Len(late.page)] <= s.cursor
      BY <3>2, <3>3 DEF SnapshotFits
    <3>5. R.cursor <= s.cursor
      BY <1>0, <3>1, <3>3, <3>4
    <3>6. late' # None => late'.page[Len(late'.page)] <= s.cursor
      BY <3>4
    <3>7. cli'.wait.snap = s /\ log' = log
      BY <3>1, <3>3 DEF svars
    <3> QED
      BY <3>4, <3>5, <3>6, <3>7 DEF SnapshotFits
  <2> QED
    BY <2>1, <2>2
<1>7. RequestsFit'
  BY <1>4, <1>5, <1>6 DEF RequestsFit
<1>8. Ahead'
  <2>1. ~broken => AheadOf(R, R.cursor)
    BY DEF Landed
  <2> QED
    BY <2>1 DEF Ahead, AheadOf, ValueAt, svars
<1>9. EventsThere'
  <2>1. MarksRight(R) /\ EventsTo(R, R.cursor)
    BY DEF Landed
  <2>2. MarksRight(rep)'
    BY <2>1 DEF MarksRight, svars
  <2>3. EventsTo(rep, rep.cursor)'
    BY <2>1 DEF EventsTo, HasKey, svars
  <2> QED
    BY <2>2, <2>3 DEF EventsThere
<1> QED
  BY <1>1, <1>2, <1>7, <1>8, <1>9 DEF Inv

(* A snapshot was applied: its contents are the new basis, its cursor the   *)
(* checkpoint, and no change of the log is missing.                         *)
LEMMA SnapshotHandled ==
    ASSUME Inv, UNCHANGED <<svars, late>>, NEW s \in Snapshots, SnapshotFits(s),
           NEW R, Untouched(R), rep' = [R EXCEPT !.cursor = s.cursor],
           basis' = [obj |-> rep'.obj, at |-> s.at], broken' = FALSE,
           cli'.cursor \in Nat, DOMAIN cli' = {"cursor", "wait"}, cli'.cursor <= s.cursor,
           cli'.wait = None
    PROVE  Inv'
<1>0. /\ s.cursor = s.at /\ rep.cursor <= s.cursor /\ s.cursor <= Len(log) /\ s.cursor \in Nat
  BY DEF SnapshotFits, Snapshots
<1>1. /\ rep' \in Replicas /\ rep'.cursor = s.cursor /\ rep'.obj = R.obj
      /\ rep'.events = R.events /\ rep'.conflicts = rep.conflicts /\ rep'.obj \in Contents
  BY <1>0 DEF Untouched, Replicas
<1>2. basis'.obj = rep'.obj /\ basis'.at = s.cursor /\ basis' \in [obj : Contents, at : Nat]
  BY <1>0, <1>1
<1>3. Types'
  <2>1. broken' \in BOOLEAN
    OBVIOUS
  <2> QED
    BY <1>1, <1>2, <2>1 DEF Inv, Types, svars
<1>4. CursorsOrdered'
  BY <1>0, <1>1, <1>2, Numbers DEF Inv, CursorsOrdered, svars
<1>5. late # None => PageFits(late.page)'
  <2> SUFFICES ASSUME late # None PROVE PageFits(late.page)'
    OBVIOUS
  <2>1. PICK p : p = late.page
    OBVIOUS
  <2>2. p \in Pages /\ PageFits(p)
    BY <2>1 DEF Inv, Types, RequestsFit
  <2>3. p[1] \in Nat
    BY <2>2 DEF Pages
  <2>4. p[1] >= 1 /\ p[1] <= rep'.cursor + 1 /\ p[Len(p)] <= Len(log')
    BY <1>0, <1>1, <2>2, <2>3, Numbers DEF PageFits, svars
  <2> QED
    BY <2>1, <2>4 DEF PageFits
<1>6. RequestsFit'
  BY <1>5 DEF RequestsFit, PageFits, SnapshotFits
<1>7. Ahead'
  <2> SUFFICES ASSUME NEW k \in Keys
               PROVE  \E n \in rep'.cursor..Len(log') : ValueAt(k, n, rep.obj[k])'
    BY DEF Ahead, AheadOf
  <2>1. s.cursor \in rep'.cursor..Len(log')
    BY <1>0, <1>1, Numbers DEF svars
  <2>2. (basis'.at + 1)..s.cursor = {}
    BY <1>0, <1>2
  <2>3. ValueAt(k, s.cursor, rep.obj[k])'
    BY <1>2, <2>2 DEF ValueAt
  <2> QED
    BY <2>1, <2>3
<1>8. EventsThere'
  <2>1. MarksRight(R)
    BY DEF Untouched
  <2>2. MarksRight(rep)'
    BY <1>1, <2>1 DEF MarksRight, svars
  <2>3. (basis'.at + 1)..rep'.cursor = {}
    BY <1>0, <1>1, <1>2
  <2>4. EventsTo(rep, rep.cursor)'
    BY <2>3 DEF EventsTo
  <2> QED
    BY <2>2, <2>4 DEF EventsThere
<1> QED
  BY <1>3, <1>4, <1>6, <1>7, <1>8 DEF Inv

(* A snapshot was cut: until one completes nothing is said of the objects.  *)
LEMMA SnapshotCut ==
    ASSUME Inv, UNCHANGED <<svars, late, basis>>, NEW R, Untouched(R), rep' = R,
           broken' = TRUE, cli'.cursor = cli.cursor, DOMAIN cli' = {"cursor", "wait"},
           cli'.wait = None
    PROVE  Inv'
<1>0. R \in Replicas /\ R.cursor = rep.cursor /\ R.conflicts = rep.conflicts
  BY DEF Untouched
<1>1. Types'
  <2>1. broken' \in BOOLEAN
    OBVIOUS
  <2> QED
    BY <1>0, <2>1 DEF Inv, Types, svars
<1>2. CursorsOrdered'
  BY <1>0 DEF Inv, CursorsOrdered, svars
<1>3. RequestsFit'
  BY <1>0 DEF Inv, RequestsFit, PageFits, SnapshotFits, svars
<1>4. Ahead'
  BY DEF Ahead
<1>5. EventsThere'
  <2>1. MarksRight(R) /\ EventsTo(R, R.cursor)
    BY <1>0 DEF Untouched
  <2>2. MarksRight(rep)'
    BY <2>1 DEF MarksRight, svars
  <2>3. EventsTo(rep, rep.cursor)'
    BY <2>1 DEF EventsTo, HasKey, svars
  <2> QED
    BY <2>2, <2>3 DEF EventsThere
<1> QED
  BY <1>1, <1>2, <1>3, <1>4, <1>5 DEF Inv

(* The states a request may leave, and that it may end in the last one. *)
LEMMA PageEffect ==
    ASSUME Inv, NEW req, req.kind = "page", req.page \in Pages, PageFits(req.page),
           NEW a, a = Effect(req), NEW n \in DOMAIN a.trail, Handle(req, a, n),
           NEW e, e = req.page[Len(req.page)]
    PROVE  /\ Landed(rep', e) /\ UNCHANGED <<basis, broken>>
           /\ n = Len(a.trail) /\ a.ok => e <= rep'.cursor
<1>1. PICK page : page = req.page
  OBVIOUS
<1>2. page \in Pages /\ PageFits(page) /\ e = page[Len(page)] /\ a = Apply(rep, page)
  BY <1>1 DEF Effect
<1>3. /\ \A m \in DOMAIN a.trail : Landed(a.trail[m], e)
      /\ a.ok => e <= a.trail[Len(a.trail)].cursor
  BY <1>2, ApplySound
<1>4. rep' = a.trail[n] /\ basis' = basis
  BY DEF Handle
<1>5. broken' = broken
  <2>1. broken \in BOOLEAN
    BY DEF Inv, Types
  <2>2. broken' = (broken \/ (req.kind = "snapshot" /\ n > 1))
    BY DEF Handle
  <2> QED
    BY <2>1, <2>2
<1> QED
  BY <1>3, <1>4, <1>5

(* A request `sync` waits for reaches the replica, which may be cut off in  *)
(* it; a is its effect and cursor what `sync` makes of the answer.          *)
LEMMA RequestHandled ==
    ASSUME Inv, cli.wait # None, UNCHANGED <<svars, late>>, NEW a, a = Effect(cli.wait),
           NEW n \in DOMAIN a.trail, Handle(cli.wait, a, n),
           NEW cursor, cli' = [cursor |-> cursor, wait |-> None],
           \/ cursor = cli.cursor
           \/ /\ n = Len(a.trail) /\ a.ok
              /\ cursor = IF cli.wait.kind = "page" THEN Last(cli.wait.page)
                          ELSE cli.wait.snap.cursor
    PROVE  Inv' /\ rep.cursor <= rep'.cursor
<1>0. /\ cli'.cursor = cursor /\ cli'.wait = None /\ DOMAIN cli' = {"cursor", "wait"}
      /\ cli.cursor \in Nat /\ cli.cursor <= rep.cursor /\ rep.cursor \in Nat
      /\ cli.wait \in Requests
  BY Numbers DEF Inv, CursorsOrdered, Types
<1>1. PICK req : req = cli.wait
  OBVIOUS
<1>2. CASE req.kind = "page"
  <2>1. PICK page, e : page = req.page /\ e = page[Len(page)]
    OBVIOUS
  <2>2. page \in Pages /\ PageFits(page)
    BY <1>0, <1>1, <1>2, <2>1 DEF Inv, RequestsFit, Requests
  <2>3. /\ Landed(rep', e) /\ UNCHANGED <<basis, broken>>
        /\ n = Len(a.trail) /\ a.ok => e <= rep'.cursor
    <3>1. req.page \in Pages /\ PageFits(req.page) /\ e = req.page[Len(req.page)]
      BY <2>1, <2>2
    <3>2. a = Effect(req) /\ Handle(req, a, n)
      BY <1>1
    <3> QED
      BY <1>2, <3>1, <3>2, PageEffect
  <2>4. e \in Nat
    <3>1. page \in Seq(Nat) /\ page # <<>>
      BY <2>2 DEF Pages
    <3> QED
      BY <2>1, <3>1
  <2>5. cursor \in Nat /\ cursor <= rep'.cursor
    <3>1. rep.cursor <= rep'.cursor /\ rep'.cursor \in Nat
      BY <2>3 DEF Landed, Replicas
    <3>2. CASE cursor = cli.cursor
      BY <1>0, <3>1, <3>2
    <3>3. CASE n = Len(a.trail) /\ a.ok /\ cursor = e
      BY <2>3, <2>4, <3>3
    <3>4. cursor = cli.cursor \/ (n = Len(a.trail) /\ a.ok /\ cursor = e)
      BY <1>1, <1>2, <2>1 DEF Last
    <3> QED
      BY <3>2, <3>3, <3>4
  <2>6. PICK R : R = rep'
    OBVIOUS
  <2>7. Landed(R, e) /\ cursor <= R.cursor /\ rep' = R
    BY <2>3, <2>5, <2>6
  <2>8. Inv'
    <3>1. /\ cli'.cursor \in Nat /\ cli'.cursor <= R.cursor /\ cli'.wait = None
          /\ DOMAIN cli' = {"cursor", "wait"}
      BY <1>0, <2>5, <2>7
    <3>2. e = page[Len(page)] /\ UNCHANGED <<svars, basis, broken>>
      BY <2>1, <2>3
    <3> QED
      BY <2>2, <2>7, <3>1, <3>2, PageHandled
  <2> QED
    BY <2>3, <2>8 DEF Landed
<1>3. CASE req.kind # "page"
  <2>1. PICK s, replace, t : s = req.snap /\ replace = req.replace /\ t = a.trail
    OBVIOUS
  <2>2. req.kind = "snapshot" /\ s \in Snapshots /\ replace \in BOOLEAN
    BY <1>0, <1>1, <1>3, <2>1 DEF Requests
  <2>3. SnapshotFits(s)
    BY <1>1, <2>1, <2>2 DEF Inv, RequestsFit
  <2>4. t = ApplySnapshot(rep, s, replace).trail
    BY <1>1, <1>3, <2>1 DEF Effect
  <2>5. /\ DOMAIN t = 1..Len(t) /\ Len(t) \in Nat /\ Len(t) >= 2 /\ t[1] = rep
        /\ \A m \in 1..Len(t) : m # Len(t) => Untouched(t[m])
        /\ \E R : Untouched(R) /\ t[Len(t)] = [R EXCEPT !.cursor = s.cursor]
    <3>1. SnapshotTrail(t, s)
      BY <2>2, <2>4, ApplySnapshotSound
    <3> QED
      BY <3>1 DEF SnapshotTrail
  <2>6. n \in 1..Len(t) /\ rep' = t[n]
    BY <2>1, <2>5 DEF Handle
  <2>7. CASE n = Len(t)
    <3>1. PICK R : Untouched(R) /\ t[Len(t)] = [R EXCEPT !.cursor = s.cursor]
      BY <2>5
    <3>2. basis' = [obj |-> rep'.obj, at |-> s.at] /\ broken' = FALSE
      BY <1>1, <2>1, <2>2, <2>7 DEF Handle
    <3>3. rep.cursor <= s.cursor /\ s.cursor \in Nat
      BY <2>2, <2>3 DEF SnapshotFits, Snapshots
    <3>4. cursor \in Nat /\ cursor <= s.cursor
      <4>1. cursor = cli.cursor \/ cursor = s.cursor
        BY <1>1, <1>3, <2>1
      <4> QED
        BY <1>0, <3>3, <4>1
    <3>5. rep' = [R EXCEPT !.cursor = s.cursor]
      BY <2>6, <2>7, <3>1
    <3>6. Inv'
      BY <1>0, <2>2, <2>3, <3>1, <3>2, <3>4, <3>5, SnapshotHandled
    <3>7. rep'.cursor = s.cursor
      BY <3>1, <3>5 DEF Untouched, Replicas
    <3> QED
      BY <3>3, <3>6, <3>7
  <2>8. CASE n # Len(t)
    <3>1. PICK R : R = t[n]
      OBVIOUS
    <3>2. Untouched(R) /\ rep' = R
      BY <2>5, <2>6, <2>8, <3>1
    <3>3. basis' = basis /\ broken' = (broken \/ n > 1)
      BY <1>1, <2>1, <2>2, <2>8 DEF Handle
    <3>4. cursor = cli.cursor
      BY <2>1, <2>8
    <3>5. rep.cursor <= rep'.cursor
      BY <1>0, <3>2 DEF Untouched
    <3>6. CASE n = 1
      <4>1. rep' = rep
        BY <2>5, <2>6, <3>6
      <4>2. broken' = broken
        <5>1. broken \in BOOLEAN /\ ~(n > 1)
          BY <3>6 DEF Inv, Types
        <5> QED
          BY <3>3, <5>1
      <4>3. Types' /\ CursorsOrdered' /\ RequestsFit'
        <5>1. Types'
          BY <1>0, <3>3, <3>4, <4>1, <4>2 DEF Inv, Types, svars
        <5>2. CursorsOrdered'
          BY <1>0, <3>3, <3>4, <4>1 DEF Inv, CursorsOrdered, svars
        <5>3. RequestsFit'
          BY <1>0, <4>1 DEF Inv, RequestsFit, PageFits, SnapshotFits, svars
        <5> QED
          BY <5>1, <5>2, <5>3
      <4>4. Ahead' /\ EventsThere'
        BY <3>3, <4>1, <4>2, ReplicaStays DEF svars
      <4> QED
        BY <3>5, <4>3, <4>4 DEF Inv
    <3>7. CASE n # 1
      <4>1. broken' = TRUE
        <5>1. n > 1
          BY <2>5, <2>6, <3>7
        <5> QED
          BY <3>3, <5>1
      <4>2. Inv'
        BY <1>0, <3>2, <3>3, <3>4, <4>1, SnapshotCut
      <4> QED
        BY <3>5, <4>2
    <3> QED
      BY <3>6, <3>7
  <2> QED
    BY <2>7, <2>8
<1> QED
  BY <1>2, <1>3

(* The answer arrives. *)
LEMMA DeliverInv ==
    ASSUME Inv, Deliver
    PROVE  Inv' /\ rep.cursor <= rep'.cursor
<1>1. PICK a, n : a = Effect(cli.wait) /\ n = Len(a.trail)
  OBVIOUS
<1>2. n \in DOMAIN a.trail
  <2>1. CASE cli.wait.kind = "page"
    <3>1. PICK page, e : page = cli.wait.page /\ e = page[Len(page)]
      OBVIOUS
    <3>2. page \in Pages /\ PageFits(page)
      BY <2>1, <3>1 DEF Inv, Types, Requests, RequestsFit, Deliver
    <3>3. a = Apply(rep, page)
      BY <1>1, <2>1, <3>1 DEF Effect
    <3> QED
      BY <1>1, <3>1, <3>2, <3>3, ApplySound
  <2>2. CASE cli.wait.kind # "page"
    <3>1. PICK s, replace, t : s = cli.wait.snap /\ replace = cli.wait.replace /\ t = a.trail
      OBVIOUS
    <3>2. s \in Snapshots /\ replace \in BOOLEAN
      BY <2>2, <3>1 DEF Inv, Types, Requests, Deliver
    <3>3. t = ApplySnapshot(rep, s, replace).trail
      BY <1>1, <2>2, <3>1 DEF Effect
    <3>4. SnapshotTrail(t, s)
      BY <3>2, <3>3, ApplySnapshotSound
    <3>5. Len(t) \in 1..Len(t) /\ DOMAIN t = 1..Len(t)
      BY <3>4 DEF SnapshotTrail
    <3> QED
      BY <1>1, <3>1, <3>5
  <2> QED
    BY <2>1, <2>2
<1>3. PICK cursor : cursor = IF ~a.ok THEN cli.cursor
                             ELSE IF cli.wait.kind = "page" THEN Last(cli.wait.page)
                             ELSE cli.wait.snap.cursor
  OBVIOUS
<1>4. /\ cli.wait # None /\ UNCHANGED <<svars, late>> /\ Handle(cli.wait, a, n)
      /\ cli' = [cursor |-> cursor, wait |-> None]
  BY <1>1, <1>3 DEF Deliver, Source
<1>5. \/ cursor = cli.cursor
      \/ /\ n = Len(a.trail) /\ a.ok
         /\ cursor = IF cli.wait.kind = "page" THEN Last(cli.wait.page)
                     ELSE cli.wait.snap.cursor
  BY <1>1, <1>3
<1> QED
  BY <1>1, <1>2, <1>4, <1>5, RequestHandled

(* The replica stops somewhere in the request, or its answer is lost. *)
LEMMA UnansweredInv ==
    ASSUME Inv, Unanswered
    PROVE  Inv' /\ rep.cursor <= rep'.cursor
<1>1. PICK a : a = Effect(cli.wait)
  OBVIOUS
<1>2. PICK n \in DOMAIN a.trail : Handle(cli.wait, a, n)
  BY <1>1 DEF Unanswered
<1>3. PICK cursor : cursor = cli.cursor
  OBVIOUS
<1>4. /\ cli.wait # None /\ UNCHANGED <<svars, late>>
      /\ cli' = [cursor |-> cursor, wait |-> None]
  <2>1. cli' = [cli EXCEPT !.wait = None] /\ DOMAIN cli = {"cursor", "wait"}
    BY DEF Unanswered, Inv, Types
  <2>2. cli' = [cursor |-> cursor, wait |-> None]
    BY <1>3, <2>1
  <2> QED
    BY <2>2 DEF Unanswered, Source
<1> QED
  BY <1>1, <1>2, <1>3, <1>4, RequestHandled

(* A page that `sync` had given up arrives. *)
LEMMA DeliverLateInv ==
    ASSUME Inv, DeliverLate
    PROVE  Inv' /\ rep.cursor <= rep'.cursor
<1>0. /\ late # None /\ late' = None /\ UNCHANGED <<svars, cli>>
      /\ late \in [kind : {"page"}, page : Pages] /\ PageFits(late.page)
  BY DEF DeliverLate, Source, Inv, Types, RequestsFit
<1>1. PICK a, n, req : req = late /\ a = Effect(req) /\ n = Len(a.trail)
  OBVIOUS
<1>2. PICK page, e : page = req.page /\ e = page[Len(page)]
  OBVIOUS
<1>3. req.kind = "page" /\ page \in Pages /\ PageFits(page) /\ a = Apply(rep, page)
  BY <1>0, <1>1, <1>2 DEF Effect
<1>4. n \in DOMAIN a.trail
  BY <1>1, <1>2, <1>3, ApplySound
<1>5. Handle(req, a, n)
  BY <1>1 DEF DeliverLate
<1>6. Landed(rep', e) /\ UNCHANGED <<basis, broken>>
  <2>1. req.page \in Pages /\ PageFits(req.page) /\ e = req.page[Len(req.page)]
    BY <1>2, <1>3
  <2>2. a = Effect(req)
    BY <1>1
  <2> QED
    BY <1>3, <1>4, <1>5, <2>1, <2>2, PageEffect
<1>7. PICK R : R = rep'
  OBVIOUS
<1>8. Landed(R, e) /\ rep' = R /\ rep.cursor <= R.cursor /\ R.cursor \in Nat
  BY <1>6, <1>7 DEF Landed, Replicas
<1>9. /\ cli'.cursor \in Nat /\ DOMAIN cli' = {"cursor", "wait"} /\ cli'.cursor <= R.cursor
  BY <1>0, <1>8, Numbers DEF Inv, Types, CursorsOrdered
<1>10. cli.wait # None /\ cli.wait.kind = "snapshot" => e <= cli.wait.snap.cursor
  BY <1>0, <1>1, <1>2 DEF Inv, RequestsFit, SnapshotFits
<1>11. Inv'
  <2>1. cli' = cli /\ UNCHANGED <<svars, basis, broken>> /\ e = page[Len(page)]
    BY <1>0, <1>2, <1>6
  <2> QED
    BY <1>0, <1>3, <1>8, <1>9, <1>10, <2>1, PageHandled
<1> QED
  BY <1>8, <1>11

-----------------------------------------------------------------------------
(* The invariant, and what follows from it. *)

(* It holds at the start, whatever objects the replica has of its own. *)
LEMMA InitInv ==
    ASSUME Init
    PROVE  Inv
<1>1. PICK own \in SUBSET Keys : \E b \in Bodies :
          rep = [obj |-> [k \in Keys |-> IF k \in own THEN b ELSE None],
                 prov |-> {}, cursor |-> 0, conflicts |-> {}, events |-> <<>>]
  BY DEF Init
<1>2. PICK b \in Bodies :
          rep = [obj |-> [k \in Keys |-> IF k \in own THEN b ELSE None],
                 prov |-> {}, cursor |-> 0, conflicts |-> {}, events |-> <<>>]
  BY <1>1
<1>3. /\ rep.obj \in Contents /\ rep.cursor = 0 /\ rep.conflicts = {} /\ rep.events = <<>>
      /\ rep \in Replicas
  BY <1>2 DEF Contents, Values, Replicas
<1>4. Len(log) = 0 /\ basis.at = 0 /\ basis.obj = rep.obj /\ cli.wait = None /\ late = None
  BY DEF Init
<1>5. Types
  <2>1. src \in Contents /\ broken \in BOOLEAN
    BY DEF Init, Contents, Values
  <2>2. log \in Seq(Changes) /\ events \in Seq(BOOLEAN) /\ pending \in [Clients -> Seq(Changes)]
    BY DEF Init
  <2> QED
    BY <1>3, <1>4, <2>1, <2>2 DEF Types, Init
<1>6. CursorsOrdered
  BY <1>3, <1>4 DEF CursorsOrdered, Init
<1>7. RequestsFit
  BY <1>4 DEF RequestsFit
<1>8. Ahead
  <2> SUFFICES ASSUME NEW k \in Keys PROVE \E n \in 0..0 : ValueAt(k, n, rep.obj[k])
    BY <1>3, <1>4 DEF Ahead, AheadOf
  <2>1. ValueAt(k, 0, rep.obj[k])
    BY <1>4 DEF ValueAt
  <2> QED
    BY <2>1
<1>9. EventsThere
  BY <1>3, <1>4 DEF EventsThere, MarksRight, EventsTo
<1> QED
  BY <1>5, <1>6, <1>7, <1>8, <1>9 DEF Inv

(* Every step keeps it and moves the checkpoint, if at all, forward. *)
LEMMA NextInv ==
    ASSUME Inv, Orderly, [Next]_vars
    PROVE  Inv' /\ rep.cursor <= rep'.cursor
<1>0. rep.cursor \in Nat
  BY Numbers
<1>1. ASSUME Inv', rep' = rep PROVE Inv' /\ rep.cursor <= rep'.cursor
  BY <1>0, <1>1
<1>2. CASE Writes
  <2>1. rep' = rep
    BY <1>2 DEF Writes, DeleteObject, PutObject, PutElsewhere, PutBatch, DeleteBatch,
                AppendEvent, RetryEvent, Replica
  <2> QED
    BY <1>1, <1>2, <2>1, WritesInv
<1>3. ASSUME NEW c \in Clients, McpWrites(c) PROVE Inv' /\ rep.cursor <= rep'.cursor
  <2>1. rep' = rep
    BY <1>3 DEF McpWrites, McpDelete, McpPut, McpPutBatch, McpDeleteBatch, McpAppendEvent,
                McpWrite, Replica
  <2> QED
    BY <1>1, <1>3, <2>1, McpWritesInv
<1>4. ASSUME NEW c \in Clients, McpRecord(c) PROVE Inv' /\ rep.cursor <= rep'.cursor
  <2>1. rep' = rep
    BY <1>4 DEF McpRecord, Replica
  <2> QED
    BY <1>1, <1>4, <2>1, McpRecordInv
<1>5. CASE ReportCheckpoint
  BY <1>1, <1>5, ReportInv DEF ReportCheckpoint, Replica
<1>6. ASSUME NEW to \in 1..MaxLog, Retain(to) PROVE Inv' /\ rep.cursor <= rep'.cursor
  <2>1. to \in Nat /\ rep' = rep
    <3>1. MaxLog \in Nat
      BY ReplicationConstants
    <3>2. to \in Nat
      BY <3>1
    <3> QED
      BY <1>6, <3>2 DEF Retain, Replica
  <2> QED
    BY <1>1, <1>6, <2>1, RetainInv
<1>7. CASE Pull
  BY <1>1, <1>7, PullInv DEF Pull
<1>8. ASSUME NEW replace \in BOOLEAN, Bootstrap(replace) PROVE Inv' /\ rep.cursor <= rep'.cursor
  BY <1>1, <1>8, BootstrapInv DEF Bootstrap
<1>9. CASE Reset
  BY <1>1, <1>9, ResetInv DEF Reset
<1>10. CASE GiveUp
  BY <1>1, <1>10, GiveUpInv DEF GiveUp
<1>11. CASE Deliver
  BY <1>11, DeliverInv
<1>12. CASE Unanswered
  BY <1>12, UnansweredInv
<1>13. CASE DeliverLate
  BY <1>13, DeliverLateInv
<1>14. CASE UNCHANGED vars
  <2>1. /\ UNCHANGED <<src, events, log, first, reported, pending>>
        /\ UNCHANGED <<rep, cli, late, basis, broken>>
    BY <1>14 DEF vars, svars
  <2>2. Grown /\ src' \in Contents /\ events' \in Seq(BOOLEAN)
        /\ pending' \in [Clients -> Seq(Changes)]
    BY <2>1 DEF Inv, Types, Grown
  <2>3. Inv'
    BY <2>1, <2>2, SourceStep
  <2> QED
    BY <1>1, <2>1, <2>3
<1> QED
  BY <1>2, <1>3, <1>4, <1>5, <1>6, <1>7, <1>8, <1>9, <1>10, <1>11, <1>12, <1>13, <1>14 DEF Next

(* The invariant of the specification, when no snapshot comes late and      *)
(* retention leaves the newest change.                                      *)
THEOREM Invariance == ASSUME Orderly PROVE Spec => []Inv
<1>1. Init => Inv
  BY InitInv
<1>2. Inv /\ [Next]_vars => Inv'
  BY NextInv
<1> QED
  BY <1>1, <1>2, PTL DEF Spec

(* The variables keep their types: cursors and conflicts stay within the    *)
(* log, and the replica's checkpoint is never beyond what the source has.   *)
THEOREM TypeCorrect == ASSUME Orderly PROVE Spec => []TypeOK
<1>1. Inv => TypeOK
  BY Numbers DEF Inv, Types, CursorsOrdered, TypeOK, Replicas, Contents, Values
<1> QED
  BY <1>1, Invariance, PTL

(* The checkpoint of the replica never moves back: not by a page that is    *)
(* sent again or arrives late, not by a batch cut short, and not by a       *)
(* snapshot (write_applied_cursor writes whatever cursor it is given).      *)
THEOREM CheckpointForward == ASSUME Orderly PROVE Spec => [][rep.cursor <= rep'.cursor]_vars
<1>1. Inv /\ [Next]_vars => [rep.cursor <= rep'.cursor]_vars
  BY NextInv
<1> QED
  BY <1>1, Invariance, PTL DEF Spec

(* At the end of the log only one prefix is left, and each key is what the  *)
(* whole log makes of it.                                                   *)
LEMMA ValueAtEnd ==
    ASSUME Inv, NEW k \in Keys, NEW v, ValueAt(k, Len(log), v)
    PROVE  v = Replayed(k)
<1>0. basis.at \in Nat /\ Len(log) \in Nat
  BY Numbers
<1>1. PICK S : S = {c \in (basis.at + 1)..Len(log) : log[c].key = k}
  OBVIOUS
<1>2. Replayed(k) = IF S = {} THEN basis.obj[k]
                    ELSE log[CHOOSE c \in S : \A d \in S : d <= c].body
  BY <1>1 DEF Replayed
<1>3. CASE v = basis.obj[k] /\ \A c \in (basis.at + 1)..Len(log) : log[c].key # k
  BY <1>1, <1>2, <1>3
<1>4. CASE \E c \in (basis.at + 1)..Len(log) :
              log[c].key = k /\ v = log[c].body /\ \A d \in (c + 1)..Len(log) : log[d].key # k
  <2>1. PICK c \in (basis.at + 1)..Len(log) :
              log[c].key = k /\ v = log[c].body /\ \A d \in (c + 1)..Len(log) : log[d].key # k
    BY <1>4
  <2>2. c \in S /\ \A d \in S : d <= c
    <3>1. ASSUME NEW d \in S, ~(d <= c) PROVE FALSE
      <4>1. d \in (c + 1)..Len(log) /\ log[d].key = k
        BY <1>0, <1>1, <3>1
      <4> QED
        BY <2>1, <4>1
    <3> QED
      BY <1>1, <2>1, <3>1
  <2>3. PICK m : m = CHOOSE x \in S : \A d \in S : d <= x
    OBVIOUS
  <2>4. m \in S /\ \A d \in S : d <= m
    BY <2>2, <2>3
  <2>5. m = c
    <3>1. m <= c /\ c <= m
      BY <2>2, <2>4
    <3>2. m \in Nat /\ c \in Nat
      BY <1>0, <1>1, <2>4
    <3> QED
      BY <3>1, <3>2
  <2> QED
    BY <1>2, <2>1, <2>2, <2>3, <2>5
<1> QED
  BY <1>3, <1>4 DEF ValueAt

(* A replica whose checkpoint is the end of the log is, key by key, the     *)
(* replay of the log over its last snapshot, for any number of keys, any    *)
(* page size and a log of any length (ReplicationService.apply,             *)
(* apply_object, apply_delete and apply_snapshot).                          *)
THEOREM ReplicaReplays == ASSUME Orderly PROVE Spec => []ReplicaIsReplay
<1>1. ASSUME Inv PROVE ReplicaIsReplay
  <2> SUFFICES ASSUME ~broken, rep.cursor = Len(log), NEW k \in Keys
               PROVE  rep.obj[k] = Replayed(k)
    BY DEF ReplicaIsReplay
  <2>1. PICK n \in rep.cursor..Len(log) : ValueAt(k, n, rep.obj[k])
    BY <1>1 DEF Inv, Ahead, AheadOf
  <2>2. n = Len(log)
    BY <1>1, Numbers
  <2> QED
    BY <1>1, <2>1, <2>2, ValueAtEnd
<1> QED
  BY <1>1, Invariance, PTL

(* Such a replica has applied every append logged since exactly once, with  *)
(* the event the change carries (apply_event, append_event).  An append     *)
(* that was retried is logged twice, and is two appends here.               *)
THEOREM AppendsOnce == ASSUME Orderly PROVE Spec => []AppendsAppliedOnce
<1>1. ASSUME Inv PROVE AppendsAppliedOnce
  <2> SUFFICES ASSUME rep.cursor = Len(log), NEW c \in (basis.at + 1)..Len(log),
                      log[c].op = "event.append"
               PROVE  /\ Cardinality({i \in DOMAIN rep.events :
                                         rep.events[i].key = <<"change", c>>}) = 1
                      /\ \A i \in DOMAIN rep.events :
                            rep.events[i].key = <<"change", c>> => rep.events[i].event = log[c].event
    BY DEF AppendsAppliedOnce
  <2>1. MarksRight(rep) /\ HasKey(rep, <<"change", c>>)
    BY <1>1 DEF Inv, EventsThere, EventsTo
  <2>2. PICK mark : mark = <<"change", c>>
    OBVIOUS
  <2>3. mark[1] = "change" /\ mark[2] = c
    BY <2>2
  <2>4. PICK j \in DOMAIN rep.events : rep.events[j].key = mark
    BY <2>1, <2>2 DEF HasKey
  <2>5. \A i \in DOMAIN rep.events : rep.events[i].key = mark => i = j
    BY <2>1, <2>3, <2>4 DEF MarksRight
  <2>6. {i \in DOMAIN rep.events : rep.events[i].key = mark} = {j}
    BY <2>4, <2>5
  <2>7. \A i \in DOMAIN rep.events : rep.events[i].key = mark => rep.events[i].event = log[c].event
    BY <2>1, <2>3 DEF MarksRight
  <2>8. Cardinality({i \in DOMAIN rep.events : rep.events[i].key = mark}) = 1
    BY <2>6, FS_Singleton
  <2> QED
    BY <2>2, <2>7, <2>8
<1> QED
  BY <1>1, Invariance, PTL
=============================================================================
