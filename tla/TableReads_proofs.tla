-------------------------- MODULE TableReads_proofs --------------------------
(***************************************************************************)
(* Proofs about the reads of ThingDB, for every set of keys, batches,      *)
(* tables and queries and every number of commits, flushes, compactions    *)
(* and retries: why a read may fail, and that the block cache stays within *)
(* its bound and true to the tables.                                       *)
(***************************************************************************)
EXTENDS TableReads, FiniteSetTheorems, WellFoundedInduction, TLAPS

-----------------------------------------------------------------------------
(* Sequences whose elements have no type of their own *)

IsSeq(s) == \E n \in Nat : DOMAIN s = 1..n /\ s = [i \in 1..n |-> s[i]]

(* Such a sequence is one over its own elements. *)
LEMMA SeqOfElements ==
    ASSUME NEW s, IsSeq(s)
    PROVE  /\ s \in Seq({s[i] : i \in DOMAIN s})
           /\ Len(s) \in Nat /\ DOMAIN s = 1..Len(s)
<1>1. PICK n \in Nat : DOMAIN s = 1..n /\ s = [i \in 1..n |-> s[i]]
  BY DEF IsSeq
<1>2. s \in [1..n -> {s[i] : i \in DOMAIN s}]
  BY <1>1
<1>3. s \in Seq({s[i] : i \in DOMAIN s})
  BY <1>2
<1> QED
  BY <1>3

(* The elements of an extended sequence. *)
LEMMA AppendSeq ==
    ASSUME NEW s, IsSeq(s), NEW e
    PROVE  /\ IsSeq(Append(s, e))
           /\ \A i \in DOMAIN s : i \in DOMAIN Append(s, e) /\ Append(s, e)[i] = s[i]
           /\ \A i \in DOMAIN Append(s, e) : i \in DOMAIN s \/ Append(s, e)[i] = e
<1> DEFINE T == {s[i] : i \in DOMAIN s} \cup {e}
<1>1. s \in Seq({s[i] : i \in DOMAIN s}) /\ Len(s) \in Nat /\ DOMAIN s = 1..Len(s)
  BY SeqOfElements
<1>2. s \in Seq(T)
  BY <1>1
<1>3. e \in T
  OBVIOUS
<1> HIDE DEF T
<1>4. /\ Append(s, e) \in Seq(T) /\ Len(Append(s, e)) = Len(s) + 1
      /\ \A i \in 1..Len(s) : Append(s, e)[i] = s[i]
      /\ Append(s, e)[Len(s) + 1] = e
  BY <1>2, <1>3
<1>5. DOMAIN Append(s, e) = 1..(Len(s) + 1)
  BY <1>4, <1>1
<1>6. IsSeq(Append(s, e))
  <2>1. PICK a : a = Append(s, e)
    OBVIOUS
  <2>2. a \in Seq(T) /\ Len(a) \in Nat
    BY <2>1, <1>4
  <2>3. a = [i \in 1..Len(a) |-> a[i]] /\ DOMAIN a = 1..Len(a)
    BY <2>2
  <2>4. IsSeq(a)
    BY <2>2, <2>3 DEF IsSeq
  <2> QED
    BY <2>1, <2>4
<1> QED
  BY <1>1, <1>4, <1>5, <1>6

-----------------------------------------------------------------------------
(* The invariant *)

SnapFields == {"state", "pending", "stateAfter", "pendingAfter", "stateMore", "pendingMore",
               "maps", "layers", "generation"}

Counts ==
    /\ ram \in BOOLEAN
    /\ generation \in Nat /\ changes \in Nat /\ began \in Nat
    /\ attempt \in Nat /\ skipped \in Nat
    /\ began <= changes
    /\ ~ram => generation = changes
    /\ IsSeq(layers)
    /\ DOMAIN snap = SnapFields /\ IsSeq(snap.layers) /\ snap.generation \in Nat

(* A table that is in use has its file. *)
FilesThere == \A i \in DOMAIN layers : layers[i].path \in DOMAIN files

(* A table that a read has captured is still in use or has its index. *)
Reachable(l) == l.id \in loaded \/ \E i \in DOMAIN layers : layers[i] = l
CapturedReachable == \A i \in DOMAIN snap.layers : Reachable(snap.layers[i])

(* Where a read is, which one it is, and how often it was overtaken. *)
Positions ==
    /\ pc \in {"idle", "done", "refused", "changed", "lookup", "full", "first", "pick", "check",
               "merge", "validate"}
    /\ pc \in {"lookup", "full", "first", "pick", "check", "merge", "validate"} => ~ram
    /\ pc = "lookup" => skipped < Len(snap.layers)
    /\ pc \in {"first", "pick", "check"} => op = "first" /\ attempt < FirstRetries
    /\ pc = "first" => changes >= began + attempt
    /\ pc \in {"pick", "check"} => snap.generation >= began + attempt
                                  /\ snap.generation <= generation
    /\ pc \in {"merge", "validate"} => /\ op \in {"page", "count"}
                                       /\ snap.generation + 1 >= began + attempt
                                       /\ snap.generation <= generation
    /\ pc = "changed" /\ op = "first" => changes >= began + FirstRetries
    /\ pc = "changed" /\ op # "first" => changes >= began + ScanAttempts

Overtaken == Counts /\ FilesThere /\ CapturedReachable /\ Positions

(* The numbers of attempts. *)
LEMMA Attempts ==
    ScanAttempts \in Nat /\ ScanAttempts >= 1 /\ FirstRetries \in Nat /\ FirstRetries >= 1
BY BoundsAssumption

(* The empty snapshot. *)
LEMMA NoSnapFacts ==
    /\ DOMAIN NoSnap = SnapFields /\ NoSnap.layers = <<>> /\ NoSnap.generation = 0
    /\ IsSeq(<<>>) /\ DOMAIN <<>> = {}
<1>1. DOMAIN <<>> = 1..0 /\ <<>> = [i \in 1..0 |-> <<>>[i]]
  OBVIOUS
<1>2. IsSeq(<<>>)
  BY <1>1 DEF IsSeq
<1>3. DOMAIN NoSnap = SnapFields /\ NoSnap.layers = <<>> /\ NoSnap.generation = 0
  BY DEF NoSnap, SnapFields
<1> QED
  BY <1>1, <1>2, <1>3

(* A step of a read changes no table; it is enough to look at what it       *)
(* captured and at where it is.                                             *)
LEMMA ReaderStep ==
    ASSUME Overtaken, UNCHANGED <<ram, layers, generation, files, changes>>, loaded \subseteq loaded',
           DOMAIN snap' = SnapFields, snap'.layers = <<>> \/ snap'.layers = layers
                                      \/ snap'.layers = snap.layers,
           snap'.generation \in Nat, attempt' \in Nat, skipped' \in Nat,
           began' \in Nat, began' <= changes, Positions'
    PROVE  Overtaken'
<1>1. Counts'
  BY NoSnapFacts DEF Overtaken, Counts
<1>2. FilesThere'
  BY DEF Overtaken, FilesThere
<1>3. CapturedReachable'
  <2>1. CASE snap'.layers = <<>>
    BY <2>1, NoSnapFacts DEF CapturedReachable
  <2>2. CASE snap'.layers = layers
    BY <2>2 DEF CapturedReachable, Reachable
  <2>3. CASE snap'.layers = snap.layers
    BY <2>3 DEF Overtaken, CapturedReachable, Reachable
  <2> QED
    BY <2>1, <2>2, <2>3
<1> QED
  BY <1>1, <1>2, <1>3 DEF Overtaken

(* A change of the database leaves the read where it is: its tables stay in *)
(* use or have their index loaded, and it has been overtaken once more.     *)
LEMMA ChangeStep ==
    ASSUME Overtaken, Changed, ~ram => generation' = generation + 1, ram => UNCHANGED generation,
           IsSeq(layers'), FilesThere', loaded \subseteq loaded',
           \A i \in DOMAIN layers :
               layers[i].id \in loaded' \/ \E j \in DOMAIN layers' : layers'[j] = layers[i]
    PROVE  Overtaken'
<1>1. UNCHANGED <<ram, op, pc, snap, attempt, skipped, began>> /\ changes' = changes + 1
  BY DEF Changed, reader
<1>2. Counts'
  BY <1>1 DEF Overtaken, Counts
<1>3. CapturedReachable'
  BY <1>1 DEF Overtaken, CapturedReachable, Reachable
<1>4. Positions'
  <2>1. generation <= generation' /\ generation' \in Nat /\ changes' \in Nat
    BY <1>1 DEF Overtaken, Counts
  <2> QED
    BY <1>1, <2>1, Attempts DEF Overtaken, Counts, Positions
<1> QED
  BY <1>2, <1>3, <1>4 DEF Overtaken

(* Initially the tables found have their files and nothing is read. *)
LEMMA InitOvertaken == Init => Overtaken
<1> SUFFICES ASSUME Init PROVE Overtaken
  OBVIOUS
<1>1. PICK ls \in FirstLayers :
          layers = IF ram THEN <<>>
                   ELSE [i \in DOMAIN ls |-> Layer(-i, <<0, i>>, ls[i].entries, ls[i].legacy)]
  BY DEF Init
<1>2. IsSeq(layers)
  <2>1. CASE ram
    BY <2>1, <1>1, NoSnapFacts
  <2>2. CASE ~ram
    <3>1. ls \in Seq([entries : Map, legacy : BOOLEAN])
      BY TablesAssumption
    <3>2. Len(ls) \in Nat /\ DOMAIN ls = 1..Len(ls)
      BY <3>1
    <3> DEFINE L(i) == Layer(-i, <<0, i>>, ls[i].entries, ls[i].legacy)
    <3> HIDE DEF L
    <3>3. layers = [i \in 1..Len(ls) |-> L(i)]
      BY <2>2, <1>1, <3>2 DEF L
    <3>4. DOMAIN layers = 1..Len(ls) /\ layers = [i \in 1..Len(ls) |-> layers[i]]
      BY <3>3
    <3> QED
      BY <3>2, <3>4 DEF IsSeq
  <2> QED
    BY <2>1, <2>2
<1>3. FilesThere
  <2>1. DOMAIN files = {layers[i].path : i \in DOMAIN layers}
    BY DEF Init
  <2> QED
    BY <2>1 DEF FilesThere
<1>4. Counts
  <2>1. /\ ram \in BOOLEAN /\ generation = 0 /\ changes = 0 /\ began = 0 /\ attempt = 0
        /\ skipped = 0 /\ snap = NoSnap
    BY DEF Init
  <2> QED
    BY <2>1, <1>2, NoSnapFacts DEF Counts
<1>5. CapturedReachable
  BY NoSnapFacts DEF Init, CapturedReachable
<1>6. Positions
  BY DEF Init, Positions
<1> QED
  BY <1>3, <1>4, <1>5, <1>6 DEF Overtaken

(* Commits, flushes and compactions (execute_group, flush_table_locked,     *)
(* compact_tables_locked).                                                  *)
LEMMA ChangesOvertake ==
    ASSUME Overtaken, NEW b, Commit(b) \/ CommitMemory(b) \/ Flush \/ Compact
    PROVE  Overtaken'
<1>1. CASE Commit(b)
  <2>1. Changed /\ generation' = generation + 1 /\ UNCHANGED <<layers, files, loaded>> /\ ~ram
    BY <1>1 DEF Commit
  <2>2. IsSeq(layers') /\ FilesThere'
    BY <2>1 DEF Overtaken, Counts, FilesThere
  <2> QED
    BY <2>1, <2>2, ChangeStep
<1>2. CASE CommitMemory(b)
  <2>1. Changed /\ ram /\ UNCHANGED <<layers, files, loaded, generation>>
    BY <1>2 DEF CommitMemory
  <2>2. IsSeq(layers') /\ FilesThere'
    BY <2>1 DEF Overtaken, Counts, FilesThere
  <2> QED
    BY <2>1, <2>2, ChangeStep
<1>3. CASE Flush
  <2>1. PICK new : /\ layers' = Append(layers, new) /\ files' = With(files, new.path, pending)
                   /\ UNCHANGED loaded /\ generation' = generation + 1 /\ Changed /\ ~ram
    BY <1>3 DEF Flush
  <2>2. IsSeq(layers)
    BY DEF Overtaken, Counts
  <2>3. /\ IsSeq(layers') /\ \A i \in DOMAIN layers : i \in DOMAIN layers' /\ layers'[i] = layers[i]
        /\ \A i \in DOMAIN layers' : i \in DOMAIN layers \/ layers'[i] = new
    BY <2>1, <2>2, AppendSeq
  <2>4. DOMAIN files' = DOMAIN files \cup {new.path}
    BY <2>1 DEF With
  <2>5. FilesThere'
    BY <2>3, <2>4 DEF Overtaken, FilesThere
  <2> QED
    BY <2>1, <2>3, <2>5, ChangeStep
<1>4. CASE Compact
  <2>1. PICK new : /\ layers' = <<new>>
                   /\ files' = With(Drop(files, {layers[i].path : i \in DOMAIN layers}),
                                    new.path, new.entries)
                   /\ loaded' = loaded \cup {layers[i].id : i \in DOMAIN layers}
                                       \cup (IF IndexKept(new) THEN {new.id} ELSE {})
                   /\ generation' = generation + 1 /\ Changed /\ ~ram
    BY <1>4 DEF Compact
  <2>2. DOMAIN <<new>> = 1..1 /\ <<new>> = [i \in 1..1 |-> <<new>>[i]] /\ <<new>>[1] = new
    OBVIOUS
  <2>3. IsSeq(layers')
    BY <2>1, <2>2 DEF IsSeq
  <2>4. new.path \in DOMAIN files'
    BY <2>1 DEF With
  <2>5. FilesThere'
    BY <2>1, <2>2, <2>4 DEF FilesThere
  <2>6. loaded \subseteq loaded' /\ \A i \in DOMAIN layers : layers[i].id \in loaded'
    BY <2>1
  <2> QED
    BY <2>1, <2>3, <2>5, <2>6, ChangeStep
<1> QED
  BY <1>1, <1>2, <1>3, <1>4

(* A call that answers at once, or fails. *)
LEMMA AtOnce ==
    ASSUME Overtaken, Nothing, UNCHANGED <<ram, layers, generation, files, changes>>,
           loaded \subseteq loaded', pc' \in {"done", "refused", "idle"},
           began' \in Nat, began' <= changes
    PROVE  Overtaken'
<1>1. DOMAIN snap' = SnapFields /\ snap'.layers = <<>> /\ snap'.generation \in Nat
  BY NoSnapFacts DEF Nothing
<1>2. attempt' \in Nat /\ skipped' \in Nat
  BY DEF Nothing
<1>3. Positions'
  BY DEF Positions
<1> QED
  BY <1>1, <1>2, <1>3, ReaderStep

(* What every new read begins with. *)
LEMMA BeginFacts ==
    ASSUME Overtaken, NEW o, NEW q, Begin(o, q)
    PROVE  /\ UNCHANGED <<ram, layers, generation, files, changes>> /\ op' = o
           /\ began' \in Nat /\ began' = changes /\ changes \in Nat /\ began' <= changes
           /\ generation \in Nat
BY DEF Overtaken, Counts, Begin, inner

(* Reads of a RAM database, snapshots and pages answered under the lock. *)
LEMMA LockedReads ==
    ASSUME Overtaken, NEW q, NEW ks,
           MemoryLookup(ks) \/ MemoryScan(q) \/ MemoryCount(q) \/ TakeSnapshot \/ ScanMemtable(q)
             \/ ScanNothing(q)
    PROVE  Overtaken'
<1>1. Nothing /\ pc' = "done" /\ loaded \subseteq loaded' /\ \E o, p : Begin(o, p)
  <2>1. CASE MemoryLookup(ks)
    BY <2>1 DEF MemoryLookup, Answer
  <2>2. CASE MemoryScan(q)
    BY <2>2 DEF MemoryScan, Answer
  <2>3. CASE MemoryCount(q)
    BY <2>3 DEF MemoryCount, Answer
  <2>4. CASE TakeSnapshot
    BY <2>4 DEF TakeSnapshot, Answer
  <2>5. CASE ScanMemtable(q)
    BY <2>5 DEF ScanMemtable, Answer
  <2>6. CASE ScanNothing(q)
    BY <2>6 DEF ScanNothing, Answer
  <2> QED
    BY <2>1, <2>2, <2>3, <2>4, <2>5, <2>6
<1>2. PICK o, p : Begin(o, p)
  BY <1>1
<1>3. UNCHANGED <<ram, layers, generation, files, changes>> /\ began' \in Nat /\ began' <= changes
  BY <1>2, BeginFacts
<1> QED
  BY <1>1, <1>3, AtOnce

(* get and get_many_shared of a durable database begin. *)
LEMMA LookupBegins ==
    ASSUME Overtaken, NEW ks, BeginLookup(ks)
    PROVE  Overtaken'
<1>1. /\ UNCHANGED <<ram, layers, generation, files, changes>> /\ ~ram
      /\ began' \in Nat /\ began' <= changes /\ UNCHANGED loaded
  BY BeginFacts DEF BeginLookup
<1>2. DOMAIN snap' = SnapFields /\ snap'.layers = layers /\ snap'.generation \in Nat
  BY NoSnapFacts DEF BeginLookup, SnapFields
<1>3. attempt' \in Nat /\ skipped' \in Nat /\ skipped' = 0
  BY DEF BeginLookup
<1>4. Positions'
  <2>1. pc' = "done" \/ (pc' = "lookup" /\ layers # <<>>)
    BY DEF BeginLookup
  <2>2. layers # <<>> => 0 < Len(layers)
    BY SeqOfElements DEF Overtaken, Counts
  <2>3. CASE pc' = "done"
    BY <2>3 DEF Positions
  <2>4. CASE pc' = "lookup" /\ layers # <<>>
    BY <2>2, <2>4, <1>1, <1>2, <1>3 DEF Positions
  <2> QED
    BY <2>1, <2>3, <2>4
<1> QED
  BY <1>1, <1>2, <1>3, <1>4, ReaderStep

(* A full scan begins. *)
LEMMA FullBegins ==
    ASSUME Overtaken, NEW q, BeginFull(q)
    PROVE  Overtaken'
<1>1. /\ UNCHANGED <<ram, layers, generation, files, changes>> /\ ~ram
      /\ began' \in Nat /\ began' <= changes /\ UNCHANGED loaded
  BY BeginFacts DEF BeginFull, UsesFull
<1>2. DOMAIN snap' = SnapFields /\ snap'.layers = layers /\ snap'.generation \in Nat
  BY NoSnapFacts DEF BeginFull, SnapFields
<1>3. attempt' \in Nat /\ skipped' \in Nat /\ pc' = "full"
  BY DEF BeginFull
<1>4. Positions'
  BY <1>1, <1>3 DEF Positions
<1> QED
  BY <1>1, <1>2, <1>3, <1>4, ReaderStep

(* A search for a first entry begins. *)
LEMMA FirstBegins ==
    ASSUME Overtaken, NEW q, BeginFirst(q)
    PROVE  Overtaken'
<1>1. /\ UNCHANGED <<ram, layers, generation, files, changes>> /\ ~ram /\ op' = "first"
      /\ began' \in Nat /\ began' = changes /\ changes \in Nat /\ UNCHANGED loaded
  BY BeginFacts DEF BeginFirst, UsesFirst
<1>2. DOMAIN snap' = SnapFields /\ snap'.layers = <<>> /\ snap'.generation \in Nat
  BY NoSnapFacts DEF BeginFirst
<1>3. attempt' = 0 /\ skipped' = 0 /\ pc' = "first"
  BY DEF BeginFirst
<1>4. Positions'
  BY <1>1, <1>3, Attempts DEF Positions
<1> QED
  BY <1>1, <1>2, <1>3, <1>4, ReaderStep

(* What a page captures. *)
LEMMA PageCaptured ==
    ASSUME Overtaken, NEW q, StartPage(q)
    PROVE  /\ DOMAIN snap' = SnapFields /\ (snap'.layers = <<>> \/ snap'.layers = layers)
           /\ snap'.generation = generation /\ generation \in Nat /\ skipped' = 0 /\ pc' = "merge"
<1>1. snap' = CapturedPage(q) /\ skipped' = 0 /\ pc' = "merge"
  BY DEF StartPage
<1>2. generation \in Nat
  BY DEF Overtaken, Counts
<1>3. CASE Lower(q) >= Upper(q)
  BY <1>1, <1>2, <1>3, NoSnapFacts DEF CapturedPage, SnapFields
<1>4. CASE ~(Lower(q) >= Upper(q))
  BY <1>1, <1>2, <1>4, NoSnapFacts DEF CapturedPage, SnapFields
<1> QED
  BY <1>3, <1>4

(* A page or a count begins. *)
LEMMA PageBegins ==
    ASSUME Overtaken, NEW q, BeginPage(q) \/ BeginCount(q)
    PROVE  Overtaken'
<1>1. ~ram /\ StartPage(q) /\ attempt' = 1 /\ UNCHANGED loaded
      /\ \E o \in {"page", "count"} : Begin(o, q)
  BY DEF BeginPage, BeginCount, UsesPage
<1>2. PICK o \in {"page", "count"} : Begin(o, q)
  BY <1>1
<1>3. /\ UNCHANGED <<ram, layers, generation, files, changes>> /\ op' = o
      /\ began' \in Nat /\ began' = changes /\ changes \in Nat
  BY <1>2, BeginFacts
<1>4. /\ DOMAIN snap' = SnapFields /\ (snap'.layers = <<>> \/ snap'.layers = layers)
      /\ snap'.generation = generation /\ generation \in Nat /\ skipped' = 0 /\ pc' = "merge"
  BY <1>1, PageCaptured
<1>5. generation = changes
  BY <1>1 DEF Overtaken, Counts
<1>6. Positions'
  BY <1>1, <1>2, <1>3, <1>4, <1>5 DEF Positions
<1> QED
  BY <1>1, <1>3, <1>4, <1>6, ReaderStep

(* A table that a read has captured can be read: the reason why a           *)
(* compaction loads every index before it removes the files.                *)
LEMMA CapturedLoadable ==
    ASSUME Overtaken, NEW i \in DOMAIN snap.layers
    PROVE  Loadable(snap.layers[i], loaded)
BY DEF Overtaken, CapturedReachable, Reachable, FilesThere, Loadable

(* What a step of a read leaves alone. *)
LEMMA ReadingFacts ==
    ASSUME Overtaken, Reading
    PROVE  /\ UNCHANGED <<ram, layers, generation, files, changes, began, op>>
           /\ began' \in Nat /\ began' <= changes /\ changes \in Nat /\ generation \in Nat
           /\ attempt \in Nat /\ skipped \in Nat /\ snap.generation \in Nat /\ began \in Nat
           /\ (~ram => generation = changes)
           /\ DOMAIN snap = SnapFields
BY DEF Overtaken, Counts, Reading, inner

(* A lookup asks the next table. *)
LEMMA LookupStep ==
    ASSUME Overtaken, LookupLayer
    PROVE  Overtaken'
<1>0. Reading /\ pc = "lookup"
  BY DEF LookupLayer
<1>1. /\ UNCHANGED <<ram, layers, generation, files, changes, began, op>>
      /\ began' \in Nat /\ began' <= changes /\ attempt \in Nat /\ skipped \in Nat
      /\ snap.generation \in Nat /\ DOMAIN snap = SnapFields
  BY <1>0, ReadingFacts
<1>2. skipped < Len(snap.layers) /\ ~ram
  BY <1>0 DEF Overtaken, Positions
<1>3. DOMAIN snap.layers = 1..Len(snap.layers) /\ Len(snap.layers) \in Nat
  BY SeqOfElements DEF Overtaken, Counts
<1>4. Len(snap.layers) - skipped \in DOMAIN snap.layers
  BY <1>1, <1>2, <1>3
<1>5. Loadable(snap.layers[Len(snap.layers) - skipped], loaded)
  BY <1>4, CapturedLoadable
<1>6. /\ loaded \subseteq loaded' /\ UNCHANGED <<snap, attempt>>
      /\ \/ pc' = "done" /\ skipped' = 0
         \/ pc' = "lookup" /\ skipped' = 0
         \/ pc' = "lookup" /\ skipped' = skipped + 1 /\ skipped + 1 # Len(snap.layers)
  BY <1>5 DEF LookupLayer
<1>7. skipped' \in Nat
  BY <1>1, <1>6
<1>8. Positions'
  <2>1. CASE pc' = "done"
    BY <2>1 DEF Positions
  <2>2. CASE pc' = "lookup"
    <3>1. skipped' < Len(snap.layers)
      BY <1>1, <1>2, <1>3, <1>6, <2>2
    <3> QED
      BY <3>1, <2>2, <1>1, <1>2, <1>6 DEF Positions
  <2> QED
    BY <1>6, <2>1, <2>2
<1> QED
  BY <1>1, <1>6, <1>7, <1>8, ReaderStep

(* The search for a first entry captures, picks and checks. *)
LEMMA FirstSteps ==
    ASSUME Overtaken, FirstCapture \/ FirstPick \/ FirstCheck
    PROVE  Overtaken'
<1>0. Reading /\ pc \in {"first", "pick", "check"}
  BY DEF FirstCapture, FirstPick, FirstCheck
<1>1. /\ UNCHANGED <<ram, layers, generation, files, changes, began, op>>
      /\ began' \in Nat /\ began' <= changes /\ attempt \in Nat /\ skipped \in Nat
      /\ snap.generation \in Nat /\ DOMAIN snap = SnapFields /\ began \in Nat
      /\ generation \in Nat /\ changes \in Nat
  BY <1>0, ReadingFacts
<1>2. ~ram /\ generation = changes /\ op = "first" /\ attempt < FirstRetries
  BY <1>0 DEF Overtaken, Positions, Counts
<1>3. CASE FirstCapture
  <2>1. pc = "first" /\ pc' = "pick" /\ UNCHANGED <<loaded, skipped, attempt>>
    BY <1>3 DEF FirstCapture
  <2>2. DOMAIN snap' = SnapFields /\ snap'.layers = layers /\ snap'.generation = generation
    BY <1>3, NoSnapFacts DEF FirstCapture, SnapFields
  <2>3. changes >= began + attempt
    BY <2>1 DEF Overtaken, Positions
  <2>4. Positions'
    BY <1>1, <1>2, <2>1, <2>2, <2>3 DEF Positions
  <2> QED
    BY <1>1, <2>1, <2>2, <2>4, ReaderStep
<1>4. CASE FirstPick
  <2>1. \A i \in DOMAIN snap.layers : Loadable(snap.layers[i], loaded)
    BY CapturedLoadable
  <2>2. /\ pc = "pick" /\ pc' \in {"done", "check"} /\ UNCHANGED <<snap, skipped, attempt>>
        /\ loaded \subseteq loaded'
    BY <1>4, <2>1 DEF FirstPick
  <2>3. snap.generation >= began + attempt /\ snap.generation <= generation
    BY <2>2 DEF Overtaken, Positions
  <2>4. Positions'
    BY <1>1, <1>2, <2>2, <2>3 DEF Positions
  <2> QED
    BY <1>1, <2>2, <2>4, ReaderStep
<1>5. CASE FirstCheck
  <2>1. snap.generation >= began + attempt /\ snap.generation <= generation
    BY <1>5 DEF Overtaken, Positions, FirstCheck
  <2>2. UNCHANGED <<loaded, skipped>>
    BY <1>5 DEF FirstCheck
  <2>3. \/ /\ generation # snap.generation /\ attempt + 1 < FirstRetries
           /\ attempt' = attempt + 1 /\ pc' = "first" /\ snap' = NoSnap
        \/ /\ generation # snap.generation /\ attempt + 1 >= FirstRetries
           /\ pc' = "changed" /\ UNCHANGED <<attempt, snap>>
        \/ /\ generation = snap.generation /\ pc' = "first" /\ snap' = NoSnap /\ UNCHANGED attempt
        \/ pc' = "done" /\ UNCHANGED <<attempt, snap>>
    BY <1>5 DEF FirstCheck
  <2>4. /\ DOMAIN snap' = SnapFields /\ (snap'.layers = <<>> \/ snap'.layers = snap.layers)
        /\ snap'.generation \in Nat
    BY <2>3, <1>1, NoSnapFacts
  <2>5. attempt' \in Nat
    BY <2>3, <1>1
  <2>6. Positions'
    <3>1. CASE pc' = "done"
      BY <3>1 DEF Positions
    <3>2. CASE pc' = "changed"
      <4>1. changes >= began + FirstRetries
        BY <3>2, <2>1, <2>3, <1>1, <1>2, Attempts
      <4> QED
        BY <3>2, <4>1, <1>1, <1>2 DEF Positions
    <3>3. CASE pc' = "first"
      <4>1. changes >= began + attempt' /\ attempt' < FirstRetries
        BY <3>3, <2>1, <2>3, <1>1, <1>2, Attempts
      <4> QED
        BY <3>3, <4>1, <1>1, <1>2 DEF Positions
    <3> QED
      BY <2>3, <3>1, <3>2, <3>3
  <2> QED
    BY <1>1, <2>2, <2>4, <2>5, <2>6, ReaderStep
<1> QED
  BY <1>3, <1>4, <1>5

(* The steps of a page or a count that only merge. *)
LEMMA MergeSteps ==
    ASSUME Overtaken, LoadBlock \/ Refill \/ MergeKey
    PROVE  Overtaken'
<1>0. /\ Reading /\ pc = "merge" /\ pc' \in {"merge", "validate"}
      /\ UNCHANGED <<attempt, loaded>>
  BY DEF LoadBlock, Refill, MergeKey, Merging
<1>1. /\ UNCHANGED <<ram, layers, generation, files, changes, began, op>>
      /\ began' \in Nat /\ began' <= changes /\ attempt \in Nat /\ skipped \in Nat
      /\ snap.generation \in Nat /\ DOMAIN snap = SnapFields
  BY <1>0, ReadingFacts
<1>2. skipped' \in Nat
  <2>1. skipped' = skipped \/ skipped' = skipped + 1
    BY DEF LoadBlock, Refill, MergeKey
  <2> QED
    BY <1>1, <2>1
<1>3. DOMAIN snap' = SnapFields /\ snap'.layers = snap.layers /\ snap'.generation = snap.generation
  <2>1. CASE LoadBlock
    BY <2>1, <1>1 DEF LoadBlock
  <2>2. CASE Refill
    BY <2>2, <1>1 DEF Refill, SnapFields
  <2>3. CASE MergeKey
    BY <2>3, <1>1 DEF MergeKey, SnapFields
  <2> QED
    BY <2>1, <2>2, <2>3
<1>4. Positions'
  BY <1>0, <1>1, <1>3 DEF Overtaken, Positions
<1> QED
  BY <1>0, <1>1, <1>2, <1>3, <1>4, ReaderStep

(* A page is checked, and captured again or given up. *)
LEMMA ValidateStep ==
    ASSUME Overtaken, Validate
    PROVE  Overtaken'
<1>0. Reading /\ pc = "validate" /\ UNCHANGED loaded
  BY DEF Validate
<1>1. /\ UNCHANGED <<ram, layers, generation, files, changes, began, op>>
      /\ began' \in Nat /\ began' <= changes /\ attempt \in Nat /\ skipped \in Nat
      /\ snap.generation \in Nat /\ began \in Nat
      /\ generation \in Nat /\ changes \in Nat
  BY <1>0, ReadingFacts
<1>2. /\ ~ram /\ generation = changes /\ op \in {"page", "count"}
      /\ snap.generation + 1 >= began + attempt /\ snap.generation <= generation
  BY <1>0 DEF Overtaken, Positions, Counts
<1>3. CASE generation = snap.generation
  <2>1. Nothing /\ pc' = "done"
    BY <1>3 DEF Validate
  <2> QED
    BY <2>1, <1>0, <1>1, AtOnce
<1>4. CASE generation # snap.generation /\ attempt >= ScanAttempts
  <2>1. Nothing /\ pc' = "changed"
    BY <1>1, <1>4, Attempts DEF Validate, Fail
  <2>2. changes >= began + ScanAttempts
    BY <1>1, <1>2, <1>4, Attempts
  <2>3. Positions'
    BY <2>1, <2>2, <1>1, <1>2 DEF Positions
  <2>4. /\ DOMAIN snap' = SnapFields /\ snap'.layers = <<>> /\ snap'.generation \in Nat
        /\ attempt' \in Nat /\ skipped' \in Nat
    BY <2>1, NoSnapFacts DEF Nothing
  <2> QED
    BY <1>0, <1>1, <2>3, <2>4, ReaderStep
<1>5. CASE generation # snap.generation /\ ~(attempt >= ScanAttempts)
  <2>1. StartPage(query) /\ attempt' = attempt + 1
    BY <1>5 DEF Validate
  <2>2. /\ DOMAIN snap' = SnapFields /\ (snap'.layers = <<>> \/ snap'.layers = layers)
        /\ snap'.generation = generation /\ skipped' = 0 /\ pc' = "merge"
    BY <2>1, PageCaptured
  <2>3. generation + 1 >= began + attempt'
    BY <1>1, <1>2, <1>5, <2>1
  <2>4. Positions'
    BY <2>2, <2>3, <1>1, <1>2 DEF Positions
  <2> QED
    BY <1>0, <1>1, <2>1, <2>2, <2>4, ReaderStep
<1> QED
  BY <1>3, <1>4, <1>5

(* A full scan has all the tables it captured. *)
LEMMA FullStep ==
    ASSUME Overtaken, FullScan
    PROVE  Overtaken'
<1>1. \A i \in DOMAIN snap.layers : Loadable(snap.layers[i], loaded)
  BY CapturedLoadable
<1>2. Nothing /\ pc' = "done" /\ loaded \subseteq loaded' /\ Reading
  BY <1>1 DEF FullScan, Answer
<1>3. /\ UNCHANGED <<ram, layers, generation, files, changes>>
      /\ began' \in Nat /\ began' <= changes
  BY <1>2, ReadingFacts
<1> QED
  BY <1>2, <1>3, AtOnce

(* Every step keeps the invariant. *)
LEMMA NextOvertaken == ASSUME Overtaken, [Next]_vars PROVE Overtaken'
<1>1. CASE UNCHANGED vars
  BY <1>1 DEF vars, inner, reader, Overtaken, Counts, FilesThere, CapturedReachable, Reachable,
      Positions
<1>2. CASE \E b \in Batches : Commit(b) \/ CommitMemory(b)
  BY <1>2, ChangesOvertake
<1>3. CASE Flush \/ Compact
  BY <1>3, ChangesOvertake
<1>4. ASSUME NEW k \in Space, Get(k) \/ GetShared(k) PROVE Overtaken'
  <2>1. CASE MemoryLookup(<<k>>)
    BY <2>1, LockedReads
  <2>2. CASE BeginLookup(<<k>>)
    BY <2>2, LookupBegins
  <2>3. CASE Begin("lookup", [NoQuery EXCEPT !.keys = <<k>>]) /\ Fail("refused") /\ UNCHANGED loaded
    <3>1. /\ UNCHANGED <<ram, layers, generation, files, changes>>
          /\ began' \in Nat /\ began' <= changes
      BY <2>3, BeginFacts
    <3>2. Nothing /\ pc' = "refused"
      BY <2>3 DEF Fail
    <3> QED
      BY <2>3, <3>1, <3>2, AtOnce
  <2> QED
    BY <1>4, <2>1, <2>2, <2>3 DEF Get, GetShared
<1>5. ASSUME NEW ks, GetMany(ks) PROVE Overtaken'
  BY <1>5, LockedReads, LookupBegins DEF GetMany
<1>6. ASSUME NEW q \in Queries,
             MemoryScan(q) \/ MemoryCount(q) \/ ScanNothing(q) \/ ScanMemtable(q)
      PROVE  Overtaken'
  BY <1>6, LockedReads
<1>7. ASSUME NEW q \in Queries, BeginFirst(q) \/ BeginPage(q) \/ BeginCount(q) \/ BeginFull(q)
      PROVE  Overtaken'
  BY <1>7, FirstBegins, PageBegins, FullBegins
<1>8. CASE TakeSnapshot
  BY <1>8, LockedReads
<1>9. CASE Return
  <2>1. /\ Nothing /\ pc' = "idle" /\ began' = 0 /\ UNCHANGED loaded
        /\ UNCHANGED <<ram, layers, generation, files, changes>>
    BY <1>9 DEF Return, inner
  <2>2. 0 <= changes
    BY DEF Overtaken, Counts
  <2> QED
    BY <2>1, <2>2, AtOnce
<1>10. CASE ReadStep
  BY <1>9, <1>10, LookupStep, FirstSteps, MergeSteps, ValidateStep, FullStep DEF ReadStep
<1> QED
  BY <1>1, <1>2, <1>3, <1>4, <1>5, <1>6, <1>7, <1>8, <1>10 DEF Next

(* The invariant of the specification. *)
THEOREM ReadsControlled == Spec => []Overtaken
<1>1. Init => Overtaken
  BY InitOvertaken
<1>2. Overtaken /\ [Next]_vars => Overtaken'
  BY NextOvertaken
<1> QED
  BY <1>1, <1>2, PTL DEF Spec

(* A read fails only because the database changed under each of its         *)
(* attempts (iter_durable_first, iter_durable_table_page), and              *)
(* never because a compaction has removed a file it still needs, for any    *)
(* number of commits, flushes, compactions and tables.                      *)
THEOREM FailureMeansOvertaken == Spec => []FailsOnlyWhenOvertaken
<1>1. ASSUME Overtaken PROVE FailsOnlyWhenOvertaken
  <2>1. pc # "missing table"
    BY <1>1 DEF Overtaken, Positions
  <2>2. ASSUME pc = "changed", op = "first" PROVE changes - began >= FirstRetries
    BY <1>1, <2>2, Attempts DEF Overtaken, Positions, Counts
  <2>3. ASSUME pc = "changed", op # "first" PROVE changes - began >= ScanAttempts
    BY <1>1, <2>3, Attempts DEF Overtaken, Positions, Counts
  <2> QED
    BY <2>1, <2>2, <2>3 DEF FailsOnlyWhenOvertaken
<1> QED
  BY <1>1, ReadsControlled, PTL

-----------------------------------------------------------------------------
(* The bytes of a set of blocks *)

(* Every nonempty set of naturals has a least member. *)
LEMMA LeastNumber ==
    ASSUME NEW S \in SUBSET Nat, S # {}
    PROVE  \E m \in S : \A n \in S : m <= n
<1>1. PICK m \in S : \A n \in S : ~ (<<n, m>> \in OpToRel(<, Nat))
  <2>1. IsWellFoundedOn(OpToRel(<, Nat), Nat)
    BY NatLessThanWellFounded
  <2> QED
    BY <2>1, WFMin
<1>2. \A n \in S : ~(n < m)
  BY <1>1 DEF OpToRel
<1> QED
  BY <1>2

(* A nonempty family of subsets of a finite set has a minimal member. *)
LEMMA MinimalSet ==
    ASSUME NEW S, IsFiniteSet(S), NEW X \in SUBSET (SUBSET S), X # {}
    PROVE  \E A \in X : \A B \in X : B \subseteq A => B = A
<1>1. X \subseteq FiniteSubsetsOf(S)
  BY FS_FiniteSubsetsOfFinite
<1>2. IsWellFoundedOn(StrictSubsetOrdering(S), FiniteSubsetsOf(S))
  BY FS_StrictSubsetOrderingWellFounded
<1>3. PICK A \in X : \A B \in X : ~ (<<B, A>> \in StrictSubsetOrdering(S))
  BY <1>1, <1>2, WFMin
<1>4. ASSUME NEW B \in X, B \subseteq A, B # A PROVE FALSE
  <2>1. <<B, A>> \in StrictSubsetOrdering(S)
    BY <1>4 DEF StrictSubsetOrdering
  <2> QED
    BY <2>1, <1>3
<1> QED
  BY <1>4

Choice(s) == CHOOSE x \in s : TRUE
Upto(S, n) == {T \in SUBSET S : Cardinality(T) <= n}

(* f sums the bytes of the sets in D one member after the other. *)
SumsOn(f, g, D) ==
    f = [s \in D |-> IF s = {} THEN 0 ELSE EntryBytes(g[Choice(s)]) + f[s \ {Choice(s)}]]

(* The sum over the subsets of a finite set exists, by their size. *)
LEMMA SumExists ==
    ASSUME NEW S, IsFiniteSet(S), NEW g
    PROVE  \E f : SumsOn(f, g, SUBSET S)
<1> DEFINE Bad == {n \in Nat : ~ \E f : SumsOn(f, g, Upto(S, n))}
<1>0. \A T \in SUBSET S : IsFiniteSet(T) /\ Cardinality(T) \in Nat
  BY FS_Subset, FS_CardinalityType
<1>1. Bad = {}
  <2>1. SUFFICES ASSUME Bad # {} PROVE FALSE
    OBVIOUS
  <2>2. PICK n \in Bad : \A m \in Bad : n <= m
    BY <2>1, LeastNumber
  <2>3. n \in Nat
    OBVIOUS
  <2>4. CASE n = 0
    <3>1. \A s \in Upto(S, 0) : s = {}
      <4>1. \A T \in SUBSET S : Cardinality(T) <= 0 => Cardinality(T) = 0
        BY <1>0
      <4> QED
        BY <4>1, <1>0, FS_EmptySet DEF Upto
    <3>2. PICK f : f = [s \in Upto(S, 0) |-> 0]
      OBVIOUS
    <3>3. SumsOn(f, g, Upto(S, 0))
      BY <3>1, <3>2 DEF SumsOn
    <3> QED
      BY <3>3, <2>4
  <2>5. CASE n > 0
    <3>1. n - 1 \in Nat /\ ~(n <= n - 1)
      BY <2>3, <2>5
    <3>2. PICK f : SumsOn(f, g, Upto(S, n - 1))
      BY <3>1, <2>2
    <3>3. PICK h : h = [s \in Upto(S, n) |->
                          IF s = {} THEN 0 ELSE EntryBytes(g[Choice(s)]) + f[s \ {Choice(s)}]]
      OBVIOUS
    <3>4. \A s \in Upto(S, n - 1) : s \in Upto(S, n) /\ h[s] = f[s]
      <4>1. \A s \in Upto(S, n - 1) : s \in Upto(S, n)
        BY <1>0, <2>3 DEF Upto
      <4>2. \A s \in Upto(S, n - 1) :
               f[s] = IF s = {} THEN 0 ELSE EntryBytes(g[Choice(s)]) + f[s \ {Choice(s)}]
        BY <3>2 DEF SumsOn
      <4> QED
        BY <4>1, <4>2, <3>3
    <3>5. \A s \in Upto(S, n) : s # {} => s \ {Choice(s)} \in Upto(S, n - 1)
      <4>1. SUFFICES ASSUME NEW s \in Upto(S, n), s # {} PROVE s \ {Choice(s)} \in Upto(S, n - 1)
        OBVIOUS
      <4>2. Choice(s) \in s /\ s \in SUBSET S /\ Cardinality(s) <= n
        BY <4>1 DEF Choice, Upto
      <4>3. IsFiniteSet(s) /\ Cardinality(s) \in Nat
        BY <4>2, <1>0
      <4>4. Cardinality(s \ {Choice(s)}) = Cardinality(s) - 1
        BY <4>2, <4>3, FS_RemoveElement
      <4> QED
        BY <4>2, <4>3, <4>4, <2>3 DEF Upto
    <3>6. h = [s \in Upto(S, n) |->
                 IF s = {} THEN 0 ELSE EntryBytes(g[Choice(s)]) + h[s \ {Choice(s)}]]
      BY <3>3, <3>4, <3>5
    <3> QED
      BY <3>6 DEF SumsOn
  <2> QED
    BY <2>3, <2>4, <2>5
<1>2. Upto(S, Cardinality(S)) = SUBSET S
  BY <1>0, FS_Subset DEF Upto
<1>3. Cardinality(S) \in Nat
  BY FS_CardinalityType
<1>4. \A n \in Nat : \E f : SumsOn(f, g, Upto(S, n))
  BY <1>1
<1>5. \E f : SumsOn(f, g, Upto(S, Cardinality(S)))
  BY <1>3, <1>4
<1> QED
  BY <1>2, <1>5

(* The total is the value of such a sum. *)
LEMMA TotalIsSum ==
    ASSUME NEW S, IsFiniteSet(S), NEW g
    PROVE  \E f : SumsOn(f, g, SUBSET S) /\ TotalBytes(g, S) = f[S]
<1>1. PICK f : f = CHOOSE h : SumsOn(h, g, SUBSET S)
  OBVIOUS
<1>2. SumsOn(f, g, SUBSET S)
  BY <1>1, SumExists
<1>3. TotalBytes(g, S) = f[S]
  BY <1>1 DEF TotalBytes, MapThenSumSet, MapThenFoldSet, SumsOn, Choice
<1> QED
  BY <1>2, <1>3

Weighs(g, S) == \A k \in S : EntryBytes(g[k]) \in Nat

Steps(f, g, S) ==
    /\ f[{}] = 0
    /\ \A s \in SUBSET S : s # {} =>
          /\ Choice(s) \in s /\ s \ {Choice(s)} \in SUBSET S
          /\ f[s] = EntryBytes(g[Choice(s)]) + f[s \ {Choice(s)}]

(* One step of a sum. *)
LEMMA SumStep ==
    ASSUME NEW S, NEW g, NEW f, SumsOn(f, g, SUBSET S)
    PROVE  Steps(f, g, S)
<1>1. \A s \in SUBSET S :
         f[s] = IF s = {} THEN 0 ELSE EntryBytes(g[Choice(s)]) + f[s \ {Choice(s)}]
  BY DEF SumsOn
<1>2. f[{}] = 0
  BY <1>1
<1>3. \A s \in SUBSET S : s # {} => Choice(s) \in s
  BY DEF Choice
<1> QED
  BY <1>1, <1>2, <1>3 DEF Steps

(* A sum is a natural number. *)
LEMMA SumIsNat ==
    ASSUME NEW S, IsFiniteSet(S), NEW g, Weighs(g, S), NEW f, SumsOn(f, g, SUBSET S)
    PROVE  \A s \in SUBSET S : f[s] \in Nat
<1>0. Steps(f, g, S)
  BY SumStep
<1>a. PICK X : X = {s \in SUBSET S : f[s] \notin Nat}
  OBVIOUS
<1>1. SUFFICES ASSUME X # {} PROVE FALSE
  BY <1>a
<1>b. X \in SUBSET (SUBSET S)
  BY <1>a
<1>2. PICK A \in X : \A B \in X : B \subseteq A => B = A
  BY <1>1, <1>b, MinimalSet
<1>3. A \in SUBSET S /\ f[A] \notin Nat
  BY <1>a
<1>4. A # {}
  <2>1. f[{}] = 0
    BY <1>0 DEF Steps
  <2>2. f[{}] \in Nat
    BY <2>1
  <2> QED
    BY <1>3, <2>2
<1>5. /\ Choice(A) \in A /\ A \ {Choice(A)} \in SUBSET S
      /\ f[A] = EntryBytes(g[Choice(A)]) + f[A \ {Choice(A)}]
  BY <1>3, <1>4, <1>0 DEF Steps
<1>6. A \ {Choice(A)} \notin X
  BY <1>2, <1>5
<1>7. f[A \ {Choice(A)}] \in Nat /\ EntryBytes(g[Choice(A)]) \in Nat
  BY <1>a, <1>3, <1>5, <1>6 DEF Weighs
<1> QED
  BY <1>3, <1>5, <1>7

(* The order in which the members are added does not matter. *)
LEMMA SumAnyOrder ==
    ASSUME NEW S, IsFiniteSet(S), NEW g, Weighs(g, S), NEW f, SumsOn(f, g, SUBSET S)
    PROVE  \A s \in SUBSET S : \A y \in s : f[s] = EntryBytes(g[y]) + f[s \ {y}]
<1>0. Steps(f, g, S)
  BY SumStep
<1>a. PICK X : X = {s \in SUBSET S : ~ \A y \in s : f[s] = EntryBytes(g[y]) + f[s \ {y}]}
  OBVIOUS
<1>1. SUFFICES ASSUME X # {} PROVE FALSE
  BY <1>a
<1>b. X \in SUBSET (SUBSET S)
  BY <1>a
<1>2. PICK A \in X : \A B \in X : B \subseteq A => B = A
  BY <1>1, <1>b, MinimalSet
<1>3. A \in SUBSET S
  BY <1>a
<1>4. PICK y \in A : f[A] # EntryBytes(g[y]) + f[A \ {y}]
  BY <1>a
<1>5. PICK x : x = Choice(A)
  OBVIOUS
<1>6. x \in A /\ f[A] = EntryBytes(g[x]) + f[A \ {x}]
  BY <1>3, <1>4, <1>5, <1>0 DEF Steps
<1>7. x # y
  BY <1>4, <1>6
<1>8. A \ {x} \notin X /\ A \ {y} \notin X
  BY <1>2, <1>4, <1>6
<1>9. f[A \ {x}] = EntryBytes(g[y]) + f[(A \ {x}) \ {y}]
  <2>1. y \in A \ {x} /\ A \ {x} \in SUBSET S
    BY <1>3, <1>4, <1>7
  <2> QED
    BY <1>a, <1>8, <2>1
<1>10. f[A \ {y}] = EntryBytes(g[x]) + f[(A \ {y}) \ {x}]
  <2>1. x \in A \ {y} /\ A \ {y} \in SUBSET S
    BY <1>3, <1>6, <1>7
  <2> QED
    BY <1>a, <1>8, <2>1
<1>11. (A \ {x}) \ {y} = (A \ {y}) \ {x} /\ (A \ {y}) \ {x} \in SUBSET S
  BY <1>3
<1>12. f[(A \ {y}) \ {x}] \in Nat /\ EntryBytes(g[x]) \in Nat /\ EntryBytes(g[y]) \in Nat
  BY <1>3, <1>4, <1>6, <1>11, SumIsNat DEF Weighs
<1>13. f[A] = EntryBytes(g[x]) + (EntryBytes(g[y]) + f[(A \ {y}) \ {x}])
  BY <1>6, <1>9, <1>11
<1>14. EntryBytes(g[y]) + f[A \ {y}] = EntryBytes(g[y]) + (EntryBytes(g[x]) + f[(A \ {y}) \ {x}])
  BY <1>10
<1> QED
  BY <1>4, <1>12, <1>13, <1>14

SameBytes(g, h, T) == \A k \in T : EntryBytes(h[k]) = EntryBytes(g[k])

(* Sums over a set and over a part of it agree, for blocks of equal size. *)
LEMMA SumsAgree ==
    ASSUME NEW S, NEW T, NEW g, NEW h, NEW f, NEW e, IsFiniteSet(S), T \in SUBSET S,
           SameBytes(g, h, T), SumsOn(f, g, SUBSET S), SumsOn(e, h, SUBSET T)
    PROVE  e[T] = f[T]
<1>0. Steps(f, g, S) /\ Steps(e, h, T)
  BY SumStep
<1>a. PICK X : X = {s \in SUBSET T : e[s] # f[s]}
  OBVIOUS
<1>1. SUFFICES ASSUME X # {} PROVE FALSE
  BY <1>a
<1>2. X \in SUBSET (SUBSET S)
  BY <1>a
<1>3. PICK A \in X : \A B \in X : B \subseteq A => B = A
  BY <1>1, <1>2, MinimalSet
<1>4. A \in SUBSET T /\ A \in SUBSET S /\ e[A] # f[A]
  BY <1>a
<1>5. A # {}
  BY <1>4, <1>0 DEF Steps
<1>6. /\ Choice(A) \in A
      /\ f[A] = EntryBytes(g[Choice(A)]) + f[A \ {Choice(A)}]
  BY <1>4, <1>5, <1>0 DEF Steps
<1>7. e[A] = EntryBytes(h[Choice(A)]) + e[A \ {Choice(A)}]
  BY <1>4, <1>5, <1>0 DEF Steps
<1>8. A \ {Choice(A)} \notin X /\ A \ {Choice(A)} \in SUBSET T
  BY <1>3, <1>4, <1>6
<1>9. e[A \ {Choice(A)}] = f[A \ {Choice(A)}]
  BY <1>a, <1>8
<1> QED
  BY <1>4, <1>6, <1>7, <1>9 DEF SameBytes

(* The totals of a set of blocks: a natural number, from which the bytes of *)
(* any one block can be taken out.                                          *)
LEMMA TotalFacts ==
    ASSUME NEW S, IsFiniteSet(S), NEW g, Weighs(g, S)
    PROVE  /\ TotalBytes(g, {}) = 0
           /\ TotalBytes(g, S) \in Nat
           /\ \A x \in S : TotalBytes(g, S) = EntryBytes(g[x]) + TotalBytes(g, S \ {x})
<1>1. PICK f : SumsOn(f, g, SUBSET S) /\ TotalBytes(g, S) = f[S]
  BY TotalIsSum
<1>2. ASSUME NEW T \in SUBSET S PROVE TotalBytes(g, T) = f[T]
  <2>1. IsFiniteSet(T)
    BY FS_Subset
  <2>2. PICK e : SumsOn(e, g, SUBSET T) /\ TotalBytes(g, T) = e[T]
    BY <2>1, TotalIsSum
  <2>3. SameBytes(g, g, T)
    BY DEF SameBytes
  <2>4. SumsOn(f, g, SUBSET S) /\ SumsOn(e, g, SUBSET T)
    BY <1>1, <2>2
  <2>5. e[T] = f[T]
    <3>1. IsFiniteSet(S) /\ T \in SUBSET S
      OBVIOUS
    <3> QED
      BY <3>1, <2>3, <2>4, SumsAgree
  <2> QED
    BY <2>2, <2>5
<1>3. TotalBytes(g, {}) = 0
  <2>1. Steps(f, g, S)
    BY <1>1, SumStep
  <2>2. TotalBytes(g, {}) = f[{}]
    BY <1>2
  <2> QED
    BY <2>1, <2>2 DEF Steps
<1>4. f[S] \in Nat
  BY <1>1, SumIsNat
<1>5. \A x \in S : f[S] = EntryBytes(g[x]) + f[S \ {x}]
  BY <1>1, SumAnyOrder
<1> QED
  BY <1>1, <1>2, <1>3, <1>4, <1>5

(* Blocks of equal size have equal totals. *)
LEMMA TotalSame ==
    ASSUME NEW S, IsFiniteSet(S), NEW g, NEW h, SameBytes(g, h, S)
    PROVE  TotalBytes(h, S) = TotalBytes(g, S)
<1>1. PICK f : SumsOn(f, g, SUBSET S) /\ TotalBytes(g, S) = f[S]
  BY TotalIsSum
<1>2. PICK e : SumsOn(e, h, SUBSET S) /\ TotalBytes(h, S) = e[S]
  BY TotalIsSum
<1>3. SumsOn(f, g, SUBSET S) /\ SumsOn(e, h, SUBSET S)
  BY <1>1, <1>2
<1>4. e[S] = f[S]
  <2>1. IsFiniteSet(S) /\ S \in SUBSET S /\ SameBytes(g, h, S)
    OBVIOUS
  <2> QED
    BY <2>1, <1>3, SumsAgree
<1> QED
  BY <1>1, <1>2, <1>4

(* What remains when the blocks of A are taken out. *)
LEMMA TotalRest ==
    ASSUME NEW S, IsFiniteSet(S), NEW g, Weighs(g, S), NEW A \in SUBSET S
    PROVE  /\ TotalBytes(g, A) \in Nat
           /\ TotalBytes(g, S \ A) \in Nat
           /\ TotalBytes(g, S) = TotalBytes(g, S \ A) + TotalBytes(g, A)
<1>0. \A T \in SUBSET S : IsFiniteSet(T) /\ Weighs(g, T)
  BY FS_Subset DEF Weighs
<1>1. \A T \in SUBSET S : TotalBytes(g, T) \in Nat
  BY <1>0, TotalFacts
<1>a. PICK X : X = {T \in SUBSET S :
                       TotalBytes(g, S) # TotalBytes(g, S \ T) + TotalBytes(g, T)}
  OBVIOUS
<1>2. SUFFICES ASSUME X # {} PROVE FALSE
  BY <1>1, <1>a
<1>b. X \in SUBSET (SUBSET S)
  BY <1>a
<1>3. PICK B \in X : \A C \in X : C \subseteq B => C = B
  BY <1>2, <1>b, MinimalSet
<1>4. B \in SUBSET S /\ TotalBytes(g, S) # TotalBytes(g, S \ B) + TotalBytes(g, B)
  BY <1>a
<1>5. B # {}
  <2>1. S \ {} = S /\ TotalBytes(g, {}) = 0 /\ TotalBytes(g, S) \in Nat
    BY TotalFacts
  <2> QED
    BY <2>1, <1>4
<1>6. PICK x : x \in B
  BY <1>5
<1>7. TotalBytes(g, B) = EntryBytes(g[x]) + TotalBytes(g, B \ {x})
  BY <1>0, <1>4, <1>6, TotalFacts
<1>8. TotalBytes(g, S \ (B \ {x})) = EntryBytes(g[x]) + TotalBytes(g, S \ B)
  <2>1. x \in S \ (B \ {x}) /\ S \ (B \ {x}) \in SUBSET S
    BY <1>4, <1>6
  <2>2. (S \ (B \ {x})) \ {x} = S \ B
    BY <1>4, <1>6
  <2>3. PICK T : T = S \ (B \ {x})
    OBVIOUS
  <2>4. TotalBytes(g, T) = EntryBytes(g[x]) + TotalBytes(g, T \ {x})
    BY <2>1, <2>3, <1>0, TotalFacts
  <2> QED
    BY <2>2, <2>3, <2>4
<1>9. B \ {x} \notin X /\ B \ {x} \in SUBSET S
  BY <1>3, <1>4, <1>6
<1>10. TotalBytes(g, S) = TotalBytes(g, S \ (B \ {x})) + TotalBytes(g, B \ {x})
  BY <1>a, <1>9
<1>11. TotalBytes(g, B \ {x}) \in Nat /\ TotalBytes(g, S \ B) \in Nat /\ EntryBytes(g[x]) \in Nat
  BY <1>1, <1>4, <1>6, <1>9 DEF Weighs
<1> QED
  BY <1>4, <1>7, <1>8, <1>10, <1>11

-----------------------------------------------------------------------------
(* The block cache *)

EntryFields == {"content", "decoded", "access"}
CachedBlock(e, clock) ==
    /\ DOMAIN e = EntryFields
    /\ Len(e.content) \in Nat /\ e.decoded \in Nat /\ e.access \in Nat /\ e.access <= clock

(* The blocks and the order of their use. *)
Ordered(entries, lru, clock) ==
    /\ clock \in Nat
    /\ IsFiniteSet(DOMAIN entries)
    /\ \A k \in DOMAIN entries : CachedBlock(entries[k], clock)
    /\ DOMAIN lru = {entries[k].access : k \in DOMAIN entries}
    /\ \A k \in DOMAIN entries : lru[entries[k].access] = k

CacheFields == {"entries", "lru", "resident", "clock"}
CacheOK(c) ==
    /\ DOMAIN c = CacheFields
    /\ Ordered(c.entries, c.lru, c.clock)
    /\ c.resident = TotalBytes(c.entries, DOMAIN c.entries)
    /\ c.resident <= CacheBytes

(* A block has a size. *)
LEMMA OrderedWeighs ==
    ASSUME NEW E, NEW L, NEW n, Ordered(E, L, n)
    PROVE  Weighs(E, DOMAIN E)
<1>1. ASSUME NEW k \in DOMAIN E PROVE EntryBytes(E[k]) \in Nat
  <2>1. Len(E[k].content) \in Nat /\ E[k].decoded \in Nat
    BY DEF Ordered, CachedBlock
  <2> QED
    BY <2>1 DEF EntryBytes, RawBytes
<1> QED
  BY <1>1 DEF Weighs

(* Blocks are removed together with their marks of use. *)
LEMMA DropOrdered ==
    ASSUME NEW E, NEW L, NEW n, Ordered(E, L, n), NEW A \in SUBSET (DOMAIN E)
    PROVE  Ordered(Drop(E, A), Drop(L, {E[k].access : k \in A}), n)
<1>1. PICK F : F = Drop(E, A)
  OBVIOUS
<1>2. PICK S : S = {E[k].access : k \in A}
  OBVIOUS
<1>3. PICK M : M = Drop(L, S)
  OBVIOUS
<1>4. DOMAIN F = DOMAIN E \ A /\ \A k \in DOMAIN F : k \in DOMAIN E /\ F[k] = E[k]
  BY <1>1 DEF Drop
<1>5. DOMAIN M = DOMAIN L \ S /\ \A a \in DOMAIN M : M[a] = L[a]
  BY <1>3 DEF Drop
<1>6. IsFiniteSet(DOMAIN F)
  <2>1. DOMAIN F \in SUBSET (DOMAIN E) /\ IsFiniteSet(DOMAIN E)
    BY <1>4 DEF Ordered
  <2> QED
    BY <2>1, FS_Subset
<1>7. \A k \in DOMAIN F : CachedBlock(F[k], n)
  BY <1>4 DEF Ordered
<1>8. \A k \in DOMAIN F : F[k].access \in DOMAIN M /\ M[F[k].access] = k
  <2>1. SUFFICES ASSUME NEW k \in DOMAIN F
                 PROVE  F[k].access \in DOMAIN M /\ M[F[k].access] = k
    OBVIOUS
  <2>2. k \in DOMAIN E /\ k \notin A /\ F[k] = E[k]
    BY <1>4
  <2>3. E[k].access \in DOMAIN L /\ L[E[k].access] = k
    BY <2>2 DEF Ordered
  <2>4. E[k].access \notin S
    <3>1. \A j \in A : L[E[j].access] = j
      BY DEF Ordered
    <3> QED
      BY <1>2, <2>2, <2>3, <3>1
  <2> QED
    BY <1>5, <2>2, <2>3, <2>4
<1>9. \A a \in DOMAIN M : \E k \in DOMAIN F : a = F[k].access
  <2>1. SUFFICES ASSUME NEW a \in DOMAIN M PROVE \E k \in DOMAIN F : a = F[k].access
    OBVIOUS
  <2>2. PICK k \in DOMAIN E : a = E[k].access
    BY <1>5 DEF Ordered
  <2>3. k \notin A
    BY <1>2, <1>5, <2>2
  <2> QED
    BY <1>4, <2>2, <2>3
<1>10. DOMAIN M = {F[k].access : k \in DOMAIN F}
  BY <1>8, <1>9
<1> QED
  BY <1>1, <1>2, <1>3, <1>6, <1>7, <1>8, <1>10 DEF Ordered

(* A block that is not there is added as the most recently used. *)
LEMMA AddOrdered ==
    ASSUME NEW E, NEW L, NEW n, Ordered(E, L, n), NEW k, k \notin DOMAIN E,
           NEW content, Len(content) \in Nat
    PROVE  Ordered(With(E, k, [content |-> content, decoded |-> 0, access |-> n + 1]),
                   With(L, n + 1, k), n + 1)
<1>1. PICK e : e = [content |-> content, decoded |-> 0, access |-> n + 1]
  OBVIOUS
<1>2. PICK F : F = With(E, k, e)
  OBVIOUS
<1>3. PICK M : M = With(L, n + 1, k)
  OBVIOUS
<1>0. n \in Nat /\ n + 1 \in Nat
  BY DEF Ordered
<1>4. /\ DOMAIN F = DOMAIN E \cup {k} /\ F[k] = e
      /\ \A j \in DOMAIN E : F[j] = E[j]
  BY <1>2 DEF With
<1>5. /\ DOMAIN M = DOMAIN L \cup {n + 1} /\ M[n + 1] = k
      /\ \A a \in DOMAIN L : a # n + 1 => M[a] = L[a]
  BY <1>3 DEF With
<1>6. IsFiniteSet(DOMAIN F)
  <2>1. IsFiniteSet(DOMAIN E)
    BY DEF Ordered
  <2>2. IsFiniteSet(DOMAIN E \cup {k})
    BY <2>1, FS_AddElement
  <2> QED
    BY <1>4, <2>2
<1>7. ASSUME NEW j \in DOMAIN E
      PROVE  /\ E[j].access \in Nat /\ E[j].access <= n /\ E[j].access # n + 1
             /\ CachedBlock(E[j], n + 1)
  <2>1. CachedBlock(E[j], n)
    BY DEF Ordered
  <2> QED
    BY <1>0, <2>1 DEF CachedBlock
<1>8. CachedBlock(e, n + 1) /\ e.access = n + 1
  BY <1>0, <1>1 DEF CachedBlock, EntryFields
<1>9. \A j \in DOMAIN F : CachedBlock(F[j], n + 1)
  BY <1>4, <1>7, <1>8
<1>10. \A j \in DOMAIN F : F[j].access \in DOMAIN M /\ M[F[j].access] = j
  <2>1. ASSUME NEW j \in DOMAIN E PROVE F[j].access \in DOMAIN M /\ M[F[j].access] = j
    <3>1. E[j].access \in DOMAIN L /\ L[E[j].access] = j
      BY DEF Ordered
    <3> QED
      BY <1>4, <1>5, <1>7, <3>1
  <2>2. F[k].access \in DOMAIN M /\ M[F[k].access] = k
    BY <1>4, <1>5, <1>8
  <2> QED
    BY <1>4, <2>1, <2>2
<1>11. \A a \in DOMAIN M : \E j \in DOMAIN F : a = F[j].access
  <2>1. ASSUME NEW a \in DOMAIN L PROVE \E j \in DOMAIN F : a = F[j].access
    <3>1. PICK j \in DOMAIN E : a = E[j].access
      BY DEF Ordered
    <3> QED
      BY <1>4, <3>1
  <2>2. \E j \in DOMAIN F : n + 1 = F[j].access
    BY <1>4, <1>8
  <2> QED
    BY <1>5, <2>1, <2>2
<1>12. DOMAIN M = {F[j].access : j \in DOMAIN F}
  BY <1>10, <1>11
<1>13. Ordered(F, M, n + 1)
  BY <1>0, <1>6, <1>9, <1>10, <1>12 DEF Ordered
<1> QED
  BY <1>1, <1>2, <1>3, <1>13

(* A block that is used becomes the most recently used. *)
LEMMA TouchOrdered ==
    ASSUME NEW E, NEW L, NEW n, Ordered(E, L, n), NEW k \in DOMAIN E
    PROVE  Ordered([E EXCEPT ![k].access = n + 1], With(Drop(L, {E[k].access}), n + 1, k), n + 1)
<1>0. n \in Nat /\ n + 1 \in Nat
  BY DEF Ordered
<1>1. PICK e : e = [E[k] EXCEPT !.access = n + 1]
  OBVIOUS
<1>2. PICK F : F = [E EXCEPT ![k] = e]
  OBVIOUS
<1>3. PICK M : M = With(Drop(L, {E[k].access}), n + 1, k)
  OBVIOUS
<1>4. DOMAIN F = DOMAIN E /\ F[k] = e /\ \A j \in DOMAIN E : j # k => F[j] = E[j]
  BY <1>2
<1>5. /\ DOMAIN M = (DOMAIN L \ {E[k].access}) \cup {n + 1} /\ M[n + 1] = k
      /\ \A a \in DOMAIN L : a # n + 1 /\ a # E[k].access => M[a] = L[a]
  BY <1>3 DEF With, Drop
<1>6. CachedBlock(e, n + 1) /\ e.access = n + 1
  <2>1. CachedBlock(E[k], n)
    BY DEF Ordered
  <2>2. DOMAIN E[k] = EntryFields
    BY <2>1 DEF CachedBlock
  <2>3. DOMAIN e = EntryFields /\ e.access = n + 1 /\ e.content = E[k].content
        /\ e.decoded = E[k].decoded
    BY <1>1, <2>2 DEF EntryFields
  <2> QED
    BY <1>0, <2>1, <2>3 DEF CachedBlock
<1>7. ASSUME NEW j \in DOMAIN E
      PROVE  /\ E[j].access \in Nat /\ E[j].access <= n /\ E[j].access # n + 1
             /\ CachedBlock(E[j], n + 1)
             /\ E[j].access \in DOMAIN L /\ L[E[j].access] = j
  <2>1. CachedBlock(E[j], n) /\ E[j].access \in DOMAIN L /\ L[E[j].access] = j
    BY DEF Ordered
  <2> QED
    BY <1>0, <2>1 DEF CachedBlock
<1>8. \A j \in DOMAIN F : CachedBlock(F[j], n + 1)
  BY <1>4, <1>6, <1>7
<1>9. ASSUME NEW j \in DOMAIN F PROVE F[j].access \in DOMAIN M /\ M[F[j].access] = j
  <2>1. CASE j = k
    BY <1>4, <1>5, <1>6, <2>1
  <2>2. CASE j # k
    <3>1. F[j] = E[j] /\ E[j].access # E[k].access
      BY <1>4, <1>7, <2>2
    <3> QED
      BY <1>4, <1>5, <1>7, <3>1
  <2> QED
    BY <2>1, <2>2
<1>10. ASSUME NEW a \in DOMAIN M PROVE \E j \in DOMAIN F : a = F[j].access
  <2>1. CASE a = n + 1
    BY <1>4, <1>6, <2>1
  <2>2. CASE a # n + 1
    <3>1. a \in DOMAIN L /\ a # E[k].access
      BY <1>5, <2>2
    <3>2. PICK j \in DOMAIN E : a = E[j].access
      BY <3>1 DEF Ordered
    <3> QED
      BY <1>4, <3>1, <3>2
  <2> QED
    BY <2>1, <2>2
<1>11. DOMAIN M = {F[j].access : j \in DOMAIN F}
  BY <1>9, <1>10
<1>12. IsFiniteSet(DOMAIN F)
  BY <1>4 DEF Ordered
<1>13. Ordered(F, M, n + 1)
  BY <1>0, <1>8, <1>9, <1>11, <1>12 DEF Ordered
<1> QED
  BY <1>1, <1>2, <1>3, <1>13

(* Decoded records do not change the order. *)
LEMMA DecodeOrdered ==
    ASSUME NEW E, NEW L, NEW n, Ordered(E, L, n), NEW k \in DOMAIN E, NEW d \in Nat
    PROVE  Ordered([E EXCEPT ![k].decoded = d], L, n)
<1>1. PICK e : e = [E[k] EXCEPT !.decoded = d]
  OBVIOUS
<1>2. PICK F : F = [E EXCEPT ![k] = e]
  OBVIOUS
<1>3. DOMAIN F = DOMAIN E /\ F[k] = e /\ \A j \in DOMAIN E : j # k => F[j] = E[j]
  BY <1>2
<1>4. CachedBlock(e, n) /\ e.access = E[k].access
  <2>1. CachedBlock(E[k], n)
    BY DEF Ordered
  <2>2. DOMAIN E[k] = EntryFields
    BY <2>1 DEF CachedBlock
  <2>3. DOMAIN e = EntryFields /\ e.access = E[k].access /\ e.content = E[k].content
        /\ e.decoded = d
    BY <1>1, <2>2 DEF EntryFields
  <2> QED
    BY <2>1, <2>3 DEF CachedBlock
<1>5. \A j \in DOMAIN F : CachedBlock(F[j], n) /\ F[j].access = E[j].access
  BY <1>3, <1>4 DEF Ordered
<1>6. DOMAIN L = {F[j].access : j \in DOMAIN F} /\ \A j \in DOMAIN F : L[F[j].access] = j
  BY <1>3, <1>5 DEF Ordered
<1>7. Ordered(F, L, n)
  BY <1>3, <1>5, <1>6 DEF Ordered
<1> QED
  BY <1>1, <1>2, <1>7

(* Every block of d is one of c, or the block with the given key and        *)
(* content.                                                                 *)
ServedFrom(d, c, key, content) ==
    \A j \in DOMAIN d.entries :
        \/ j \in DOMAIN c.entries /\ d.entries[j].content = c.entries[j].content
        \/ j = key /\ d.entries[j].content = content

(* Evict *)
LEMMA EvictOK ==
    ASSUME NEW c, CacheOK(c), NEW A \in SUBSET (DOMAIN c.entries)
    PROVE  /\ CacheOK(Evict(c, A))
           /\ DOMAIN Evict(c, A).entries = DOMAIN c.entries \ A
           /\ \A k \in DOMAIN c.entries \ A : Evict(c, A).entries[k] = c.entries[k]
           /\ Evict(c, A).clock = c.clock
           /\ Evict(c, A).resident = c.resident - TotalBytes(c.entries, A)
           /\ c.resident \in Nat /\ TotalBytes(c.entries, A) \in Nat
<1>1. PICK F : F = Drop(c.entries, A)
  OBVIOUS
<1>2. PICK M : M = Drop(c.lru, {c.entries[k].access : k \in A})
  OBVIOUS
<1>3. PICK r : r = c.resident - TotalBytes(c.entries, A)
  OBVIOUS
<1>4. PICK d : d = Evict(c, A)
  OBVIOUS
<1>5. d = [c EXCEPT !.entries = F, !.lru = M, !.resident = r]
  BY <1>1, <1>2, <1>3, <1>4 DEF Evict
<1>6. DOMAIN d = CacheFields /\ d.entries = F /\ d.lru = M /\ d.resident = r /\ d.clock = c.clock
  BY <1>5 DEF CacheOK, CacheFields
<1>7. Ordered(F, M, c.clock)
  BY <1>1, <1>2, DropOrdered DEF CacheOK
<1>8. DOMAIN F = DOMAIN c.entries \ A /\ \A k \in DOMAIN c.entries \ A : F[k] = c.entries[k]
  BY <1>1 DEF Drop
<1>9. Weighs(c.entries, DOMAIN c.entries) /\ IsFiniteSet(DOMAIN c.entries)
  BY OrderedWeighs DEF CacheOK, Ordered
<1>10. /\ TotalBytes(c.entries, A) \in Nat
       /\ TotalBytes(c.entries, DOMAIN c.entries \ A) \in Nat
       /\ c.resident = TotalBytes(c.entries, DOMAIN c.entries \ A) + TotalBytes(c.entries, A)
  BY <1>9, TotalRest DEF CacheOK
<1>11. TotalBytes(F, DOMAIN F) = TotalBytes(c.entries, DOMAIN F)
  <2>1. SameBytes(c.entries, F, DOMAIN F)
    BY <1>8 DEF SameBytes
  <2>2. IsFiniteSet(DOMAIN F)
    BY <1>7 DEF Ordered
  <2> QED
    BY <2>1, <2>2, TotalSame
<1>12. r = TotalBytes(F, DOMAIN F) /\ r <= CacheBytes /\ c.resident \in Nat
  <2>1. c.resident <= CacheBytes /\ CacheBytes \in Nat
    BY BoundsAssumption DEF CacheOK
  <2> QED
    BY <1>3, <1>8, <1>10, <1>11, <2>1
<1>13. CacheOK(d)
  BY <1>6, <1>7, <1>12 DEF CacheOK
<1> QED
  BY <1>3, <1>4, <1>6, <1>8, <1>10, <1>12, <1>13

Stamps(c, spared) == {a \in DOMAIN c.lru : c.lru[a] \notin spared}
Oldest(c, spared, n) ==
    {c.lru[a] : a \in {b \in Stamps(c, spared) :
                           Cardinality({o \in Stamps(c, spared) : o < b}) < n}}
Enough(c, need, spared) ==
    {n \in 0..Cardinality(Stamps(c, spared)) :
        c.resident - TotalBytes(c.entries, Oldest(c, spared, n)) + need <= CacheBytes}

(* The marks of use are finitely many numbers. *)
LEMMA StampFacts ==
    ASSUME NEW c, CacheOK(c), NEW spared
    PROVE  /\ IsFiniteSet(Stamps(c, spared)) /\ Cardinality(Stamps(c, spared)) \in Nat
           /\ Stamps(c, spared) \subseteq Nat
           /\ \A a \in Stamps(c, spared) : c.lru[a] \in DOMAIN c.entries \ spared
<1>1. PICK S : S = Stamps(c, spared)
  OBVIOUS
<1>2. PICK K : K = DOMAIN c.entries
  OBVIOUS
<1>3. IsFiniteSet(K) /\ \A k \in K : c.entries[k].access \in Nat /\ c.lru[c.entries[k].access] = k
  BY <1>2 DEF CacheOK, Ordered, CachedBlock
<1>4. \A a \in S : a \in Nat /\ c.lru[a] \in K \ spared /\ a = c.entries[c.lru[a]].access
  <2>1. SUFFICES ASSUME NEW a \in S
                 PROVE  a \in Nat /\ c.lru[a] \in K \ spared /\ a = c.entries[c.lru[a]].access
    OBVIOUS
  <2>2. a \in DOMAIN c.lru /\ c.lru[a] \notin spared
    BY <1>1 DEF Stamps
  <2>3. PICK k \in K : a = c.entries[k].access
    BY <1>2, <2>2 DEF CacheOK, Ordered
  <2> QED
    BY <1>3, <2>2, <2>3
<1>5. PICK f : f = [a \in S |-> c.lru[a]]
  OBVIOUS
<1>6. f \in Injection(S, K)
  <2>1. f \in [S -> K]
    BY <1>4, <1>5
  <2>2. \A a, b \in S : f[a] = f[b] => a = b
    BY <1>4, <1>5
  <2> QED
    BY <2>1, <2>2 DEF Injection, IsInjective
<1>7. IsFiniteSet(S)
  BY <1>3, <1>6, FS_Injection
<1>8. Cardinality(S) \in Nat
  BY <1>7, FS_CardinalityType
<1> QED
  BY <1>1, <1>2, <1>4, <1>7, <1>8

(* The blocks that go are not spared. *)
LEMMA OldestInside ==
    ASSUME NEW c, CacheOK(c), NEW spared, NEW n
    PROVE  Oldest(c, spared, n) \in SUBSET (DOMAIN c.entries \ spared)
<1>1. \A a \in Stamps(c, spared) : c.lru[a] \in DOMAIN c.entries \ spared
  BY StampFacts
<1> QED
  BY <1>1 DEF Oldest

(* All that are not spared are old enough in the end. *)
LEMMA OldestAll ==
    ASSUME NEW c, CacheOK(c), NEW spared
    PROVE  Oldest(c, spared, Cardinality(Stamps(c, spared))) = DOMAIN c.entries \ spared
<1>1. PICK S : S = Stamps(c, spared)
  OBVIOUS
<1>2. IsFiniteSet(S) /\ Cardinality(S) \in Nat /\ S \subseteq Nat
  BY <1>1, StampFacts
<1>3. ASSUME NEW b \in S PROVE Cardinality({o \in S : o < b}) < Cardinality(S)
  <2>1. PICK B : B = {o \in S : o < b}
    OBVIOUS
  <2>2. b \notin B /\ B \in SUBSET S
    BY <1>2, <2>1
  <2>3. IsFiniteSet(B) /\ Cardinality(B) <= Cardinality(S) /\ (Cardinality(S) = Cardinality(B) => S = B)
    BY <1>2, <2>2, FS_Subset
  <2>4. Cardinality(B) \in Nat
    BY <2>3, FS_CardinalityType
  <2> QED
    BY <1>2, <2>1, <2>2, <2>3, <2>4
<1>4. Oldest(c, spared, Cardinality(S)) = {c.lru[a] : a \in S}
  BY <1>1, <1>3 DEF Oldest
<1>5. \A a \in S : c.lru[a] \in DOMAIN c.entries \ spared
  BY <1>1, StampFacts
<1>6. \A k \in DOMAIN c.entries \ spared : c.entries[k].access \in S /\ c.lru[c.entries[k].access] = k
  BY <1>1 DEF Stamps, CacheOK, Ordered
<1> QED
  BY <1>1, <1>4, <1>5, <1>6

(* What Victims gives makes room, if what is spared leaves any. *)
LEMMA VictimsFit ==
    ASSUME NEW c, CacheOK(c), NEW need \in Nat, NEW spared \in SUBSET (DOMAIN c.entries),
           TotalBytes(c.entries, spared) + need <= CacheBytes
    PROVE  /\ Victims(c, need, spared) \in SUBSET (DOMAIN c.entries \ spared)
           /\ c.resident - TotalBytes(c.entries, Victims(c, need, spared)) + need <= CacheBytes
<1>1. PICK N : N = Cardinality(Stamps(c, spared))
  OBVIOUS
<1>2. N \in Nat
  BY <1>1, StampFacts
<1>3. PICK En : En = Enough(c, need, spared)
  OBVIOUS
<1>4. N \in En
  <2>1. PICK K : K = DOMAIN c.entries
    OBVIOUS
  <2>2. Oldest(c, spared, N) = K \ spared
    BY <1>1, <2>1, OldestAll
  <2>3. IsFiniteSet(K) /\ Weighs(c.entries, K) /\ K \ spared \in SUBSET K
    BY <2>1, OrderedWeighs DEF CacheOK, Ordered
  <2>4. K \ (K \ spared) = spared
    BY <2>1
  <2>5. /\ TotalBytes(c.entries, K \ spared) \in Nat /\ TotalBytes(c.entries, spared) \in Nat
        /\ TotalBytes(c.entries, K) = TotalBytes(c.entries, spared) + TotalBytes(c.entries, K \ spared)
    <3>1. PICK A : A = K \ spared
      OBVIOUS
    <3>2. /\ TotalBytes(c.entries, A) \in Nat /\ TotalBytes(c.entries, K \ A) \in Nat
          /\ TotalBytes(c.entries, K) = TotalBytes(c.entries, K \ A) + TotalBytes(c.entries, A)
      BY <2>3, <3>1, TotalRest
    <3> QED
      BY <2>4, <3>1, <3>2
  <2>6. c.resident = TotalBytes(c.entries, K)
    BY <2>1 DEF CacheOK
  <2>7. c.resident - TotalBytes(c.entries, K \ spared) + need <= CacheBytes
    BY <2>5, <2>6, BoundsAssumption
  <2> QED
    <3>1. N \in 0..N
      BY <1>2
    <3>2. c.resident - TotalBytes(c.entries, Oldest(c, spared, N)) + need <= CacheBytes
      BY <2>2, <2>7
    <3> QED
      BY <1>1, <1>3, <3>1, <3>2 DEF Enough
<1>5. En \in SUBSET Nat
  BY <1>1, <1>2, <1>3 DEF Enough
<1>6. PICK m : m = Min(En)
  OBVIOUS
<1>7. m \in En
  <2>1. \E a \in En : \A b \in En : a <= b
    BY <1>4, <1>5, LeastNumber
  <2> QED
    BY <1>6, <2>1 DEF Min
<1>8. Victims(c, need, spared) = Oldest(c, spared, m)
  <2>1. Victims(c, need, spared) =
           Oldest(c, spared, IF En = {} THEN N ELSE Min(En))
    BY <1>1, <1>3 DEF Victims, Oldest, Enough, Stamps
  <2> QED
    BY <2>1, <1>4, <1>6
<1>9. c.resident - TotalBytes(c.entries, Oldest(c, spared, m)) + need <= CacheBytes
  BY <1>3, <1>7 DEF Enough
<1> QED
  BY <1>8, <1>9, OldestInside

(* Touch *)
LEMMA TouchOK ==
    ASSUME NEW c, CacheOK(c), NEW k \in DOMAIN c.entries
    PROVE  /\ CacheOK(Touch(c, k))
           /\ DOMAIN Touch(c, k).entries = DOMAIN c.entries
           /\ \A j \in DOMAIN c.entries : Touch(c, k).entries[j].content = c.entries[j].content
<1>1. PICK F : F = [c.entries EXCEPT ![k].access = c.clock + 1]
  OBVIOUS
<1>2. PICK M : M = With(Drop(c.lru, {c.entries[k].access}), c.clock + 1, k)
  OBVIOUS
<1>3. PICK n : n = c.clock + 1
  OBVIOUS
<1>4. PICK d : d = Touch(c, k)
  OBVIOUS
<1>5. d = [c EXCEPT !.clock = n, !.entries = F, !.lru = M]
  BY <1>1, <1>2, <1>3, <1>4 DEF Touch, CacheOK, CacheFields
<1>6. DOMAIN d = CacheFields /\ d.entries = F /\ d.lru = M /\ d.resident = c.resident /\ d.clock = n
  BY <1>5 DEF CacheOK, CacheFields
<1>7. Ordered(F, M, n)
  <2>1. Ordered(c.entries, c.lru, c.clock)
    BY DEF CacheOK
  <2> QED
    BY <1>1, <1>2, <1>3, <2>1, TouchOrdered
<1>8. /\ DOMAIN F = DOMAIN c.entries
      /\ \A j \in DOMAIN c.entries : F[j].content = c.entries[j].content
                                     /\ F[j].decoded = c.entries[j].decoded
  <2>1. DOMAIN c.entries[k] = EntryFields
    BY DEF CacheOK, Ordered, CachedBlock
  <2> QED
    BY <1>1, <2>1 DEF EntryFields
<1>9. TotalBytes(F, DOMAIN F) = TotalBytes(c.entries, DOMAIN c.entries)
  <2>1. SameBytes(c.entries, F, DOMAIN F)
    BY <1>8 DEF SameBytes, EntryBytes
  <2>2. IsFiniteSet(DOMAIN F)
    BY <1>7 DEF Ordered
  <2> QED
    BY <1>8, <2>1, <2>2, TotalSame
<1>10. CacheOK(d)
  BY <1>6, <1>7, <1>9 DEF CacheOK
<1> QED
  BY <1>4, <1>6, <1>8, <1>10

(* insert *)
LEMMA InsertOK ==
    ASSUME NEW c, CacheOK(c), NEW k, NEW content, Len(content) \in Nat
    PROVE  /\ CacheOK(Insert(c, k, content))
           /\ k \notin DOMAIN c.entries => ServedFrom(Insert(c, k, content), c, k, content)
<1>0. CASE Len(content) > CacheBytes
  <2>1. Insert(c, k, content) = c
    BY <1>0 DEF Insert, RawBytes
  <2> QED
    BY <2>1 DEF ServedFrom
<1>a. CASE ~(Len(content) > CacheBytes)
  <2>0. CacheBytes \in Nat /\ Len(content) <= CacheBytes
    BY <1>a, BoundsAssumption
  <2>1. PICK w : w = IF k \in DOMAIN c.entries THEN Evict(c, {k}) ELSE c
    OBVIOUS
  <2>2. /\ CacheOK(w) /\ DOMAIN w.entries = DOMAIN c.entries \ {k} /\ w.clock = c.clock
        /\ \A j \in DOMAIN w.entries : w.entries[j] = c.entries[j]
    <3>1. CASE k \in DOMAIN c.entries
      <4>1. {k} \in SUBSET (DOMAIN c.entries) /\ w = Evict(c, {k})
        BY <2>1, <3>1
      <4> QED
        BY <4>1, EvictOK
    <3>2. CASE k \notin DOMAIN c.entries
      BY <2>1, <3>2
    <3> QED
      BY <3>1, <3>2
  <2>3. PICK V : V = Victims(w, Len(content), {})
    OBVIOUS
  <2>4. V \in SUBSET (DOMAIN w.entries) /\ w.resident - TotalBytes(w.entries, V) + Len(content) <= CacheBytes
    <3>1. TotalBytes(w.entries, {}) = 0
      <4>1. IsFiniteSet(DOMAIN w.entries) /\ Weighs(w.entries, DOMAIN w.entries)
        BY <2>2, OrderedWeighs DEF CacheOK, Ordered
      <4> QED
        BY <4>1, TotalFacts
    <3>2. {} \in SUBSET (DOMAIN w.entries) /\ TotalBytes(w.entries, {}) + Len(content) <= CacheBytes
      BY <2>0, <3>1
    <3>3. /\ V \in SUBSET (DOMAIN w.entries \ {})
          /\ w.resident - TotalBytes(w.entries, V) + Len(content) <= CacheBytes
      BY <2>2, <2>3, <3>2, VictimsFit
    <3> QED
      BY <3>3
  <2>5. PICK r : r = Evict(w, V)
    OBVIOUS
  <2>6. /\ CacheOK(r) /\ DOMAIN r.entries = DOMAIN w.entries \ V /\ r.clock = w.clock
        /\ \A j \in DOMAIN w.entries \ V : r.entries[j] = w.entries[j]
        /\ r.resident = w.resident - TotalBytes(w.entries, V)
    BY <2>2, <2>4, <2>5, EvictOK
  <2>7. PICK n : n = r.clock + 1
    OBVIOUS
  <2>8. PICK e : e = [content |-> content, decoded |-> 0, access |-> n]
    OBVIOUS
  <2>9. PICK F : F = With(r.entries, k, e)
    OBVIOUS
  <2>10. PICK M : M = With(r.lru, n, k)
    OBVIOUS
  <2>11. PICK b : b = r.resident + Len(content)
    OBVIOUS
  <2>12. PICK d : d = Insert(c, k, content)
    OBVIOUS
  <2>13. d = [r EXCEPT !.clock = n, !.resident = b, !.entries = F, !.lru = M]
    <3>1. c.clock = r.clock
      BY <2>2, <2>6
    <3> QED
      BY <1>a, <2>1, <2>3, <2>5, <2>7, <2>8, <2>9, <2>10, <2>11, <2>12, <3>1 DEF Insert, RawBytes
  <2>14. DOMAIN d = CacheFields /\ d.entries = F /\ d.lru = M /\ d.resident = b /\ d.clock = n
    BY <2>6, <2>13 DEF CacheOK, CacheFields
  <2>15. k \notin DOMAIN r.entries
    BY <2>2, <2>6
  <2>16. Ordered(F, M, n)
    <3>1. Ordered(r.entries, r.lru, r.clock)
      BY <2>6 DEF CacheOK
    <3> QED
      BY <2>7, <2>8, <2>9, <2>10, <2>15, <3>1, AddOrdered
  <2>17. /\ DOMAIN F = DOMAIN r.entries \cup {k} /\ F[k] = e
         /\ \A j \in DOMAIN r.entries : F[j] = r.entries[j]
    BY <2>9, <2>15 DEF With
  <2>18. b = TotalBytes(F, DOMAIN F)
    <3>1. IsFiniteSet(DOMAIN F) /\ Weighs(F, DOMAIN F) /\ IsFiniteSet(DOMAIN r.entries)
      BY <2>6, <2>16, OrderedWeighs DEF CacheOK, Ordered
    <3>2. TotalBytes(F, DOMAIN F) = EntryBytes(F[k]) + TotalBytes(F, DOMAIN F \ {k})
      BY <2>17, <3>1, TotalFacts
    <3>3. DOMAIN F \ {k} = DOMAIN r.entries
      BY <2>15, <2>17
    <3>4. TotalBytes(F, DOMAIN r.entries) = TotalBytes(r.entries, DOMAIN r.entries)
      <4>1. SameBytes(r.entries, F, DOMAIN r.entries)
        BY <2>17 DEF SameBytes
      <4> QED
        BY <3>1, <4>1, TotalSame
    <3>5. EntryBytes(F[k]) = Len(content) + 0
      BY <2>8, <2>17 DEF EntryBytes, RawBytes
    <3>6. r.resident = TotalBytes(r.entries, DOMAIN r.entries)
      BY <2>6 DEF CacheOK
    <3>7. r.resident \in Nat
      BY <2>6, EvictOK
    <3>8. TotalBytes(F, DOMAIN F \ {k}) = r.resident
      BY <3>3, <3>4, <3>6
    <3>9. TotalBytes(F, DOMAIN F) = Len(content) + r.resident
      BY <3>2, <3>5, <3>8
    <3> QED
      BY <2>11, <3>7, <3>9
  <2>19. b <= CacheBytes
    BY <2>4, <2>6, <2>11
  <2>20. CacheOK(d)
    BY <2>14, <2>16, <2>18, <2>19 DEF CacheOK
  <2>21. k \notin DOMAIN c.entries => ServedFrom(d, c, k, content)
    <3>1. ASSUME NEW j \in DOMAIN F, j # k
          PROVE  j \in DOMAIN c.entries /\ F[j].content = c.entries[j].content
      BY <2>2, <2>6, <2>17, <3>1
    <3>2. F[k].content = content
      BY <2>8, <2>17
    <3> QED
      BY <2>14, <3>1, <3>2 DEF ServedFrom
  <2> QED
    BY <2>12, <2>20, <2>21
<1> QED
  BY <1>0, <1>a

(* insert_records *)
LEMMA InsertRecordsOK ==
    ASSUME NEW c, CacheOK(c), NEW k, NEW content, Len(content) \in Nat,
           k \in DOMAIN c.entries => c.entries[k].content = content
    PROVE  /\ CacheOK(InsertRecords(c, k, content))
           /\ \A j \in DOMAIN InsertRecords(c, k, content).entries :
                 /\ j \in DOMAIN c.entries
                 /\ InsertRecords(c, k, content).entries[j].content = c.entries[j].content
<1>1. PICK skip : skip = (\/ k \notin DOMAIN c.entries \/ content = <<>>
                         \/ ~(DecodedBytes(content) + RawBytes(content) <= CacheBytes)
                         \/ c.entries[k].decoded # 0)
  OBVIOUS
<1>2. CASE skip
  <2>1. InsertRecords(c, k, content) = c
    BY <1>1, <1>2 DEF InsertRecords
  <2> QED
    BY <2>1
<1>3. CASE ~skip
  <2>1. /\ k \in DOMAIN c.entries /\ c.entries[k].decoded = 0 /\ c.entries[k].content = content
        /\ DecodedBytes(content) + RawBytes(content) <= CacheBytes
    BY <1>1, <1>3
  <2>2. PICK need : need = 2 * Len(content)
    OBVIOUS
  <2>3. need \in Nat /\ need = DecodedBytes(content) /\ need + Len(content) <= CacheBytes
        /\ CacheBytes \in Nat
    BY <2>1, <2>2, BoundsAssumption DEF DecodedBytes, RawBytes
  <2>4. IsFiniteSet(DOMAIN c.entries) /\ Weighs(c.entries, DOMAIN c.entries)
    BY OrderedWeighs DEF CacheOK, Ordered
  <2>5. TotalBytes(c.entries, {k}) = Len(content)
    <3>1. IsFiniteSet({k}) /\ Weighs(c.entries, {k}) /\ {k} \ {k} = {}
      BY <2>1, <2>4, FS_Singleton DEF Weighs
    <3>2. /\ TotalBytes(c.entries, {}) = 0
          /\ TotalBytes(c.entries, {k}) = EntryBytes(c.entries[k]) + TotalBytes(c.entries, {k} \ {k})
      BY <3>1, TotalFacts
    <3>3. EntryBytes(c.entries[k]) = Len(content) + 0
      BY <2>1 DEF EntryBytes, RawBytes
    <3>4. TotalBytes(c.entries, {k}) = (Len(content) + 0) + 0
      BY <3>1, <3>2, <3>3
    <3> QED
      BY <3>4
  <2>6. PICK V : V = Victims(c, need, {k})
    OBVIOUS
  <2>7. /\ V \in SUBSET (DOMAIN c.entries) /\ k \notin V
        /\ c.resident - TotalBytes(c.entries, V) + need <= CacheBytes
    <3>1. {k} \in SUBSET (DOMAIN c.entries) /\ TotalBytes(c.entries, {k}) + need <= CacheBytes
      BY <2>1, <2>3, <2>5
    <3>2. /\ V \in SUBSET (DOMAIN c.entries \ {k})
          /\ c.resident - TotalBytes(c.entries, V) + need <= CacheBytes
      BY <2>3, <2>6, <3>1, VictimsFit
    <3> QED
      BY <3>2
  <2>8. PICK r : r = Evict(c, V)
    OBVIOUS
  <2>9. /\ CacheOK(r) /\ DOMAIN r.entries = DOMAIN c.entries \ V
        /\ \A j \in DOMAIN c.entries \ V : r.entries[j] = c.entries[j]
        /\ r.resident = c.resident - TotalBytes(c.entries, V)
    BY <2>7, <2>8, EvictOK
  <2>10. k \in DOMAIN r.entries /\ r.entries[k] = c.entries[k]
    BY <2>1, <2>7, <2>9
  <2>11. PICK F : F = [r.entries EXCEPT ![k].decoded = need]
    OBVIOUS
  <2>12. PICK b : b = r.resident + need
    OBVIOUS
  <2>13. PICK d : d = InsertRecords(c, k, content)
    OBVIOUS
  <2>14. d = [r EXCEPT !.entries = F, !.resident = b]
    BY <1>1, <1>3, <2>3, <2>6, <2>8, <2>9, <2>11, <2>12, <2>13
       DEF InsertRecords, CacheOK, CacheFields
  <2>15. DOMAIN d = CacheFields /\ d.entries = F /\ d.lru = r.lru /\ d.resident = b
         /\ d.clock = r.clock
    BY <2>9, <2>14 DEF CacheOK, CacheFields
  <2>16. Ordered(F, r.lru, r.clock)
    <3>1. Ordered(r.entries, r.lru, r.clock)
      BY <2>9 DEF CacheOK
    <3> QED
      BY <2>3, <2>10, <2>11, <3>1, DecodeOrdered
  <2>17. /\ DOMAIN F = DOMAIN r.entries /\ F[k].decoded = need
         /\ \A j \in DOMAIN r.entries : F[j].content = r.entries[j].content
         /\ \A j \in DOMAIN r.entries : j # k => F[j] = r.entries[j]
    <3>1. DOMAIN r.entries[k] = EntryFields
      BY <2>9, <2>10 DEF CacheOK, Ordered, CachedBlock
    <3> QED
      BY <2>10, <2>11, <3>1 DEF EntryFields
  <2>18. b = TotalBytes(F, DOMAIN F)
    <3>1. PICK K : K = DOMAIN r.entries
      OBVIOUS
    <3>2. IsFiniteSet(K) /\ Weighs(F, K) /\ Weighs(r.entries, K) /\ k \in K
      BY <2>9, <2>10, <2>16, <2>17, <3>1, OrderedWeighs DEF CacheOK, Ordered
    <3>3. TotalBytes(F, K) = EntryBytes(F[k]) + TotalBytes(F, K \ {k})
      BY <3>2, TotalFacts
    <3>4. TotalBytes(r.entries, K) = EntryBytes(r.entries[k]) + TotalBytes(r.entries, K \ {k})
      BY <3>2, TotalFacts
    <3>5. TotalBytes(F, K \ {k}) = TotalBytes(r.entries, K \ {k}) /\ TotalBytes(F, K \ {k}) \in Nat
      <4>1. IsFiniteSet(K \ {k}) /\ SameBytes(r.entries, F, K \ {k}) /\ Weighs(F, K \ {k})
        BY <2>17, <3>1, <3>2, FS_RemoveElement DEF SameBytes, Weighs
      <4> QED
        BY <4>1, TotalSame, TotalFacts
    <3>6. EntryBytes(F[k]) = Len(content) + need /\ EntryBytes(r.entries[k]) = Len(content) + 0
      BY <2>1, <2>10, <2>17 DEF EntryBytes, RawBytes
    <3>7. r.resident = TotalBytes(r.entries, K)
      BY <2>9, <3>1 DEF CacheOK
    <3>8. TotalBytes(F, K) = (Len(content) + need) + TotalBytes(F, K \ {k})
      BY <3>3, <3>6
    <3>9. r.resident = (Len(content) + 0) + TotalBytes(F, K \ {k})
      BY <3>4, <3>5, <3>6, <3>7
    <3>10. b = TotalBytes(F, K)
      BY <2>3, <2>12, <3>5, <3>8, <3>9
    <3> QED
      BY <2>17, <3>1, <3>10
  <2>19. b <= CacheBytes
    BY <2>7, <2>9, <2>12
  <2>20. CacheOK(d)
    BY <2>15, <2>16, <2>18, <2>19 DEF CacheOK
  <2>21. \A j \in DOMAIN d.entries :
            j \in DOMAIN c.entries /\ d.entries[j].content = c.entries[j].content
    BY <2>9, <2>15, <2>17
  <2> QED
    BY <2>13, <2>20, <2>21
<1> QED
  BY <1>2, <1>3

(* A block is read through the cache: read_cached_table_block *)
LEMMA BytesOK ==
    ASSUME NEW c, CacheOK(c), NEW l, NEW b, Len(OnDisk(l, b)) \in Nat
    PROVE  /\ CacheOK(CacheBytesOf(c, l, b))
           /\ ServedFrom(CacheBytesOf(c, l, b), c, BlockKey(l, b), OnDisk(l, b))
<1>1. PICK k : k = BlockKey(l, b)
  OBVIOUS
<1>2. PICK o : o = OnDisk(l, b)
  OBVIOUS
<1>3. PICK d : d = CacheBytesOf(c, l, b)
  OBVIOUS
<1>4. CASE k \in DOMAIN c.entries
  <2>1. d = Touch(c, k)
    BY <1>1, <1>3, <1>4 DEF CacheBytesOf
  <2>2. /\ CacheOK(Touch(c, k))
        /\ DOMAIN Touch(c, k).entries = DOMAIN c.entries
        /\ \A j \in DOMAIN c.entries : Touch(c, k).entries[j].content = c.entries[j].content
    BY <1>4, TouchOK
  <2>3. CacheOK(d) /\ ServedFrom(d, c, k, o)
    BY <2>1, <2>2 DEF ServedFrom
  <2> QED
    BY <1>1, <1>2, <1>3, <2>3
<1>5. CASE k \notin DOMAIN c.entries
  <2>1. d = Insert(c, k, o)
    BY <1>1, <1>2, <1>3, <1>5 DEF CacheBytesOf
  <2>2. CacheOK(Insert(c, k, o)) /\ ServedFrom(Insert(c, k, o), c, k, o)
    BY <1>2, <1>5, InsertOK
  <2> QED
    BY <1>1, <1>2, <1>3, <2>1, <2>2
<1> QED
  BY <1>4, <1>5

(* A block is read and decoded: read_table_block_records *)
LEMMA RecordsOK ==
    ASSUME NEW c, CacheOK(c), NEW l, NEW b, Len(OnDisk(l, b)) \in Nat, NEW values
    PROVE  /\ CacheOK(CacheRecordsOf(c, l, b, values))
           /\ ServedFrom(CacheRecordsOf(c, l, b, values), c, BlockKey(l, b), OnDisk(l, b))
<1>1. PICK k : k = BlockKey(l, b)
  OBVIOUS
<1>2. PICK o : o = OnDisk(l, b)
  OBVIOUS
<1>3. PICK y : y = CacheBytesOf(c, l, b)
  OBVIOUS
<1>4. PICK d : d = CacheRecordsOf(c, l, b, values)
  OBVIOUS
<1>5. PICK t : t = Cached(c, l, b)
  OBVIOUS
<1>6. CacheOK(y) /\ ServedFrom(y, c, k, o)
  BY <1>1, <1>2, <1>3, BytesOK
<1>7. d = IF k \in DOMAIN c.entries /\ c.entries[k].decoded # 0 THEN Touch(c, k)
          ELSE IF values THEN InsertRecords(y, k, t) ELSE y
  BY <1>1, <1>3, <1>4, <1>5 DEF CacheRecordsOf
<1>8. CASE k \in DOMAIN c.entries /\ c.entries[k].decoded # 0
  <2>1. d = Touch(c, k)
    BY <1>7, <1>8
  <2>2. /\ CacheOK(Touch(c, k))
        /\ DOMAIN Touch(c, k).entries = DOMAIN c.entries
        /\ \A j \in DOMAIN c.entries : Touch(c, k).entries[j].content = c.entries[j].content
    BY <1>8, TouchOK
  <2>3. CacheOK(d) /\ ServedFrom(d, c, k, o)
    BY <2>1, <2>2 DEF ServedFrom
  <2> QED
    BY <1>1, <1>2, <1>4, <2>3
<1>9. CASE d = y
  BY <1>1, <1>2, <1>4, <1>6, <1>9
<1>10. CASE d = InsertRecords(y, k, t)
  <2>1. Len(t) \in Nat /\ (k \in DOMAIN y.entries => y.entries[k].content = t)
    <3>1. CASE k \in DOMAIN c.entries
      <4>1. t = c.entries[k].content /\ y = Touch(c, k)
        BY <1>1, <1>3, <1>5, <3>1 DEF Cached, CacheBytesOf
      <4>2. Touch(c, k).entries[k].content = c.entries[k].content
        BY <3>1, TouchOK
      <4>3. Len(c.entries[k].content) \in Nat
        BY <3>1 DEF CacheOK, Ordered, CachedBlock
      <4> QED
        BY <4>1, <4>2, <4>3
    <3>2. CASE k \notin DOMAIN c.entries
      <4>1. t = o
        BY <1>1, <1>2, <1>5, <3>2 DEF Cached
      <4> QED
        BY <1>2, <1>6, <3>2, <4>1 DEF ServedFrom
    <3> QED
      BY <3>1, <3>2
  <2>2. PICK z : z = InsertRecords(y, k, t)
    OBVIOUS
  <2>3. /\ CacheOK(z)
        /\ \A j \in DOMAIN z.entries : j \in DOMAIN y.entries
                                       /\ z.entries[j].content = y.entries[j].content
    BY <1>6, <2>1, <2>2, InsertRecordsOK
  <2>4. ServedFrom(z, c, k, o)
    BY <1>6, <2>3 DEF ServedFrom
  <2> QED
    BY <1>1, <1>2, <1>4, <1>10, <2>2, <2>3, <2>4
<1> QED
  BY <1>7, <1>8, <1>9, <1>10

-----------------------------------------------------------------------------
(* What a compaction writes *)

(* A map without tombstones. *)
Plain(m) == m = [k \in Keys |-> Strip(m[k])]
Overlay(m, e) == [k \in Keys |-> IF e[k] = Absent THEN m[k] ELSE Strip(e[k])]
OverlaysOn(f, ls, n) ==
    f = [i \in 0..n |-> IF i = 0 THEN EmptyMap ELSE Overlay(f[i - 1], ls[i].entries)]

(* The maps that materialize_state goes through exist. *)
LEMMA OverlaysExist == ASSUME NEW ls, NEW n \in Nat PROVE \E f : OverlaysOn(f, ls, n)
<1>1. PICK X : X = {i \in Nat : ~ \E f : OverlaysOn(f, ls, i)}
  OBVIOUS
<1>2. X = {}
  <2>1. SUFFICES ASSUME X # {} PROVE FALSE
    OBVIOUS
  <2>2. X \in SUBSET Nat
    BY <1>1
  <2>3. PICK m \in X : \A j \in X : m <= j
    BY <2>1, <2>2, LeastNumber
  <2>4. m \in Nat /\ ~ \E f : OverlaysOn(f, ls, m)
    BY <1>1
  <2>5. CASE m = 0
    <3>1. PICK f : f = [i \in 0..0 |-> EmptyMap]
      OBVIOUS
    <3>2. OverlaysOn(f, ls, 0)
      BY <3>1 DEF OverlaysOn
    <3> QED
      BY <2>4, <2>5, <3>2
  <2>6. CASE m > 0
    <3>1. m - 1 \in Nat /\ m - 1 \notin X
      BY <2>3, <2>4, <2>6
    <3>2. PICK f : OverlaysOn(f, ls, m - 1)
      BY <1>1, <3>1
    <3>3. PICK h : h = [i \in 0..m |-> IF i = 0 THEN EmptyMap ELSE Overlay(f[i - 1], ls[i].entries)]
      OBVIOUS
    <3>4. \A i \in 0..(m - 1) : h[i] = f[i]
      <4>1. \A i \in 0..(m - 1) :
               f[i] = IF i = 0 THEN EmptyMap ELSE Overlay(f[i - 1], ls[i].entries)
        BY <3>2 DEF OverlaysOn
      <4>2. \A i \in 0..(m - 1) : i \in 0..m
        BY <2>4
      <4> QED
        BY <4>1, <4>2, <3>3
    <3>5. \A i \in 0..m : i # 0 => h[i - 1] = f[i - 1]
      BY <2>4, <3>4
    <3>6. OverlaysOn(h, ls, m)
      BY <3>3, <3>5 DEF OverlaysOn
    <3> QED
      BY <2>4, <3>6
  <2> QED
    BY <2>4, <2>5, <2>6
<1> QED
  BY <1>1, <1>2

(* An overlay on a map without tombstones has none. *)
LEMMA OverlayPlain == ASSUME NEW m, NEW e, Plain(m) PROVE Plain(Overlay(m, e))
<1>1. \A x : Strip(Strip(x)) = Strip(x)
  BY DEF Strip
<1>2. \A k \in Keys : Strip(m[k]) = m[k]
  BY DEF Plain
<1>3. \A k \in Keys : Strip(Overlay(m, e)[k]) = Overlay(m, e)[k]
  BY <1>1, <1>2 DEF Overlay
<1>4. Overlay(m, e) = [k \in Keys |-> Overlay(m, e)[k]]
  BY DEF Overlay
<1> QED
  BY <1>3, <1>4 DEF Plain

(* The layers laid over each other have no tombstones. *)
LEMMA OverlaysPlain ==
    ASSUME NEW ls, NEW n \in Nat, NEW f, OverlaysOn(f, ls, n)
    PROVE  \A i \in 0..n : Plain(f[i])
<1>1. PICK X : X = {i \in 0..n : ~ Plain(f[i])}
  OBVIOUS
<1>2. SUFFICES ASSUME X # {} PROVE FALSE
  BY <1>1
<1>3. X \in SUBSET Nat
  BY <1>1
<1>4. PICK m \in X : \A j \in X : m <= j
  BY <1>2, <1>3, LeastNumber
<1>5. m \in 0..n /\ ~ Plain(f[m])
  BY <1>1
<1>6. f[m] = IF m = 0 THEN EmptyMap ELSE Overlay(f[m - 1], ls[m].entries)
  BY <1>5 DEF OverlaysOn
<1>7. Plain(EmptyMap)
  BY DEF Plain, EmptyMap, Strip
<1>8. m # 0
  BY <1>5, <1>6, <1>7
<1>9. m - 1 \in 0..n /\ m - 1 \notin X
  BY <1>4, <1>5, <1>8
<1>10. Plain(f[m - 1])
  BY <1>1, <1>9
<1> QED
  BY <1>5, <1>6, <1>8, <1>10, OverlayPlain

(* materialize_state *)
LEMMA MaterializeIs ==
    ASSUME Len(layers) \in Nat
    PROVE  \E f : /\ OverlaysOn(f, layers, Len(layers))
                  /\ Materialize = Overlay(Overlay(f[Len(layers)], state), pending)
<1>1. PICK f : f = CHOOSE h : OverlaysOn(h, layers, Len(layers))
  OBVIOUS
<1>2. OverlaysOn(f, layers, Len(layers))
  BY <1>1, OverlaysExist
<1>3. Materialize = Overlay(Overlay(f[Len(layers)], state), pending)
  BY <1>1 DEF Materialize, OverlaysOn, Overlay
<1> QED
  BY <1>2, <1>3

(* A compaction writes no tombstones. *)
LEMMA MaterializePlain == ASSUME Len(layers) \in Nat PROVE Plain(Materialize)
<1>1. PICK f : /\ OverlaysOn(f, layers, Len(layers))
               /\ Materialize = Overlay(Overlay(f[Len(layers)], state), pending)
  BY MaterializeIs
<1>2. Plain(f[Len(layers)])
  BY <1>1, OverlaysPlain
<1> QED
  BY <1>1, <1>2, OverlayPlain

(* Compacting a single table that a compaction wrote gives the same table. *)
LEMMA MaterializeAgain ==
    ASSUME NEW m, layers = <<m>>, Plain(m.entries), state = EmptyMap, pending = EmptyMap
    PROVE  Materialize = m.entries
<1>1. Len(layers) = 1 /\ layers[1] = m
  OBVIOUS
<1>2. PICK f : /\ OverlaysOn(f, layers, Len(layers))
               /\ Materialize = Overlay(Overlay(f[Len(layers)], state), pending)
  BY <1>1, MaterializeIs
<1>3. f[0] = EmptyMap /\ f[1] = Overlay(f[0], m.entries)
  <2>1. \A i \in 0..1 : f[i] = IF i = 0 THEN EmptyMap ELSE Overlay(f[i - 1], layers[i].entries)
    BY <1>1, <1>2 DEF OverlaysOn
  <2> QED
    BY <1>1, <2>1
<1>4. \A k \in Keys : Strip(m.entries[k]) = m.entries[k]
  BY DEF Plain
<1>5. m.entries = [k \in Keys |-> m.entries[k]]
  BY <1>4 DEF Plain
<1>6. f[1] = m.entries
  BY <1>3, <1>4, <1>5 DEF Overlay, EmptyMap
<1>7. \A e : Overlay(e, EmptyMap) = [k \in Keys |-> e[k]]
  BY DEF Overlay, EmptyMap
<1>8. Overlay(m.entries, EmptyMap) = m.entries
  BY <1>5, <1>7
<1> QED
  BY <1>1, <1>2, <1>6, <1>8

-----------------------------------------------------------------------------
(* Blocks *)

Ranked(S, i) == CHOOSE k \in S : Cardinality({j \in S : j < k}) = i - 1

(* The keys of a table are a sequence. *)
LEMMA SortedKeys ==
    ASSUME NEW m
    PROVE  /\ Cardinality(Present(m)) \in Nat
           /\ DOMAIN Sorted(Present(m)) = 1..Cardinality(Present(m))
           /\ Len(Sorted(Present(m))) = Cardinality(Present(m))
<1>1. PICK S : S = Present(m)
  OBVIOUS
<1>2. S \in SUBSET Keys /\ IsFiniteSet(Keys)
  BY <1>1, KeysAssumption DEF Present
<1>3. IsFiniteSet(S)
  BY <1>2, FS_Subset
<1>4. Cardinality(S) \in Nat
  BY <1>3, FS_CardinalityType
<1>5. PICK s : s = Sorted(S)
  OBVIOUS
<1>6. DOMAIN s = 1..Cardinality(S) /\ s = [i \in 1..Cardinality(S) |-> s[i]]
  <2>1. s = [i \in 1..Cardinality(S) |-> Ranked(S, i)]
    BY <1>5 DEF Sorted, Ranked
  <2> QED
    BY <2>1
<1>7. Len(s) = Cardinality(S)
  BY <1>4, <1>6
<1> QED
  BY <1>1, <1>4, <1>5, <1>6, <1>7

(* The blocks of a table, and the records of a block, are sequences. *)
LEMMA BlockShape ==
    ASSUME NEW l
    PROVE  /\ DOMAIN Blocks(l) = 1..Len(Blocks(l)) /\ Len(Blocks(l)) \in Nat
           /\ \A b \in DOMAIN Blocks(l) : Len(OnDisk(l, b)) \in Nat
<1>1. CASE l.legacy
  <2>1. Blocks(l) = <<>>
    BY <1>1 DEF Blocks
  <2>2. Len(<<>>) = 0 /\ DOMAIN <<>> = {} /\ 1..0 = {}
    OBVIOUS
  <2> QED
    BY <2>1, <2>2
<1>2. CASE ~l.legacy
  <2>1. PICK ks : ks = Sorted(Present(l.entries))
    OBVIOUS
  <2>2. Len(ks) \in Nat
    BY <2>1, SortedKeys
  <2>3. BlockRecords \in Nat \ {0}
    BY BoundsAssumption
  <2>4. PICK n : n = (Len(ks) + BlockRecords - 1) \div BlockRecords
    OBVIOUS
  <2>5. n \in Nat
    <3>1. PICK x : x = Len(ks) + BlockRecords - 1
      OBVIOUS
    <3>2. x \in Nat
      BY <2>2, <2>3, <3>1
    <3> QED
      BY <2>3, <2>4, <3>1, <3>2
  <2>6. PICK bs : bs = Blocks(l)
    OBVIOUS
  <2>7. bs = [i \in 1..n |-> SubSeq(ks, (i - 1) * BlockRecords + 1,
                  IF i * BlockRecords < Len(ks) THEN i * BlockRecords ELSE Len(ks))]
    BY <1>2, <2>1, <2>4, <2>6 DEF Blocks
  <2>8. DOMAIN bs = 1..n /\ Len(bs) = n
    BY <2>5, <2>7
  <2>9. ASSUME NEW b \in DOMAIN bs PROVE Len(OnDisk(l, b)) \in Nat
    <3>1. PICK from : from = (b - 1) * BlockRecords + 1
      OBVIOUS
    <3>2. PICK to : to = IF b * BlockRecords < Len(ks) THEN b * BlockRecords ELSE Len(ks)
      OBVIOUS
    <3>3. b \in Int /\ b - 1 \in Int
      BY <2>8
    <3>4. from \in Int /\ to \in Int
      BY <2>2, <2>3, <3>1, <3>2, <3>3
    <3>5. bs[b] = SubSeq(ks, from, to)
      BY <2>7, <2>8, <3>1, <3>2
    <3>6. DOMAIN bs[b] = 1..(1 + to - from)
      <4>1. SubSeq(ks, from, to) = [i \in 1..(1 + to - from) |-> ks[i + from - 1]]
        BY <3>4
      <4> QED
        BY <3>5, <4>1
    <3>7. PICK o : o = OnDisk(l, b)
      OBVIOUS
    <3>8. DOMAIN o = 1..(1 + to - from) /\ o = [i \in 1..(1 + to - from) |-> o[i]]
      BY <2>6, <3>6, <3>7 DEF OnDisk
    <3>9. PICK y : y = 1 + to - from
      OBVIOUS
    <3>10. CASE y \in Nat
      BY <3>7, <3>8, <3>9, <3>10
    <3>11. CASE y \notin Nat
      <4>1. 1..y = 1..0
        BY <3>4, <3>9, <3>11
      <4>2. DOMAIN o = 1..0 /\ o = [i \in 1..0 |-> o[i]]
        BY <3>8, <3>9, <4>1
      <4>3. Len(o) = 0
        BY <4>2
      <4> QED
        BY <3>7, <4>3
    <3> QED
      BY <3>10, <3>11
  <2> QED
    BY <2>5, <2>6, <2>8, <2>9
<1> QED
  BY <1>1, <1>2

-----------------------------------------------------------------------------
(* Reads through the cache *)

(* The tables in use or captured, and the paths they and the blocks have. *)
Tables == {layers[i] : i \in DOMAIN layers} \cup {snap.layers[i] : i \in DOMAIN snap.layers}
Paths == {l.path : l \in Tables} \cup {b[1] : b \in DOMAIN cache.entries}

(* A path names one table. *)
SamePath ==
    \A l \in Tables : \A m \in Tables :
        l.path = m.path => l.entries = m.entries /\ l.legacy = m.legacy

(* A cached block is what its table holds. *)
BlocksTrue ==
    \A b \in DOMAIN cache.entries : \A l \in Tables :
        b[1] = l.path => cache.entries[b].content = OnDisk(l, b[2])

(* No path is newer than the last commit, and once a table has the number   *)
(* of the last commit everything is in tables.                              *)
PathsOld ==
    \A p \in Paths :
        /\ p[1] \in Nat /\ p[1] <= sequence
        /\ p[1] = sequence => state = EmptyMap /\ pending = EmptyMap

(* A compacted table with that number is the only table. *)
CompactedAlone ==
    <<sequence, -1>> \in Paths =>
        \E m : layers = <<m>> /\ m.path = <<sequence, -1>> /\ m.legacy = FALSE /\ Plain(m.entries)

(* The cursors of a page belong to its tables. *)
CursorsPlaced ==
    pc = "merge" =>
        \A i \in DOMAIN cursors :
            /\ i \in DOMAIN snap.layers
            /\ "next" \in DOMAIN cursors[i] /\ cursors[i].next \in Nat \ {0}

Serving ==
    /\ sequence \in Nat /\ (ram => Paths = {})
    /\ CacheOK(cache) /\ SamePath /\ BlocksTrue /\ PathsOld /\ CompactedAlone /\ CursorsPlaced

(* A cache whose blocks were there before or come from the tables. *)
Backed(d) ==
    \A j \in DOMAIN d.entries :
        \/ j \in DOMAIN cache.entries /\ d.entries[j].content = cache.entries[j].content
        \/ \E l \in Tables : \E b : j = <<l.path, b>> /\ d.entries[j].content = OnDisk(l, b)

(* Adding a block of a table keeps it so. *)
LEMMA ServedBacked ==
    ASSUME NEW d, Backed(d), NEW l \in Tables, NEW b, NEW e,
           ServedFrom(e, d, BlockKey(l, b), OnDisk(l, b))
    PROVE  Backed(e)
<1>1. ASSUME NEW j \in DOMAIN e.entries, j \in DOMAIN d.entries,
             e.entries[j].content = d.entries[j].content
      PROVE  \/ j \in DOMAIN cache.entries /\ e.entries[j].content = cache.entries[j].content
             \/ \E m \in Tables : \E a : j = <<m.path, a>> /\ e.entries[j].content = OnDisk(m, a)
  BY <1>1 DEF Backed
<1>2. ASSUME NEW j \in DOMAIN e.entries, j = BlockKey(l, b), e.entries[j].content = OnDisk(l, b)
      PROVE  \E m \in Tables : \E a : j = <<m.path, a>> /\ e.entries[j].content = OnDisk(m, a)
  BY <1>2 DEF BlockKey
<1> QED
  BY <1>1, <1>2 DEF Backed, ServedFrom

(* The value of one entry is read from its block. *)
LEMMA EntryRead ==
    ASSUME NEW d, CacheOK(d), Backed(d), NEW l \in Tables, NEW k
    PROVE  CacheOK(CacheAfterEntry(d, l, k)) /\ Backed(CacheAfterEntry(d, l, k))
<1>1. CASE CandidateBlock(l, k) = {}
  <2>1. CacheAfterEntry(d, l, k) = d
    BY <1>1 DEF CacheAfterEntry
  <2> QED
    BY <2>1
<1>2. CASE CandidateBlock(l, k) # {}
  <2>1. PICK C : C = CandidateBlock(l, k)
    OBVIOUS
  <2>2. PICK b : b = CHOOSE i \in C : TRUE
    OBVIOUS
  <2>3. b \in C
    BY <1>2, <2>1, <2>2
  <2>4. C \subseteq DOMAIN Blocks(l)
    BY <2>1 DEF CandidateBlock
  <2>5. PICK e : e = CacheBytesOf(d, l, b)
    OBVIOUS
  <2>6. CacheAfterEntry(d, l, k) = e
    BY <1>2, <2>1, <2>2, <2>5 DEF CacheAfterEntry
  <2>7. Len(OnDisk(l, b)) \in Nat
    BY <2>3, <2>4, BlockShape
  <2>8. CacheOK(e) /\ ServedFrom(e, d, BlockKey(l, b), OnDisk(l, b))
    BY <2>5, <2>7, BytesOK
  <2>9. Backed(e)
    BY <2>8, ServedBacked
  <2> QED
    BY <2>6, <2>8, <2>9
<1> QED
  BY <1>1, <1>2

(* Every nonempty finite set of naturals has a greatest member. *)
LEMMA GreatestNumber ==
    ASSUME NEW S, IsFiniteSet(S), \A n \in S : n \in Nat, S # {}
    PROVE  Max(S) \in S
<1>1. PICK X : X = {T \in SUBSET S : T # {} /\ ~ \E m \in T : \A n \in T : n <= m}
  OBVIOUS
<1>2. X = {}
  <2>1. SUFFICES ASSUME X # {} PROVE FALSE
    OBVIOUS
  <2>2. X \in SUBSET (SUBSET S)
    BY <1>1
  <2>3. PICK A \in X : \A B \in X : B \subseteq A => B = A
    BY <2>1, <2>2, MinimalSet
  <2>4. A \in SUBSET Nat /\ A \in SUBSET S /\ A # {} /\ ~ \E m \in A : \A n \in A : n <= m
    BY <1>1
  <2>5. PICK x : x \in A
    BY <2>4
  <2>6. x \in Nat
    BY <2>4, <2>5
  <2>7. A \ {x} \notin X /\ A \ {x} \in SUBSET S
    BY <2>3, <2>4, <2>5
  <2>8. A \ {x} # {}
    <3>1. ASSUME A \ {x} = {} PROVE \A n \in A : n <= x
      BY <2>6, <3>1
    <3> QED
      BY <2>4, <2>5, <3>1
  <2>9. PICK m \in A \ {x} : \A n \in A \ {x} : n <= m
    BY <1>1, <2>7, <2>8
  <2>10. m \in Nat /\ m \in A
    BY <2>4, <2>9
  <2>11. CASE x <= m
    BY <2>4, <2>9, <2>10, <2>11
  <2>12. CASE ~(x <= m)
    <3>1. \A n \in A : n <= x
      <4>1. ASSUME NEW n \in A, n # x PROVE n <= x
        <5>1. n \in Nat /\ n <= m
          BY <2>4, <2>9, <4>1
        <5> QED
          BY <2>6, <2>10, <2>12, <5>1
      <4>2. x <= x
        BY <2>6
      <4> QED
        BY <4>1, <4>2
    <3> QED
      BY <2>4, <2>5, <3>1
  <2> QED
    BY <2>11, <2>12
<1>3. \E m \in S : \A n \in S : n <= m
  <2>1. S \in SUBSET S
    OBVIOUS
  <2> QED
    BY <1>1, <1>2, <2>1
<1>4. \E m \in S : \A n \in S : m >= n
  BY <1>3
<1> QED
  BY <1>4 DEF Max

(* Tables with the same entries have the same blocks. *)
LEMMA SameBlocks ==
    ASSUME NEW l, NEW m, l.entries = m.entries, l.legacy = m.legacy, NEW b
    PROVE  OnDisk(l, b) = OnDisk(m, b)
<1>1. Blocks(l) = Blocks(m)
  BY DEF Blocks
<1> QED
  BY <1>1 DEF OnDisk

(* The empty sequence has no elements. *)
LEMMA NoElements == DOMAIN <<>> = {}
OBVIOUS

(* A step of a read: it holds no new table, and what it brings into the     *)
(* cache comes from the tables it holds.                                    *)
LEMMA ReadKeeps ==
    ASSUME Serving, UNCHANGED <<ram, state, pending, layers, sequence>>,
           snap'.layers = <<>> \/ snap'.layers = layers \/ snap'.layers = snap.layers,
           CacheOK(cache'), Backed(cache'), CursorsPlaced'
    PROVE  Serving'
<1>1. Tables' \subseteq Tables
  <2>1. CASE snap'.layers = <<>>
    BY <2>1, NoElements DEF Tables
  <2>2. CASE snap'.layers = layers
    BY <2>2 DEF Tables
  <2>3. CASE snap'.layers = snap.layers
    BY <2>3 DEF Tables
  <2> QED
    BY <2>1, <2>2, <2>3
<1>2. ASSUME NEW b \in DOMAIN cache'.entries
      PROVE  b[1] \in Paths
  <2>1. CASE b \in DOMAIN cache.entries
    BY <2>1 DEF Paths
  <2>2. CASE \E l \in Tables : \E a : b = <<l.path, a>>
    BY <2>2 DEF Paths
  <2> QED
    BY <2>1, <2>2 DEF Backed
<1>3. Paths' \subseteq Paths
  <2>1. {l.path : l \in Tables'} \subseteq Paths
    BY <1>1 DEF Paths
  <2>2. {b[1] : b \in DOMAIN cache'.entries} \subseteq Paths
    BY <1>2
  <2>3. Paths' = {l.path : l \in Tables'} \cup {b[1] : b \in DOMAIN cache'.entries}
    BY DEF Paths
  <2> QED
    BY <2>1, <2>2, <2>3
<1>4. SamePath'
  BY <1>1 DEF Serving, SamePath
<1>5. BlocksTrue'
  <2>1. SUFFICES ASSUME NEW b \in DOMAIN cache'.entries, NEW l \in Tables', b[1] = l.path
                 PROVE  cache'.entries[b].content = OnDisk(l, b[2])
    BY DEF BlocksTrue, OnDisk, Blocks
  <2>2. l \in Tables
    BY <1>1
  <2>3. CASE b \in DOMAIN cache.entries /\ cache'.entries[b].content = cache.entries[b].content
    BY <2>1, <2>2, <2>3 DEF Serving, BlocksTrue
  <2>4. CASE \E m \in Tables : \E a : b = <<m.path, a>> /\ cache'.entries[b].content = OnDisk(m, a)
    <3>1. PICK m \in Tables : \E a : b = <<m.path, a>> /\ cache'.entries[b].content = OnDisk(m, a)
      BY <2>4
    <3>2. PICK a : b = <<m.path, a>> /\ cache'.entries[b].content = OnDisk(m, a)
      BY <3>1
    <3>3. b[1] = m.path /\ b[2] = a
      BY <3>2
    <3>4. m.entries = l.entries /\ m.legacy = l.legacy
      BY <2>1, <2>2, <3>3 DEF Serving, SamePath
    <3>5. OnDisk(m, a) = OnDisk(l, a)
      BY <3>4, SameBlocks
    <3> QED
      BY <3>2, <3>3, <3>5
  <2> QED
    BY <2>3, <2>4 DEF Backed
<1>6. PathsOld'
  BY <1>3 DEF Serving, PathsOld, EmptyMap
<1>7. CompactedAlone'
  BY <1>3 DEF Serving, CompactedAlone, Plain, Strip
<1>8. sequence' \in Nat /\ (ram' => Paths' = {})
  BY <1>3 DEF Serving
<1>9. CacheOK(cache)'
  BY DEF CacheOK, Ordered, CachedBlock, TotalBytes, CacheFields, EntryFields, MapThenSumSet,
      MapThenFoldSet, EntryBytes, RawBytes
<1> QED
  BY <1>4, <1>5, <1>6, <1>7, <1>8, <1>9 DEF Serving

(* A cache is its own. *)
LEMMA CacheKept ==
    ASSUME Serving, UNCHANGED cache
    PROVE  CacheOK(cache') /\ Backed(cache') /\ CacheOK(cache)'
<1>1. CacheOK(cache) /\ cache' = cache
  BY DEF Serving
<1>2. CacheOK(cache')
  BY <1>1
<1>3. Backed(cache')
  BY DEF Backed
<1>4. CacheOK(cache)'
  BY <1>2 DEF CacheOK, Ordered, CachedBlock, TotalBytes, CacheFields, EntryFields, MapThenSumSet,
      MapThenFoldSet, EntryBytes, RawBytes
<1> QED
  BY <1>2, <1>3, <1>4

(* A flush or a compaction adds a table with the number of the last commit  *)
(* that is new, or the same as the one it replaces.                         *)
LEMMA NewTable ==
    ASSUME Serving, NEW new, Tables' \subseteq Tables \cup {new}, ~ram, ~ram',
           UNCHANGED <<sequence, cache, snap, cursors, pc>>,
           state' = EmptyMap, pending' = EmptyMap, new.path[1] = sequence,
           \/ new.path \notin Paths
           \/ \E m \in Tables : m.path = new.path /\ m.entries = new.entries /\ m.legacy = new.legacy,
           CompactedAlone'
    PROVE  Serving'
<1>1. Paths' \subseteq Paths \cup {new.path}
  BY DEF Paths
<1>2. ASSUME NEW l \in Tables, l.path = new.path
      PROVE  l.entries = new.entries /\ l.legacy = new.legacy
  <2>1. l.path \in Paths
    BY DEF Paths
  <2>2. PICK m \in Tables : m.path = new.path /\ m.entries = new.entries /\ m.legacy = new.legacy
    BY <1>2, <2>1
  <2> QED
    BY <1>2, <2>2 DEF Serving, SamePath
<1>3. SamePath'
  <2>1. SUFFICES ASSUME NEW l \in Tables', NEW m \in Tables', l.path = m.path
                 PROVE  l.entries = m.entries /\ l.legacy = m.legacy
    BY DEF SamePath
  <2>2. (l \in Tables \/ l = new) /\ (m \in Tables \/ m = new)
    OBVIOUS
  <2>3. CASE l \in Tables /\ m \in Tables
    BY <2>1, <2>3 DEF Serving, SamePath
  <2>4. CASE l = new \/ m = new
    BY <1>2, <2>1, <2>2, <2>4
  <2> QED
    BY <2>2, <2>3, <2>4
<1>4. BlocksTrue'
  <2>1. SUFFICES ASSUME NEW b \in DOMAIN cache.entries, NEW l \in Tables', b[1] = l.path
                 PROVE  cache.entries[b].content = OnDisk(l, b[2])
    BY DEF BlocksTrue, OnDisk, Blocks
  <2>2. CASE l \in Tables
    BY <2>1, <2>2 DEF Serving, BlocksTrue
  <2>3. CASE l = new
    <3>1. b[1] \in Paths
      BY DEF Paths
    <3>2. PICK m \in Tables : m.path = new.path /\ m.entries = new.entries /\ m.legacy = new.legacy
      BY <2>1, <2>3, <3>1
    <3>3. cache.entries[b].content = OnDisk(m, b[2])
      BY <2>1, <2>3, <3>2 DEF Serving, BlocksTrue
    <3>4. OnDisk(m, b[2]) = OnDisk(new, b[2])
      BY <3>2, SameBlocks
    <3> QED
      BY <2>3, <3>3, <3>4
  <2> QED
    BY <2>2, <2>3
<1>5. PathsOld'
  <2>1. SUFFICES ASSUME NEW p \in Paths' PROVE p[1] \in Nat /\ p[1] <= sequence
    BY DEF PathsOld, EmptyMap
  <2>2. CASE p \in Paths
    BY <2>2 DEF Serving, PathsOld
  <2>3. CASE p = new.path
    BY <2>3 DEF Serving
  <2> QED
    BY <1>1, <2>2, <2>3
<1>6. CursorsPlaced'
  BY DEF Serving, CursorsPlaced
<1>7. CacheOK(cache)'
  BY CacheKept
<1> QED
  BY <1>3, <1>4, <1>5, <1>6, <1>7 DEF Serving

(* The changes of the database keep the cache true to its tables. *)
LEMMA ChangesServe ==
    ASSUME Serving, Overtaken,
           \/ \E b \in Batches : Commit(b) \/ CommitMemory(b)
           \/ Flush \/ Compact
    PROVE  Serving'
<1>0. UNCHANGED <<ram, cache, snap, cursors, pc>>
  BY DEF Commit, CommitMemory, Flush, Compact, Changed, reader
<1>a. IsSeq(layers) /\ Len(layers) \in Nat
  BY SeqOfElements DEF Overtaken, Counts
<1>1. CASE \E b \in Batches : Commit(b)
  <2>1. sequence' = sequence + 1 /\ layers' = layers
    BY <1>1 DEF Commit
  <2>2. sequence \in Nat /\ sequence' \in Nat
    BY <2>1 DEF Serving
  <2>3. Tables' = Tables /\ Paths' = Paths
    BY <1>0, <2>1 DEF Tables, Paths
  <2>4. \A p \in Paths : p[1] \in Nat /\ p[1] <= sequence' /\ p[1] # sequence'
    BY <2>1, <2>2 DEF Serving, PathsOld
  <2>5. PathsOld'
    BY <2>3, <2>4 DEF PathsOld
  <2>6. <<sequence', -1>> \notin Paths
    <3>1. <<sequence', -1>>[1] = sequence'
      OBVIOUS
    <3> QED
      BY <2>4, <3>1
  <2>7. CompactedAlone'
    BY <2>3, <2>6 DEF CompactedAlone
  <2>8. SamePath' /\ CursorsPlaced' /\ (ram' => Paths' = {})
    BY <1>0, <2>3 DEF Serving, SamePath, CursorsPlaced
  <2>9. BlocksTrue'
    BY <1>0, <2>3 DEF Serving, BlocksTrue, OnDisk, Blocks
  <2>10. CacheOK(cache)'
    BY <1>0, CacheKept
  <2> QED
    BY <2>2, <2>5, <2>7, <2>8, <2>9, <2>10 DEF Serving
<1>2. CASE \E b \in Batches : CommitMemory(b)
  <2>1. ram /\ UNCHANGED <<sequence, layers>>
    BY <1>2 DEF CommitMemory
  <2>2. Paths = {} /\ Tables' = Tables /\ Paths' = Paths
    BY <1>0, <2>1 DEF Serving, Tables, Paths
  <2>3. PathsOld' /\ CompactedAlone'
    BY <2>2 DEF PathsOld, CompactedAlone
  <2>4. SamePath' /\ CursorsPlaced' /\ sequence' \in Nat
    BY <1>0, <2>1, <2>2 DEF Serving, SamePath, CursorsPlaced
  <2>5. BlocksTrue'
    BY <1>0, <2>2 DEF Serving, BlocksTrue, OnDisk, Blocks
  <2>6. CacheOK(cache)'
    BY <1>0, CacheKept
  <2> QED
    BY <2>2, <2>3, <2>4, <2>5, <2>6 DEF Serving
<1>3. CASE Flush
  <2>1. PICK new : new = Layer(generation, <<sequence, Len(layers)>>, pending, FALSE)
    OBVIOUS
  <2>2. /\ ~ram /\ pending # EmptyMap /\ layers' = Append(layers, new)
        /\ state' = EmptyMap /\ pending' = EmptyMap /\ sequence' = sequence
    BY <1>3, <2>1 DEF Flush
  <2>3. new.path = <<sequence, Len(layers)>>
    BY <2>1 DEF Layer
  <2>4. Tables' \subseteq Tables \cup {new}
    <3>1. \A i \in DOMAIN Append(layers, new) : i \in DOMAIN layers \/ Append(layers, new)[i] = new
      BY <1>a, AppendSeq
    <3>2. \A i \in DOMAIN layers : Append(layers, new)[i] = layers[i]
      BY <1>a, AppendSeq
    <3>3. \A i \in DOMAIN layers' : layers'[i] \in Tables \cup {new}
      BY <2>2, <3>1, <3>2 DEF Tables
    <3>4. \A i \in DOMAIN snap'.layers : snap'.layers[i] \in Tables
      BY <1>0 DEF Tables
    <3>5. Tables' = {layers'[i] : i \in DOMAIN layers'} \cup {snap'.layers[i] : i \in DOMAIN snap'.layers}
      BY DEF Tables
    <3> QED
      BY <3>3, <3>4, <3>5
  <2>5. \A p \in Paths : p[1] # sequence
    BY <2>2 DEF Serving, PathsOld
  <2>6. new.path[1] = sequence /\ new.path \notin Paths
    BY <2>3, <2>5
  <2>7. CompactedAlone'
    <3>1. Paths' \subseteq Paths \cup {new.path}
      BY <1>0, <2>4 DEF Paths
    <3>2. <<sequence, -1>> \notin Paths
      <4>1. <<sequence, -1>>[1] = sequence
        OBVIOUS
      <4> QED
        BY <2>5, <4>1
    <3>3. <<sequence, -1>> # new.path
      <4>1. <<sequence, -1>>[2] = -1 /\ new.path[2] = Len(layers) /\ Len(layers) # -1
        BY <1>a, <2>3
      <4> QED
        BY <4>1
    <3>4. <<sequence, -1>> \notin Paths'
      BY <3>1, <3>2, <3>3
    <3> QED
      BY <2>2, <3>4 DEF CompactedAlone
  <2> QED
    BY <1>0, <2>2, <2>4, <2>6, <2>7, NewTable
<1>4. CASE Compact
  <2>1. PICK new : new = Layer(generation, <<sequence, -1>>, Materialize, FALSE)
    OBVIOUS
  <2>2. /\ ~ram /\ layers' = <<new>>
        /\ state' = EmptyMap /\ pending' = EmptyMap /\ sequence' = sequence
    BY <1>4, <2>1 DEF Compact
  <2>3. new.path = <<sequence, -1>> /\ new.entries = Materialize /\ new.legacy = FALSE
    BY <2>1 DEF Layer
  <2>4. Tables' \subseteq Tables \cup {new}
    <3>1. \A i \in DOMAIN layers' : layers'[i] = new
      <4>1. DOMAIN <<new>> = {1} /\ <<new>>[1] = new
        OBVIOUS
      <4> QED
        BY <2>2, <4>1
    <3>2. \A i \in DOMAIN snap'.layers : snap'.layers[i] \in Tables
      BY <1>0 DEF Tables
    <3>3. Tables' = {layers'[i] : i \in DOMAIN layers'} \cup {snap'.layers[i] : i \in DOMAIN snap'.layers}
      BY DEF Tables
    <3> QED
      BY <3>1, <3>2, <3>3
  <2>5. new.path[1] = sequence
    BY <2>3
  <2>6. ASSUME new.path \in Paths
        PROVE  \E m \in Tables : m.path = new.path /\ m.entries = new.entries /\ m.legacy = new.legacy
    <3>1. PICK m : layers = <<m>> /\ m.path = <<sequence, -1>> /\ m.legacy = FALSE /\ Plain(m.entries)
      BY <2>3, <2>6 DEF Serving, CompactedAlone
    <3>2. state = EmptyMap /\ pending = EmptyMap
      BY <2>5, <2>6 DEF Serving, PathsOld
    <3>3. Materialize = m.entries
      BY <3>1, <3>2, MaterializeAgain
    <3>4. m \in Tables
      <4>1. 1 \in DOMAIN layers /\ layers[1] = m
        BY <3>1
      <4> QED
        BY <4>1 DEF Tables
    <3> QED
      BY <2>3, <3>1, <3>3, <3>4
  <2>7. CompactedAlone'
    <3>1. Plain(new.entries)
      BY <1>a, <2>3, MaterializePlain
    <3>2. \E m : layers' = <<m>> /\ m.path = <<sequence', -1>> /\ m.legacy = FALSE /\ Plain(m.entries)
      BY <2>2, <2>3, <3>1
    <3> QED
      BY <3>2 DEF CompactedAlone, Plain, Strip
  <2> QED
    BY <1>0, <2>2, <2>4, <2>5, <2>6, <2>7, NewTable
<1> QED
  BY <1>1, <1>2, <1>3, <1>4

(* Initially nothing is cached and every table has a path of its own. *)
LEMMA InitServes == Init => Serving
<1> SUFFICES ASSUME Init PROVE Serving
  OBVIOUS
<1>1. snap.layers = <<>> /\ cache = EmptyCache /\ sequence = 1 /\ pc = "idle"
  BY NoSnapFacts DEF Init
<1>2. DOMAIN EmptyCache = CacheFields /\ EmptyCache.clock = 0 /\ EmptyCache.resident = 0
      /\ DOMAIN EmptyCache.entries = {} /\ DOMAIN EmptyCache.lru = {}
  BY DEF EmptyCache, CacheFields
<1>3. CacheOK(cache)
  <2>1. PICK c : c = EmptyCache
    OBVIOUS
  <2>2. TotalBytes(c.entries, {}) = 0
    <3>1. IsFiniteSet({}) /\ Weighs(c.entries, {})
      BY FS_EmptySet DEF Weighs
    <3> QED
      BY <3>1, TotalFacts
  <2>3. Ordered(c.entries, c.lru, c.clock)
    BY <1>2, <2>1, FS_EmptySet DEF Ordered
  <2>4. 0 <= CacheBytes
    BY BoundsAssumption
  <2>5. CacheOK(c)
    BY <1>2, <2>1, <2>2, <2>3, <2>4 DEF CacheOK
  <2> QED
    BY <1>1, <2>1, <2>5
<1>4. \A i \in DOMAIN layers : layers[i].path = <<0, i>>
  <2>1. PICK ls : layers = IF ram THEN <<>>
                   ELSE [i \in DOMAIN ls |-> Layer(-i, <<0, i>>, ls[i].entries, ls[i].legacy)]
    BY DEF Init
  <2>2. CASE ram
    BY <2>1, <2>2, NoElements
  <2>3. CASE ~ram
    BY <2>1, <2>3 DEF Layer
  <2> QED
    BY <2>2, <2>3
<1>5. ram => layers = <<>>
  BY DEF Init
<1>6. Tables = {layers[i] : i \in DOMAIN layers}
  BY <1>1, NoElements DEF Tables
<1>7. \A l \in Tables : \E i \in DOMAIN layers : l = layers[i] /\ l.path = <<0, i>>
  BY <1>4, <1>6
<1>8. DOMAIN cache.entries = {}
  BY <1>1, <1>2
<1>9. Paths = {l.path : l \in Tables}
  BY <1>8 DEF Paths
<1>10. \A p \in Paths : p[1] = 0
  BY <1>7, <1>9
<1>11. SamePath
  <2>1. SUFFICES ASSUME NEW l \in Tables, NEW m \in Tables, l.path = m.path PROVE l = m
    BY DEF SamePath
  <2>2. PICK i \in DOMAIN layers : l = layers[i] /\ l.path = <<0, i>>
    BY <1>7
  <2>3. PICK j \in DOMAIN layers : m = layers[j] /\ m.path = <<0, j>>
    BY <1>7
  <2> QED
    BY <2>1, <2>2, <2>3
<1>12. BlocksTrue
  BY <1>8 DEF BlocksTrue
<1>13. PathsOld
  BY <1>1, <1>10 DEF PathsOld
<1>14. CompactedAlone
  <2>1. <<sequence, -1>>[1] # 0
    BY <1>1
  <2> QED
    BY <1>10, <2>1 DEF CompactedAlone
<1>15. CursorsPlaced
  BY <1>1 DEF CursorsPlaced
<1>16. ram => Paths = {}
  BY <1>5, <1>6, <1>9, NoElements
<1> QED
  BY <1>1, <1>3, <1>11, <1>12, <1>13, <1>14, <1>15, <1>16 DEF Serving

(* A step of a read that does not use the cache. *)
LEMMA QuietStep ==
    ASSUME Serving, UNCHANGED <<ram, state, pending, layers, sequence, cache>>,
           snap'.layers = <<>> \/ snap'.layers = layers \/ snap'.layers = snap.layers,
           CursorsPlaced'
    PROVE  Serving'
BY CacheKept, ReadKeeps

(* An answer leaves no cursors and no captured tables. *)
LEMMA AnswersServe ==
    ASSUME Serving, UNCHANGED inner, UNCHANGED cache, Nothing, pc' # "merge"
    PROVE  Serving'
<1>1. UNCHANGED <<ram, state, pending, layers, sequence, cache>>
  BY DEF inner
<1>2. snap'.layers = <<>>
  BY NoSnapFacts DEF Nothing
<1>3. CursorsPlaced'
  BY DEF CursorsPlaced
<1> QED
  BY <1>1, <1>2, <1>3, QuietStep

(* The reads that are answered at once. *)
LEMMA LockedServe ==
    ASSUME Serving,
           \/ \E ks : MemoryLookup(ks)
           \/ \E k : GetShared(k)
           \/ \E q : MemoryScan(q) \/ MemoryCount(q) \/ ScanNothing(q) \/ ScanMemtable(q)
           \/ TakeSnapshot \/ Return
    PROVE  Serving'
<1>1. CASE \E ks : MemoryLookup(ks)
  BY <1>1, AnswersServe DEF MemoryLookup, Begin, Answer
<1>2. CASE \E k : GetShared(k)
  BY <1>1, <1>2, AnswersServe DEF GetShared, Begin, Fail
<1>3. CASE \E q : MemoryScan(q) \/ MemoryCount(q) \/ ScanNothing(q) \/ ScanMemtable(q)
  BY <1>3, AnswersServe DEF MemoryScan, MemoryCount, ScanNothing, ScanMemtable, Begin, Answer
<1>4. CASE TakeSnapshot
  BY <1>4, AnswersServe DEF TakeSnapshot, Begin, Answer
<1>5. CASE Return
  BY <1>5, AnswersServe DEF Return
<1> QED
  BY <1>1, <1>2, <1>3, <1>4, <1>5

(* A table has a first block for a cursor to begin with. *)
LEMMA CursorPlaced ==
    ASSUME NEW q, NEW l
    PROVE  "next" \in DOMAIN NewCursor(q, l) /\ NewCursor(q, l).next \in Nat \ {0}
<1>1. PICK D : D = DOMAIN Units(l)
  OBVIOUS
<1>2. IsFiniteSet(D)
  <2>1. CASE l.legacy
    <3>1. D = DOMAIN Sorted(Present(l.entries))
      BY <1>1, <2>1 DEF Units
    <3>2. PICK n : n = Cardinality(Present(l.entries))
      OBVIOUS
    <3>3. n \in Nat /\ D = 1..n
      BY <3>1, <3>2, SortedKeys
    <3> QED
      BY <3>3, FS_Interval
  <2>2. CASE ~l.legacy
    <3>1. D = DOMAIN Blocks(l)
      BY <1>1, <2>2 DEF Units
    <3>2. PICK n : n = Len(Blocks(l))
      OBVIOUS
    <3>3. n \in Nat /\ D = 1..n
      BY <3>1, <3>2, BlockShape
    <3> QED
      BY <3>3, FS_Interval
  <2> QED
    BY <2>1, <2>2
<1>3. PICK A : A = {u \in D : Last(Units(l)[u]) < Lower(q)}
  OBVIOUS
<1>4. A \in SUBSET D
  BY <1>3
<1>5. IsFiniteSet(A)
  BY <1>2, <1>4, FS_Subset
<1>6. Cardinality(A) \in Nat
  BY <1>5, FS_CardinalityType
<1>7. NewCursor(q, l).next = Cardinality(A) + 1 /\ "next" \in DOMAIN NewCursor(q, l)
  BY <1>1, <1>3 DEF NewCursor
<1> QED
  BY <1>6, <1>7

(* A page starts with a cursor for each table it captured. *)
LEMMA PageServes ==
    ASSUME Serving, Overtaken, NEW q, StartPage(q),
           UNCHANGED <<ram, state, pending, layers, sequence, cache>>
    PROVE  Serving'
<1>1. snap'.layers = <<>> \/ snap'.layers = layers
  BY PageCaptured DEF StartPage
<1>2. PICK ls : ls = snap'.layers
  OBVIOUS
<1>3. cursors' = [i \in DOMAIN ls |-> NewCursor(q, ls[i])]
  BY <1>2 DEF StartPage
<1>4. \A i \in DOMAIN cursors' : /\ i \in DOMAIN snap'.layers
                                 /\ "next" \in DOMAIN cursors'[i] /\ cursors'[i].next \in Nat \ {0}
  BY <1>2, <1>3, CursorPlaced
<1>5. CursorsPlaced'
  BY <1>4 DEF CursorsPlaced
<1> QED
  BY <1>1, <1>5, QuietStep

(* The other beginnings. *)
LEMMA BeginningsServe ==
    ASSUME Serving, Overtaken,
           \/ \E ks : BeginLookup(ks)
           \/ \E q : BeginFirst(q) \/ BeginPage(q) \/ BeginCount(q) \/ BeginFull(q)
    PROVE  Serving'
<1>1. UNCHANGED <<ram, state, pending, layers, sequence, cache>>
  BY DEF BeginLookup, BeginFirst, BeginPage, BeginCount, BeginFull, Begin, inner
<1>2. CASE \E q : BeginPage(q) \/ BeginCount(q)
  <2>1. PICK q : StartPage(q)
    BY <1>2 DEF BeginPage, BeginCount
  <2> QED
    BY <1>1, <2>1, PageServes
<1>3. CASE \/ \E ks : BeginLookup(ks)
           \/ \E q : BeginFirst(q) \/ BeginFull(q)
  <2>1. snap'.layers = <<>> \/ snap'.layers = layers
    BY <1>3, NoSnapFacts DEF BeginLookup, BeginFirst, BeginFull, NoSnap
  <2>2. pc' # "merge"
    BY <1>3 DEF BeginLookup, BeginFirst, BeginFull
  <2>3. CursorsPlaced'
    BY <2>2 DEF CursorsPlaced
  <2> QED
    BY <1>1, <2>1, <2>3, QuietStep
<1> QED
  BY <1>2, <1>3

(* The steps of a read that take the lock again or work on what they have. *)
LEMMA OtherStepsServe ==
    ASSUME Serving, Overtaken, FirstCapture \/ FirstCheck \/ Refill \/ MergeKey \/ Validate
    PROVE  Serving'
<1>1. UNCHANGED <<ram, state, pending, layers, sequence, cache>>
  BY DEF FirstCapture, FirstCheck, Refill, MergeKey, Validate, Reading, inner
<1>2. DOMAIN snap = SnapFields
  BY DEF Overtaken, Counts
<1>3. CASE FirstCapture \/ FirstCheck
  <2>1. snap'.layers = <<>> \/ snap'.layers = layers \/ snap'.layers = snap.layers
    BY <1>3, NoSnapFacts DEF FirstCapture, FirstCheck, NoSnap
  <2>2. pc' # "merge"
    BY <1>3 DEF FirstCapture, FirstCheck
  <2>3. CursorsPlaced'
    BY <2>2 DEF CursorsPlaced
  <2> QED
    BY <1>1, <2>1, <2>3, QuietStep
<1>4. CASE Refill
  <2>1. snap'.layers = snap.layers /\ cursors' = cursors /\ pc = "merge"
    BY <1>2, <1>4 DEF Refill, SnapFields, Merging
  <2>2. CursorsPlaced'
    BY <2>1 DEF Serving, CursorsPlaced
  <2> QED
    BY <1>1, <2>1, <2>2, QuietStep
<1>5. CASE MergeKey
  <2>1. pc = "merge"
    BY <1>5 DEF MergeKey, Merging
  <2>2. snap'.layers = snap.layers
    BY <1>2, <1>5 DEF MergeKey, SnapFields
  <2>3. \/ cursors' = cursors
        \/ \E k : cursors' = [i \in DOMAIN cursors |-> [cursors[i] EXCEPT !.records = Past(@, k)]]
    BY <1>5 DEF MergeKey
  <2>4. ASSUME NEW k,
               cursors' = [i \in DOMAIN cursors |-> [cursors[i] EXCEPT !.records = Past(@, k)]]
        PROVE  CursorsPlaced'
    <3>1. ASSUME NEW i \in DOMAIN cursors'
          PROVE  /\ i \in DOMAIN snap'.layers
                 /\ "next" \in DOMAIN cursors'[i] /\ cursors'[i].next \in Nat \ {0}
      <4>1. i \in DOMAIN cursors
        BY <2>4
      <4>2. i \in DOMAIN snap.layers /\ "next" \in DOMAIN cursors[i] /\ cursors[i].next \in Nat \ {0}
        BY <2>1, <4>1 DEF Serving, CursorsPlaced
      <4>3. DOMAIN cursors'[i] = DOMAIN cursors[i] /\ cursors'[i].next = cursors[i].next
        BY <2>4, <4>1, <4>2
      <4> QED
        BY <2>2, <4>2, <4>3
    <3> QED
      BY <3>1 DEF CursorsPlaced
  <2>5. CursorsPlaced'
    BY <2>1, <2>2, <2>3, <2>4 DEF Serving, CursorsPlaced
  <2> QED
    BY <1>1, <2>2, <2>5, QuietStep
<1>6. CASE Validate
  <2>1. CASE StartPage(query)
    BY <1>1, <2>1, PageServes
  <2>2. CASE Nothing /\ pc' # "merge"
    <3>1. UNCHANGED inner /\ UNCHANGED cache
      BY <1>6 DEF Validate, Reading
    <3> QED
      BY <2>2, <3>1, AnswersServe
  <2> QED
    BY <1>6, <2>1, <2>2 DEF Validate, Fail
<1> QED
  BY <1>3, <1>4, <1>5, <1>6

(* One layer is asked for one key. *)
LEMMA LookupServes == ASSUME Serving, Overtaken, LookupLayer PROVE Serving'
<1>1. UNCHANGED <<ram, state, pending, layers, sequence>> /\ pc' # "merge"
  BY DEF LookupLayer, Reading, inner, Fail
<1>2. PICK l : l = snap.layers[Len(snap.layers) - skipped]
  OBVIOUS
<1>3. PICK k : k = query.keys[Head(open)]
  OBVIOUS
<1>4. l \in Tables
  <2>1. skipped \in Nat /\ skipped < Len(snap.layers) /\ IsSeq(snap.layers)
    BY DEF LookupLayer, Overtaken, Counts, Positions
  <2>2. Len(snap.layers) \in Nat /\ DOMAIN snap.layers = 1..Len(snap.layers)
    BY <2>1, SeqOfElements
  <2>3. Len(snap.layers) - skipped \in DOMAIN snap.layers
    BY <2>1, <2>2
  <2> QED
    BY <1>2, <2>3 DEF Tables
<1>5. cache' = cache \/ cache' = CacheAfterEntry(cache, l, k)
  BY <1>2, <1>3 DEF LookupLayer
<1>6. snap'.layers = snap.layers \/ snap'.layers = <<>>
  BY NoSnapFacts DEF LookupLayer, Fail, Nothing
<1>7. CacheOK(cache) /\ Backed(cache)
  BY DEF Serving, Backed
<1>8. CacheOK(cache') /\ Backed(cache')
  BY <1>4, <1>5, <1>7, EntryRead
<1>9. CursorsPlaced'
  BY <1>1 DEF CursorsPlaced
<1> QED
  BY <1>1, <1>6, <1>8, <1>9, ReadKeeps

(* A key that only tables have is held by a captured table. *)
LEMMA HolderCaptured ==
    ASSUME Overtaken, NEW a, NEW k \in Candidates(a), OnlyTabled(k)
    PROVE  Holder(k) \in Tables
<1>1. PICK T : T = {i \in DOMAIN snap.layers : snap.layers[i].entries[k] # Absent}
  OBVIOUS
<1>2. T # {}
  <2>1. k \in Present(snap.maps[1]) \cup Present(snap.maps[2])
               \cup UNION {Present(snap.layers[i].entries) : i \in DOMAIN snap.layers}
    BY DEF Candidates, Beyond
  <2>2. k \notin Present(snap.maps[1]) /\ k \notin Present(snap.maps[2])
    BY DEF OnlyTabled, Present
  <2>3. PICK i \in DOMAIN snap.layers : k \in Present(snap.layers[i].entries)
    BY <2>1, <2>2
  <2> QED
    BY <1>1, <2>3 DEF Present
<1>3. PICK n \in Nat : DOMAIN snap.layers = 1..n
  BY DEF Overtaken, Counts, IsSeq
<1>4. T \in SUBSET (1..n) /\ \A i \in T : i \in Nat
  BY <1>1, <1>3
<1>5. IsFiniteSet(1..n)
  BY <1>3, FS_Interval
<1>6. IsFiniteSet(T)
  BY <1>4, <1>5, FS_Subset
<1>7. Max(T) \in T
  BY <1>2, <1>4, <1>6, GreatestNumber
<1>8. Holder(k) = snap.layers[Max(T)]
  BY <1>1 DEF Holder
<1> QED
  BY <1>1, <1>7, <1>8 DEF Tables

(* The first entry is read from its block. *)
LEMMA PickServes == ASSUME Serving, Overtaken, FirstPick PROVE Serving'
<1>1. UNCHANGED <<ram, state, pending, layers, sequence>> /\ pc' # "merge"
  BY DEF FirstPick, Reading, inner, Fail
<1>2. snap'.layers = snap.layers \/ snap'.layers = <<>>
  BY NoSnapFacts DEF FirstPick, Fail, Nothing
<1>3. CacheOK(cache) /\ Backed(cache)
  BY DEF Serving, Backed
<1>4. \/ cache' = cache
      \/ \E k \in Candidates(after) : OnlyTabled(k) /\ cache' = CacheAfterEntry(cache, Holder(k), k)
  BY DEF FirstPick
<1>5. CacheOK(cache') /\ Backed(cache')
  <2>1. CASE cache' = cache
    BY <1>3, <2>1
  <2>2. ASSUME NEW k \in Candidates(after), OnlyTabled(k),
               cache' = CacheAfterEntry(cache, Holder(k), k)
        PROVE  CacheOK(cache') /\ Backed(cache')
    <3>1. Holder(k) \in Tables
      BY <2>2, HolderCaptured
    <3> QED
      BY <1>3, <2>2, <3>1, EntryRead
  <2> QED
    BY <1>4, <2>1, <2>2
<1>6. CursorsPlaced'
  BY <1>1 DEF CursorsPlaced
<1> QED
  BY <1>1, <1>2, <1>5, <1>6, ReadKeeps

(* f is the cache after the keys of the sets in D were read in their order. *)
ReadsOn(f, D) ==
    f = [T \in D |-> IF T = {} THEN cache
                    ELSE CacheAfterEntry(f[T \ {Max(T)}], Holder(Max(T)), Max(T))]

(* Reading a set of keys is well defined. *)
LEMMA ReadsExist ==
    ASSUME NEW S \in SUBSET Keys
    PROVE  \E f : ReadsOn(f, SUBSET S)
<1>a. IsFiniteSet(S) /\ \A k \in S : k \in Nat
  BY KeysAssumption, FS_Subset
<1>0. \A T \in SUBSET S : IsFiniteSet(T) /\ Cardinality(T) \in Nat
  BY <1>a, FS_Subset, FS_CardinalityType
<1>b. \A T \in SUBSET S : T # {} => Max(T) \in T
  <2>1. \A T \in SUBSET S : IsFiniteSet(T) /\ \A k \in T : k \in Nat
    BY <1>a, <1>0
  <2> QED
    BY <2>1, GreatestNumber
<1>1. PICK X : X = {n \in Nat : ~ \E f : ReadsOn(f, Upto(S, n))}
  OBVIOUS
<1>2. X = {}
  <2>1. SUFFICES ASSUME X # {} PROVE FALSE
    OBVIOUS
  <2>2. X \in SUBSET Nat
    BY <1>1
  <2>3. PICK n \in X : \A m \in X : n <= m
    BY <2>1, <2>2, LeastNumber
  <2>4. n \in Nat /\ ~ \E f : ReadsOn(f, Upto(S, n))
    BY <1>1
  <2>5. CASE n = 0
    <3>1. \A s \in Upto(S, 0) : s = {}
      <4>1. \A T \in SUBSET S : Cardinality(T) <= 0 => Cardinality(T) = 0
        BY <1>0
      <4> QED
        BY <4>1, <1>0, FS_EmptySet DEF Upto
    <3>2. PICK f : f = [s \in Upto(S, 0) |-> cache]
      OBVIOUS
    <3>3. ReadsOn(f, Upto(S, 0))
      BY <3>1, <3>2 DEF ReadsOn
    <3> QED
      BY <2>4, <2>5, <3>3
  <2>6. CASE n > 0
    <3>1. n - 1 \in Nat /\ n - 1 \notin X
      BY <2>3, <2>4, <2>6
    <3>2. PICK f : ReadsOn(f, Upto(S, n - 1))
      BY <1>1, <3>1
    <3>3. PICK h : h = [T \in Upto(S, n) |->
                          IF T = {} THEN cache
                          ELSE CacheAfterEntry(f[T \ {Max(T)}], Holder(Max(T)), Max(T))]
      OBVIOUS
    <3>4. \A T \in Upto(S, n - 1) : h[T] = f[T]
      <4>1. \A T \in Upto(S, n - 1) : T \in Upto(S, n)
        BY <1>0, <2>4 DEF Upto
      <4>2. \A T \in Upto(S, n - 1) :
               f[T] = IF T = {} THEN cache
                      ELSE CacheAfterEntry(f[T \ {Max(T)}], Holder(Max(T)), Max(T))
        BY <3>2 DEF ReadsOn
      <4> QED
        BY <4>1, <4>2, <3>3
    <3>5. ASSUME NEW T \in Upto(S, n), T # {} PROVE T \ {Max(T)} \in Upto(S, n - 1)
      <4>1. T \in SUBSET S /\ Cardinality(T) <= n
        BY DEF Upto
      <4>2. Max(T) \in T /\ IsFiniteSet(T) /\ Cardinality(T) \in Nat
        BY <1>0, <1>b, <3>5, <4>1
      <4>3. Cardinality(T \ {Max(T)}) = Cardinality(T) - 1
        BY <4>2, FS_RemoveElement
      <4> QED
        BY <2>4, <4>1, <4>2, <4>3 DEF Upto
    <3>6. h = [T \in Upto(S, n) |->
                 IF T = {} THEN cache
                 ELSE CacheAfterEntry(h[T \ {Max(T)}], Holder(Max(T)), Max(T))]
      BY <3>3, <3>4, <3>5
    <3>7. ReadsOn(h, Upto(S, n))
      BY <3>6 DEF ReadsOn
    <3> QED
      BY <2>4, <3>7
  <2> QED
    BY <2>4, <2>5, <2>6
<1>3. Upto(S, Cardinality(S)) = SUBSET S
  BY <1>a, <1>0, FS_Subset DEF Upto
<1>4. Cardinality(S) \in Nat
  BY <1>a, FS_CardinalityType
<1>5. \E f : ReadsOn(f, Upto(S, Cardinality(S)))
  BY <1>1, <1>2, <1>4
<1> QED
  BY <1>3, <1>5

(* After any number of keys of captured tables the cache is in order. *)
LEMMA ReadingServes ==
    ASSUME Serving, NEW S \in SUBSET Keys, \A k \in S : Holder(k) \in Tables
    PROVE  CacheOK(CacheAfterReading(S)) /\ Backed(CacheAfterReading(S))
<1>1. PICK f : f = CHOOSE h : ReadsOn(h, SUBSET S)
  OBVIOUS
<1>2. ReadsOn(f, SUBSET S)
  BY <1>1, ReadsExist
<1>3. CacheAfterReading(S) = f[S]
  BY <1>1 DEF CacheAfterReading, ReadsOn
<1>a. IsFiniteSet(S) /\ \A k \in S : k \in Nat
  BY KeysAssumption, FS_Subset
<1>4. PICK X : X = {T \in SUBSET S : ~(CacheOK(f[T]) /\ Backed(f[T]))}
  OBVIOUS
<1>5. SUFFICES ASSUME X # {} PROVE FALSE
  BY <1>3, <1>4
<1>6. X \in SUBSET (SUBSET S)
  BY <1>4
<1>7. PICK A \in X : \A B \in X : B \subseteq A => B = A
  BY <1>a, <1>5, <1>6, MinimalSet
<1>8. A \in SUBSET S /\ ~(CacheOK(f[A]) /\ Backed(f[A]))
  BY <1>4
<1>9. f[A] = IF A = {} THEN cache
             ELSE CacheAfterEntry(f[A \ {Max(A)}], Holder(Max(A)), Max(A))
  BY <1>2, <1>8 DEF ReadsOn
<1>10. CacheOK(cache) /\ Backed(cache)
  BY DEF Serving, Backed
<1>11. A # {}
  BY <1>8, <1>9, <1>10
<1>12. Max(A) \in A
  <2>1. IsFiniteSet(A) /\ \A k \in A : k \in Nat
    BY <1>a, <1>8, FS_Subset
  <2> QED
    BY <1>11, <2>1, GreatestNumber
<1>13. A \ {Max(A)} \notin X /\ A \ {Max(A)} \in SUBSET S
  BY <1>7, <1>8, <1>12
<1>14. PICK d : d = f[A \ {Max(A)}]
  OBVIOUS
<1>15. CacheOK(d) /\ Backed(d)
  BY <1>4, <1>13, <1>14
<1>16. Holder(Max(A)) \in Tables
  BY <1>8, <1>12
<1>17. CacheOK(CacheAfterEntry(d, Holder(Max(A)), Max(A)))
       /\ Backed(CacheAfterEntry(d, Holder(Max(A)), Max(A)))
  BY <1>15, <1>16, EntryRead
<1> QED
  BY <1>8, <1>9, <1>11, <1>14, <1>17

(* A full scan reads the entries that only tables have. *)
LEMMA FullServes == ASSUME Serving, Overtaken, FullScan PROVE Serving'
<1>1. UNCHANGED <<ram, state, pending, layers, sequence>> /\ pc' # "merge" /\ Nothing
  BY DEF FullScan, Reading, inner, Fail, Answer
<1>2. snap'.layers = <<>>
  BY <1>1, NoSnapFacts DEF Nothing
<1>3. CursorsPlaced'
  BY <1>1 DEF CursorsPlaced
<1>4. \/ cache' = cache
      \/ \E last : cache' = CacheAfterReading({k \in Candidates(ScanAfter) :
                                                  k <= last /\ OnlyTabled(k)})
  BY DEF FullScan
<1>5. CASE cache' = cache
  <2>1. CacheOK(cache') /\ Backed(cache')
    BY <1>5, CacheKept
  <2> QED
    BY <1>1, <1>2, <1>3, <2>1, ReadKeeps
<1>6. ASSUME NEW last,
             cache' = CacheAfterReading({k \in Candidates(ScanAfter) : k <= last /\ OnlyTabled(k)})
      PROVE  Serving'
  <2>1. PICK S : S = {k \in Candidates(ScanAfter) : k <= last /\ OnlyTabled(k)}
    OBVIOUS
  <2>2. Candidates(ScanAfter) \subseteq Keys
    BY DEF Candidates, Beyond, Present
  <2>3. S \in SUBSET Keys
    BY <2>1, <2>2
  <2>4. \A k \in S : Holder(k) \in Tables
    BY <2>1, HolderCaptured
  <2>5. CacheOK(CacheAfterReading(S)) /\ Backed(CacheAfterReading(S))
    BY <2>3, <2>4, ReadingServes
  <2>6. CacheOK(cache') /\ Backed(cache')
    BY <1>6, <2>1, <2>5
  <2> QED
    BY <1>1, <1>2, <1>3, <2>6, ReadKeeps
<1> QED
  BY <1>4, <1>5, <1>6

(* A cursor loads its next block. *)
LEMMA LoadServes == ASSUME Serving, Overtaken, LoadBlock PROVE Serving'
<1>1. UNCHANGED <<ram, state, pending, layers, sequence>> /\ UNCHANGED <<snap, pc>> /\ pc = "merge"
  BY DEF LoadBlock, Reading, inner, Merging
<1>2. PICK i \in DOMAIN cursors :
        LET l == snap.layers[i]
            us == Units(l)
            b == cursors[i].next
            past == b > Len(us) \/ (b <= Len(us) /\ Head(us[b]) >= Upper(query))
        IN  /\ \E r : cursors' = [cursors EXCEPT ![i] =
                          IF past THEN [@ EXCEPT !.done = TRUE]
                          ELSE [@ EXCEPT !.next = b + 1, !.records = r]]
            /\ cache' = IF past \/ l.legacy THEN cache ELSE CacheRecordsOf(cache, l, b, WithValues)
  BY DEF LoadBlock
<1>3. PICK l : l = snap.layers[i]
  OBVIOUS
<1>4. PICK b : b = cursors[i].next
  OBVIOUS
<1>5. i \in DOMAIN snap.layers /\ "next" \in DOMAIN cursors[i] /\ b \in Nat \ {0}
  BY <1>1, <1>4 DEF Serving, CursorsPlaced
<1>6. l \in Tables
  BY <1>3, <1>5 DEF Tables
<1>7. \/ cache' = cache
      \/ ~l.legacy /\ ~(b > Len(Units(l))) /\ cache' = CacheRecordsOf(cache, l, b, WithValues)
  BY <1>2, <1>3, <1>4
<1>8. CacheOK(cache') /\ Backed(cache')
  <2>1. CASE cache' = cache
    BY <2>1, CacheKept
  <2>2. CASE ~l.legacy /\ ~(b > Len(Units(l))) /\ cache' = CacheRecordsOf(cache, l, b, WithValues)
    <3>1. Units(l) = Blocks(l)
      BY <2>2 DEF Units
    <3>2. DOMAIN Blocks(l) = 1..Len(Blocks(l)) /\ Len(Blocks(l)) \in Nat
      BY BlockShape
    <3>3. b \in DOMAIN Blocks(l)
      BY <1>5, <2>2, <3>1, <3>2
    <3>4. Len(OnDisk(l, b)) \in Nat
      BY <3>3, BlockShape
    <3>5. CacheOK(cache) /\ Backed(cache)
      BY DEF Serving, Backed
    <3>6. PICK e : e = CacheRecordsOf(cache, l, b, WithValues)
      OBVIOUS
    <3>7. CacheOK(e) /\ ServedFrom(e, cache, BlockKey(l, b), OnDisk(l, b))
      BY <3>4, <3>5, <3>6, RecordsOK
    <3>8. Backed(e)
      BY <1>6, <3>5, <3>7, ServedBacked
    <3> QED
      BY <2>2, <3>6, <3>7, <3>8
  <2> QED
    BY <1>7, <2>1, <2>2
<1>9. \/ cursors' = [cursors EXCEPT ![i] = [@ EXCEPT !.done = TRUE]]
      \/ \E r : cursors' = [cursors EXCEPT ![i] = [@ EXCEPT !.next = b + 1, !.records = r]]
  BY <1>2, <1>4
<1>10. DOMAIN cursors' = DOMAIN cursors /\ \A j \in DOMAIN cursors : j # i => cursors'[j] = cursors[j]
  BY <1>9
<1>11. "next" \in DOMAIN cursors'[i] /\ cursors'[i].next \in Nat \ {0}
  <2>1. CASE cursors' = [cursors EXCEPT ![i] = [@ EXCEPT !.done = TRUE]]
    <3>1. cursors'[i] = [cursors[i] EXCEPT !.done = TRUE]
      BY <2>1
    <3>2. cursors'[i].next = cursors[i].next /\ DOMAIN cursors'[i] = DOMAIN cursors[i]
      BY <1>5, <3>1
    <3> QED
      BY <1>4, <1>5, <3>2
  <2>2. ASSUME NEW r, cursors' = [cursors EXCEPT ![i] = [@ EXCEPT !.next = b + 1, !.records = r]]
        PROVE  "next" \in DOMAIN cursors'[i] /\ cursors'[i].next \in Nat \ {0}
    <3>1. cursors'[i] = [cursors[i] EXCEPT !.next = b + 1, !.records = r]
      BY <2>2
    <3>2. cursors'[i].next = b + 1 /\ DOMAIN cursors'[i] = DOMAIN cursors[i]
      BY <1>5, <3>1
    <3> QED
      BY <1>5, <3>2
  <2> QED
    BY <1>9, <2>1, <2>2
<1>12. CursorsPlaced'
  BY <1>1, <1>5, <1>10, <1>11 DEF Serving, CursorsPlaced
<1> QED
  BY <1>1, <1>8, <1>12, ReadKeeps

(* Every step keeps the cache true to the tables. *)
LEMMA NextServes == ASSUME Serving, Overtaken, [Next]_vars PROVE Serving'
<1>1. CASE UNCHANGED vars
  <2>1. UNCHANGED <<ram, state, pending, layers, sequence, cache, snap, cursors, pc>>
    BY <1>1 DEF vars, inner, reader
  <2>2. CursorsPlaced'
    BY <2>1 DEF Serving, CursorsPlaced
  <2> QED
    BY <2>1, <2>2, QuietStep
<1>2. CASE (\E b \in Batches : Commit(b) \/ CommitMemory(b)) \/ Flush \/ Compact
  BY <1>2, ChangesServe
<1>3. ASSUME NEW k \in Space, Get(k) \/ GetShared(k) PROVE Serving'
  BY <1>3, LockedServe, BeginningsServe DEF Get
<1>4. ASSUME NEW ks, GetMany(ks) PROVE Serving'
  BY <1>4, LockedServe, BeginningsServe DEF GetMany
<1>5. ASSUME NEW q \in Queries,
             MemoryScan(q) \/ MemoryCount(q) \/ ScanNothing(q) \/ ScanMemtable(q)
      PROVE  Serving'
  BY <1>5, LockedServe
<1>6. ASSUME NEW q \in Queries, BeginFirst(q) \/ BeginPage(q) \/ BeginCount(q) \/ BeginFull(q)
      PROVE  Serving'
  BY <1>6, BeginningsServe
<1>7. CASE TakeSnapshot
  BY <1>7, LockedServe
<1>8. CASE ReadStep
  BY <1>8, LockedServe, LookupServes, OtherStepsServe, PickServes, LoadServes, FullServes DEF ReadStep
<1> QED
  BY <1>1, <1>2, <1>3, <1>4, <1>5, <1>6, <1>7, <1>8 DEF Next

(* The invariant of the block cache. *)
THEOREM CacheServes == Spec => []Serving
<1>1. Init => Serving
  BY InitServes
<1>2. Overtaken /\ Serving /\ [Next]_vars => Serving'
  BY NextServes
<1> QED
  BY <1>1, <1>2, ReadsControlled, PTL DEF Spec

(* The entries, the recency order and the resident bytes of TableBlockCache *)
(* agree, its bound holds, and a cached block is what the table in use      *)
(* under its path holds, for any number of commits, flushes, compactions,   *)
(* reads and evictions, although a compaction may write the path of an      *)
(* earlier one again (insert, insert_records, compact_tables_locked).       *)
THEOREM BlockCacheTrue == Spec => []BlockCacheAgrees
<1>1. ASSUME Serving PROVE BlockCacheAgrees
  <2>1. /\ DOMAIN cache.lru = {cache.entries[k].access : k \in DOMAIN cache.entries}
        /\ \A k \in DOMAIN cache.entries : cache.lru[cache.entries[k].access] = k
        /\ cache.resident = TotalBytes(cache.entries, DOMAIN cache.entries)
        /\ cache.resident <= CacheBytes
    BY <1>1 DEF Serving, CacheOK, Ordered
  <2>2. \A i \in DOMAIN layers, b \in DOMAIN cache.entries :
           b[1] = layers[i].path => cache.entries[b].content = OnDisk(layers[i], b[2])
    BY <1>1 DEF Serving, BlocksTrue, Tables
  <2> QED
    BY <2>1, <2>2 DEF BlockCacheAgrees
<1> QED
  BY <1>1, CacheServes, PTL
==============================================================================
