----------------------------- MODULE TableReads -----------------------------
(***************************************************************************)
(* How ThingDB reads (crates/thingdb/src/lib.rs): point and multi-key      *)
(* lookups, pages, counts, first entries, full scans and snapshots, over   *)
(* the mutable maps and the immutable table files, while commits, flushes  *)
(* and compactions go on.                                                  *)
(*                                                                         *)
(* A durable read takes the `inner` lock only to capture what it needs and *)
(* to check state_generation afterwards; everything between is done        *)
(* without it, from cloned table layers whose indexes are loaded on first  *)
(* use and whose blocks go through the shared block cache.  An action is   *)
(* what one read does between two points at which it holds no lock.  A RAM *)
(* database answers under one read lock.                                   *)
(*                                                                         *)
(* Keys are physical keys, ordered as numbers; Space is the run of keys    *)
(* with the namespace of the keyspace that is read.  A prefix is the run   *)
(* of keys <<lo, hi>> that carry it, lo included.  A map is a function on  *)
(* Keys, Absent where it has no entry and Tombstone where a table or the   *)
(* pending table holds None.                                               *)
(***************************************************************************)
EXTENDS Integers, Sequences, FiniteSets, FiniteSetsExt, SequencesExt

CONSTANTS
    Keys, Space, Values, Absent, Tombstone,
    None,          \* Option::None
    Batches,       \* the batches writers commit
    FirstLayers,   \* the tables found when the database was opened
    Queries,       \* bounds, offset and limit of the scans
    Lookups,       \* the key lists of the lookups
    ChunkSize,     \* DURABLE_SCAN_MEMTABLE_CHUNK_SIZE
    BlockRecords,  \* records that fit TABLE_WRITE_BUFFER_BYTES
    CacheBytes,    \* TABLE_BLOCK_CACHE_BYTES, in records
    PageLimit,     \* 4_096: the longest page that is scanned in chunks
    PageReach,     \* 16_384: the farthest such a page may end
    Examined,      \* keys a memtable page may look at
    ScanAttempts,  \* 4: how often a page scan is tried
    FirstRetries,  \* 8: how often a first-entry scan is repeated
    MaxChanges,    \* bound on the commits, flushes and compactions
    MaxReads       \* bound on the reads

Slot == Values \cup {Absent, Tombstone}
Map == [Keys -> Slot]
EmptyMap == [k \in Keys |-> Absent]
After(q) == IF q.start = None \/ q.start.inclusive THEN None ELSE q.start.key

ASSUME KeysAssumption == Keys \subseteq Nat /\ IsFiniteSet(Keys) /\ Space \subseteq Keys
ASSUME TablesAssumption ==
    Batches \subseteq Map /\ FirstLayers \subseteq Seq([entries : Map, legacy : BOOLEAN])
ASSUME BoundsAssumption ==
    /\ {ChunkSize, BlockRecords, PageLimit, PageReach, ScanAttempts, FirstRetries} \subseteq Nat \ {0}
    /\ {CacheBytes, Examined, MaxChanges, MaxReads} \subseteq Nat

VARIABLES
    ram,         \* RAM-only mode
    state, pending, layers, generation,  \* struct Inner
    sequence,    \* Inner::sequence
    files,       \* table files on disk: path -> entries
    loaded,      \* layers whose index OnceLock is set, by id
    cache,       \* TableBlockCache
    op, query, pc,       \* the read in progress
    snap,        \* what it captured under the lock
    cursors,     \* its table cursors
    open,        \* the positions a lookup has not resolved yet
    out,         \* what it has found
    skipped, attempt, after,
    seen,        \* history: what was visible since the read began
    changes, reads, began  \* history: counts, and the changes when the read began

inner == <<ram, state, pending, layers, generation, sequence, files>>
reader == <<op, query, pc, snap, cursors, open, out, skipped, attempt, after>>
vars == <<inner, loaded, cache, reader, seen, changes, reads, began>>

-----------------------------------------------------------------------------
(* Maps, tables and blocks *)

Strip(slot) == IF slot = Tombstone THEN Absent ELSE slot
(* The members of S, a set of numbers, in ascending order. *)
Sorted(S) == [i \in 1..Cardinality(S) |->
                 CHOOSE k \in S : Cardinality({j \in S : j < k}) = i - 1]
Present(m) == {k \in Keys : m[k] # Absent}

(* get_scan_value_snapshot: pending table, mutable state, newest layer. *)
Resolve(k, p, s, ls) ==
    LET T == {i \in DOMAIN ls : ls[i].entries[k] # Absent}
    IN  IF p[k] # Absent THEN Strip(p[k])
        ELSE IF s[k] # Absent THEN s[k]
        ELSE IF T = {} THEN Absent ELSE Strip(ls[Max(T)].entries[k])

(* What a reader should see. *)
View == [k \in Keys |-> Resolve(k, pending, state, layers)]

(* materialize_state: the layers in order, then state, then pending_table. *)
Materialize ==
    LET Over(m, e) == [k \in Keys |-> IF e[k] = Absent THEN m[k] ELSE Strip(e[k])]
        tabled[i \in 0..Len(layers)] ==
            IF i = 0 THEN EmptyMap ELSE Over(tabled[i - 1], layers[i].entries)
    IN  Over(Over(tabled[Len(layers)], state), pending)

(* write_table: the records in key order, cut into blocks when the buffer   *)
(* is full.  A table of an older format has no blocks.                      *)
Blocks(l) ==
    LET ks == Sorted(Present(l.entries))
        n == (Len(ks) + BlockRecords - 1) \div BlockRecords
        Cut(i) == SubSeq(ks, (i - 1) * BlockRecords + 1,
                         IF i * BlockRecords < Len(ks) THEN i * BlockRecords ELSE Len(ks))
    IN  IF l.legacy THEN <<>> ELSE [i \in 1..n |-> Cut(i)]

(* candidate_block: the first block that does not end before k, if it does  *)
(* not begin after k.                                                       *)
CandidateBlock(l, k) ==
    LET bs == Blocks(l)
        R == {i \in DOMAIN bs : Last(bs[i]) >= k}
    IN  {i \in R : i = Min(R) /\ Head(bs[i]) <= k}

(* candidate_entry_range and the binary search in it. *)
Indexed(l, k) ==
    IF l.legacy THEN l.entries[k] # Absent
    ELSE \E i \in CandidateBlock(l, k) : k \in ToSet(Blocks(l)[i])

(* read_table_index needs the file, unless the index is there already. *)
Loadable(l, there) == l.id \in there \/ l.path \in DOMAIN files

(* read_table_metadata keeps the index of a table without blocks only. *)
IndexKept(l) == Blocks(l) = <<>>

-----------------------------------------------------------------------------
(* TableBlockCache *)

EmptyCache == [entries |-> [k \in {} |-> 0], lru |-> [a \in {} |-> 0],
               resident |-> 0, clock |-> 0]
RawBytes(content) == Len(content)
DecodedBytes(content) == 2 * Len(content)
EntryBytes(e) == RawBytes(e.content) + e.decoded
TotalBytes(entries, S) == MapThenSumSet(LAMBDA k : EntryBytes(entries[k]), S)

Drop(f, S) == [x \in DOMAIN f \ S |-> f[x]]
With(f, x, v) == [y \in DOMAIN f \cup {x} |-> IF y = x THEN v ELSE f[y]]

(* The least recently used blocks, but for those spared, that have to go so *)
(* that `need` more bytes fit.                                              *)
Victims(c, need, spared) ==
    LET stamps == {a \in DOMAIN c.lru : c.lru[a] \notin spared}
        Oldest(n) == {c.lru[a] : a \in {b \in stamps : Cardinality({o \in stamps : o < b}) < n}}
        Enough == {n \in 0..Cardinality(stamps) :
                      c.resident - TotalBytes(c.entries, Oldest(n)) + need <= CacheBytes}
    IN  Oldest(IF Enough = {} THEN Cardinality(stamps) ELSE Min(Enough))

Evict(c, S) ==
    [c EXCEPT !.entries = Drop(@, S),
              !.lru = Drop(@, {c.entries[k].access : k \in S}),
              !.resident = @ - TotalBytes(c.entries, S)]

MutTouch(c, k) ==
    [c EXCEPT !.clock = @ + 1,
              !.entries[k].access = c.clock + 1,
              !.lru = With(@, c.clock + 1, k)]
(* get and get_records move the block to the recent end. *)
Touch(c, k) ==
    [c EXCEPT !.clock = @ + 1,
              !.entries[k].access = c.clock + 1,
              !.lru = With(Drop(@, {c.entries[k].access}), c.clock + 1, k)]

(* insert: an older copy goes first, then the least recently used. *)
Insert(c, k, content) ==
    LET without == IF k \in DOMAIN c.entries THEN Evict(c, {k}) ELSE c
        room == Evict(without, Victims(without, RawBytes(content), {}))
    IN  IF RawBytes(content) > CacheBytes THEN c
        ELSE [room EXCEPT !.clock = @ + 1,
                 !.resident = @ + RawBytes(content),
                 !.entries = With(@, k, [content |-> content, decoded |-> 0,
                                         access |-> c.clock + 1]),
                 !.lru = With(@, c.clock + 1, k)]

(* insert_records: decoded records join the bytes of their block, once. *)
InsertRecords(c, k, content) ==
    LET fits == DecodedBytes(content) + RawBytes(content) <= CacheBytes
        room == Evict(c, Victims(c, DecodedBytes(content), {k}))
    IN  IF \/ k \notin DOMAIN c.entries \/ content = <<>> \/ ~fits
           \/ c.entries[k].decoded # 0
        THEN c
        ELSE [room EXCEPT !.entries[k].decoded = DecodedBytes(content),
                          !.resident = @ + DecodedBytes(content)]

BlockKey(l, b) == <<l.path, b>>
(* The records of block b as the open file holds them. *)
OnDisk(l, b) == [i \in DOMAIN Blocks(l)[b] |->
                    <<Blocks(l)[b][i], l.entries[Blocks(l)[b][i]]>>]

(* read_cached_table_block *)
CacheBytesOf(c, l, b) ==
    IF BlockKey(l, b) \in DOMAIN c.entries THEN Touch(c, BlockKey(l, b))
    ELSE Insert(c, BlockKey(l, b), OnDisk(l, b))
Cached(c, l, b) ==
    IF BlockKey(l, b) \in DOMAIN c.entries THEN c.entries[BlockKey(l, b)].content
    ELSE OnDisk(l, b)

(* read_table_block_records: decoded records if they are cached, otherwise  *)
(* the bytes, decoded again and kept when values were asked for.            *)
CacheRecordsOf(c, l, b, values) ==
    LET k == BlockKey(l, b)
        bytes == CacheBytesOf(c, l, b)
    IN  IF k \in DOMAIN c.entries /\ c.entries[k].decoded # 0 THEN Touch(c, k)
        ELSE IF values THEN InsertRecords(bytes, k, Cached(c, l, b)) ELSE bytes

(* read_table_block_entry_value, and read_table_value_handle for a table    *)
(* without blocks.                                                          *)
LegacyValue(l, k) == l.entries[k]
EntryValue(c, l, k) ==
    IF CandidateBlock(l, k) = {} THEN LegacyValue(l, k)
    ELSE LET b == CHOOSE i \in CandidateBlock(l, k) : TRUE
             content == Cached(c, l, b)
         IN  content[CHOOSE i \in DOMAIN content : content[i][1] = k][2]
CacheAfterEntry(c, l, k) ==
    IF CandidateBlock(l, k) = {} THEN c ELSE CacheBytesOf(c, l, CHOOSE i \in CandidateBlock(l, k) : TRUE)

-----------------------------------------------------------------------------
(* Bounds *)

NamespaceEnd == Max(Space) + 1

(* durable_scan_lower *)
Lower(q) ==
    IF q.prefix # None
    THEN IF q.start # None /\ q.start.key >= q.prefix[1] THEN q.start.key ELSE q.prefix[1]
    ELSE IF q.start # None THEN q.start.key ELSE Min(Space)

(* durable_scan_upper: the first key past the namespace, the prefix and the *)
(* end, whichever comes first.                                              *)
Upper(q) ==
    Min({NamespaceEnd} \cup (IF q.prefix = None THEN {} ELSE {q.prefix[2]})
          \cup (IF q.end = None THEN {}
                ELSE IF q.end.inclusive THEN {q.end.key + 1} ELSE {q.end.key}))

(* BTreeMap::range panics when it is asked for a range that ends before it  *)
(* begins, or that excludes one key at both ends.  A RAM database and       *)
(* iter_durable_first ask it for whatever they are given (and these reads   *)
(* are left out, with the other empty ranges); the other scans look first.  *)
InOrder(q) == Lower(q) < Upper(q)

(* The tests every scan repeats on the user key. *)
Matches(q, k) ==
    /\ k \in Space
    /\ q.prefix # None => k >= q.prefix[1] /\ k < q.prefix[2]
    /\ q.start # None => k > q.start.key \/ (q.start.inclusive /\ k = q.start.key)
    /\ q.end # None => k < q.end.key \/ (q.end.inclusive /\ k = q.end.key)

(* The page of a map: its entries in key order, past offset, up to limit. *)
Page(q, m) ==
    LET ks == Sorted({k \in Present(m) : Matches(q, k)})
        upto == IF q.limit = None \/ q.offset + q.limit > Len(ks) THEN Len(ks)
                ELSE q.offset + q.limit
    IN  [i \in 1..(upto - q.offset) |-> <<ks[q.offset + i], m[ks[q.offset + i]]>>]

(* iter_memory_bounds walks one BTreeMap range, cut by prefix, start, end. *)
MemoryPage(q) ==
    LET from == {k \in Present(state) : k >= Lower(q) /\ (After(q) # Lower(q) \/ k > After(q))}
        ks == Sorted({k \in from : k < Upper(q)})
        rest == SubSeq(ks, q.offset + 1, Len(ks))
        ks2 == IF q.limit # None /\ q.limit < Len(rest) THEN SubSeq(rest, 1, q.limit) ELSE rest
    IN  [i \in DOMAIN ks2 |-> <<ks2[i], state[ks2[i]]>>]

-----------------------------------------------------------------------------
(* What changes the database *)

Layer(id, path, entries, legacy) ==
    [id |-> id, path |-> path, entries |-> entries, legacy |-> legacy]

NoQuery == [prefix |-> None, start |-> None, end |-> None, offset |-> 0, limit |-> None,
            keys |-> <<>>]
NoSnap == [state |-> <<>>, pending |-> <<>>, stateAfter |-> None, pendingAfter |-> None,
           stateMore |-> FALSE, pendingMore |-> FALSE, maps |-> <<EmptyMap, EmptyMap>>,
           layers |-> <<>>, generation |-> 0]

(* A database that was opened with some tables and nothing to replay, or a  *)
(* RAM database.                                                            *)
Init ==
    /\ ram \in BOOLEAN
    /\ state = EmptyMap /\ pending = EmptyMap
    /\ \E ls \in FirstLayers :
          layers = IF ram THEN <<>>
                   ELSE [i \in DOMAIN ls |-> Layer(-i, <<0, i>>, ls[i].entries, ls[i].legacy)]
    /\ generation = 0 /\ sequence = 1
    /\ files = [p \in {layers[i].path : i \in DOMAIN layers} |->
                   layers[CHOOSE i \in DOMAIN layers : layers[i].path = p].entries]
    /\ loaded = {layers[i].id : i \in {j \in DOMAIN layers : IndexKept(layers[j])}}
    /\ cache = EmptyCache
    /\ op = "none" /\ query = NoQuery /\ pc = "idle" /\ snap = NoSnap
    /\ cursors = <<>> /\ open = <<>> /\ out = <<>> /\ skipped = 0 /\ attempt = 0 /\ after = None
    /\ seen = {} /\ changes = 0 /\ reads = 0 /\ began = 0

Changed ==
    /\ changes < MaxChanges /\ changes' = changes + 1
    /\ seen' = IF pc = "idle" THEN {} ELSE seen \cup {View'}
    /\ UNCHANGED <<ram, cache, reader, reads, began>>

MutCommit(b) ==
    /\ ~ram
    /\ state' = [k \in Keys |-> IF b[k] = Absent THEN state[k] ELSE Strip(b[k])]
    /\ pending' = [k \in Keys |-> IF b[k] = Absent THEN pending[k] ELSE b[k]]
    /\ generation' = generation
    /\ sequence' = sequence + 1
    /\ UNCHANGED <<layers, files, loaded>>
    /\ Changed
(* execute_group applies a committed batch under the lock. *)
Commit(b) ==
    /\ ~ram
    /\ state' = [k \in Keys |-> IF b[k] = Absent THEN state[k] ELSE Strip(b[k])]
    /\ pending' = [k \in Keys |-> IF b[k] = Absent THEN pending[k] ELSE b[k]]
    /\ generation' = generation + 1
    /\ sequence' = sequence + 1
    /\ UNCHANGED <<layers, files, loaded>>
    /\ Changed

(* execute_memory_group: the whole batch under the write lock. *)
CommitMemory(b) ==
    /\ ram
    /\ state' = [k \in Keys |-> IF b[k] = Absent THEN state[k] ELSE Strip(b[k])]
    /\ UNCHANGED <<pending, generation, sequence, layers, files, loaded>>
    /\ Changed

(* flush_table_locked: pending_table becomes the newest layer. *)
Flush ==
    /\ ~ram /\ pending # EmptyMap
    /\ LET new == Layer(generation, <<sequence, Len(layers)>>, pending, FALSE)
       IN  /\ layers' = Append(layers, new)
           /\ files' = With(files, new.path, pending)
    /\ state' = EmptyMap /\ pending' = EmptyMap
    /\ generation' = generation + 1
    /\ UNCHANGED <<sequence, loaded>>
    /\ Changed

MutCompact ==
    /\ ~ram
    /\ LET new == Layer(generation, <<sequence, -1>>, Materialize, FALSE)
       IN  /\ layers' = <<new>>
           /\ files' = With(Drop(files, {layers[i].path : i \in DOMAIN layers}),
                            new.path, new.entries)
           /\ loaded' = loaded \cup (IF IndexKept(new) THEN {new.id} ELSE {})
    /\ state' = EmptyMap /\ pending' = EmptyMap
    /\ generation' = generation + 1
    /\ UNCHANGED sequence
    /\ Changed
(* compact_tables_locked: the indexes of all layers are loaded, what is     *)
(* visible becomes the only layer, and the files of the others are removed. *)
Compact ==
    /\ ~ram
    /\ LET new == Layer(generation, <<sequence, -1>>, Materialize, FALSE)
       IN  /\ layers' = <<new>>
           /\ files' = With(Drop(files, {layers[i].path : i \in DOMAIN layers}),
                            new.path, new.entries)
           /\ loaded' = loaded \cup {layers[i].id : i \in DOMAIN layers}
                               \cup (IF IndexKept(new) THEN {new.id} ELSE {})
    /\ state' = EmptyMap /\ pending' = EmptyMap
    /\ generation' = generation + 1
    /\ UNCHANGED sequence
    /\ Changed

-----------------------------------------------------------------------------
(* Reads that are answered while a lock is held *)

Begin(o, q) ==
    /\ pc = "idle" /\ reads < MaxReads
    /\ op' = o /\ query' = q
    /\ seen' = {View} /\ began' = changes /\ reads' = reads + 1
    /\ UNCHANGED <<inner, changes>>

Nothing == /\ snap' = NoSnap /\ cursors' = <<>> /\ open' = <<>> /\ skipped' = 0 /\ attempt' = 0
           /\ after' = None

Answer(v) == /\ pc' = "done" /\ out' = v /\ Nothing

Entries(m) == LET ks == Sorted(Present(m)) IN [i \in DOMAIN ks |-> <<ks[i], m[ks[i]]>>]
Number(n) == <<<<n, Absent>>>>

(* get, get_shared, with_value and get_many_shared on a RAM database. *)
MemoryLookup(ks) ==
    /\ ram /\ Begin("lookup", [NoQuery EXCEPT !.keys = ks])
    /\ Answer([i \in DOMAIN ks |-> <<ks[i], state[ks[i]]>>])
    /\ UNCHANGED <<loaded, cache>>

MemoryScan(q) ==
    /\ ram /\ InOrder(q) /\ Begin("page", q)
    /\ Answer(IF q.limit = 0 THEN <<>> ELSE MemoryPage(q))
    /\ UNCHANGED <<loaded, cache>>

(* count and count_prefix: the length of the map, or of a range of it. *)
MemoryCount(q) ==
    /\ ram /\ q.start = None /\ q.end = None /\ q.limit = None /\ q.offset = 0
    /\ Begin("count", q)
    /\ Answer(Number(Len(MemoryPage(q))))
    /\ UNCHANGED <<loaded, cache>>

(* snapshot() materializes everything under the lock. *)
TakeSnapshot ==
    /\ Begin("snapshot", NoQuery)
    /\ Answer(Entries(IF ram THEN state ELSE Materialize))
    /\ loaded' = loaded \cup {layers[i].id : i \in DOMAIN layers}
    /\ UNCHANGED cache

(* iter_durable_memtable_page: without tables a page is merged from the two *)
(* mutable maps under the lock, unless it looks at too many keys.           *)
MemtableKeys(q) ==
    {k \in Present(state) \cup Present(pending) :
        /\ k >= Lower(q) /\ k < Upper(q)
        /\ After(q) = Lower(q) => k > After(q)}
MemtableFits(q) ==
    LET live == {k \in MemtableKeys(q) : Matches(q, k) /\ View[k] # Absent}
        needed == IF Cardinality(live) >= q.offset + q.limit
                  THEN {k \in MemtableKeys(q) :
                            k <= Sorted(live)[q.offset + q.limit]}
                  ELSE MemtableKeys(q)
    IN  Cardinality(needed) <= Examined
MemtablePage(q) ==
    LET m == [k \in Keys |-> IF pending[k] # Absent THEN Strip(pending[k]) ELSE state[k]]
    IN  Page(q, [k \in Keys |-> IF k \in MemtableKeys(q) THEN m[k] ELSE Absent])

Bounded(q) == q.limit # None /\ q.limit <= PageLimit
OnMemtable(q) == ~ram /\ layers = <<>> /\ Bounded(q) /\ q.limit # 0 /\ MemtableFits(q)

ScanMemtable(q) ==
    /\ OnMemtable(q) /\ Begin("page", q)
    /\ Answer(MemtablePage(q))
    /\ UNCHANGED <<loaded, cache>>

(* A page of no entries is empty before anything is read. *)
ScanNothing(q) ==
    /\ ~ram /\ q.limit = 0 /\ Begin("page", q)
    /\ Answer(<<>>)
    /\ UNCHANGED <<loaded, cache>>

-----------------------------------------------------------------------------
(* get_durable_value and get_many_durable_values *)

(* Under the lock: what the mutable maps decide, and the layers for the     *)
(* rest.                                                                    *)
Decided(k) == pending[k] # Absent \/ state[k] # Absent
BeginLookup(ks) ==
    /\ ~ram /\ Begin("lookup", [NoQuery EXCEPT !.keys = ks])
    /\ out' = [i \in DOMAIN ks |->
                  <<ks[i], IF Decided(ks[i]) THEN Resolve(ks[i], pending, state, <<>>)
                           ELSE Absent>>]
    /\ open' = Sorted({i \in DOMAIN ks : ~Decided(ks[i])})
    /\ pc' = IF open' = <<>> \/ layers = <<>> THEN "done" ELSE "lookup"
    /\ snap' = [NoSnap EXCEPT !.layers = layers] /\ cursors' = <<>>
    /\ skipped' = 0 /\ attempt' = 0 /\ after' = None
    /\ UNCHANGED <<loaded, cache>>

Reading == UNCHANGED <<inner, op, query, seen, changes, reads, began>>

Fail(what) == pc' = what /\ out' = <<>> /\ Nothing

(* get, and get_many_shared. *)
Get(k) == MemoryLookup(<<k>>) \/ BeginLookup(<<k>>)
GetMany(ks) == MemoryLookup(ks) \/ BeginLookup(ks)

(* get_shared is for RAM databases; a durable one refuses. *)
GetShared(k) ==
    \/ MemoryLookup(<<k>>)
    \/ /\ ~ram /\ Begin("lookup", [NoQuery EXCEPT !.keys = <<k>>])
       /\ Fail("refused")
       /\ UNCHANGED <<loaded, cache>>

(* One layer is asked for one unresolved key; `skipped` counts the layers   *)
(* already asked, from the newest.  The first entry decides.                *)
LookupLayer ==
    /\ pc = "lookup"
    /\ LET i == Head(open)
           k == query.keys[i]
           l == snap.layers[Len(snap.layers) - skipped]
           hit == Indexed(l, k)
           last == hit \/ skipped + 1 = Len(snap.layers)
       IN  \/ /\ Loadable(l, loaded)
              /\ loaded' = loaded \cup {l.id}
              /\ out' = IF hit THEN [out EXCEPT ![i][2] = Strip(EntryValue(cache, l, k))] ELSE out
              /\ cache' = IF hit THEN CacheAfterEntry(cache, l, k) ELSE cache
              /\ skipped' = IF last THEN 0 ELSE skipped + 1
              /\ open' = IF last THEN Tail(open) ELSE open
              /\ pc' = IF last /\ Len(open) = 1 THEN "done" ELSE "lookup"
              /\ UNCHANGED <<snap, cursors, attempt, after>>
           \/ /\ ~Loadable(l, loaded)
              /\ Fail("missing table")
              /\ UNCHANGED <<loaded, cache>>
    /\ Reading

-----------------------------------------------------------------------------
(* iter_durable_first: the first entry of a page of one *)

UsesFirst(q) == ~ram /\ q.offset = 0 /\ q.limit = 1 /\ ~OnMemtable(q)
BeginFirst(q) ==
    /\ UsesFirst(q) /\ InOrder(q) /\ Begin("first", q)
    /\ pc' = "first" /\ after' = After(q)
    /\ snap' = NoSnap /\ cursors' = <<>> /\ open' = <<>> /\ out' = <<>>
    /\ skipped' = 0 /\ attempt' = 0
    /\ UNCHANGED <<loaded, cache>>

(* next_map_key *)
Beyond(q, a, S) == {k \in S : k >= Lower(q) /\ k < Upper(q) /\ (a # None => k > a)}

(* Under the lock: the candidates of the mutable maps, the layers, and the  *)
(* generation.                                                              *)
FirstCapture ==
    /\ pc = "first" /\ pc' = "pick"
    /\ snap' = [NoSnap EXCEPT !.maps = <<pending, state>>, !.layers = layers,
                              !.generation = generation]
    /\ UNCHANGED <<loaded, cache, cursors, open, out, skipped, attempt, after>>
    /\ Reading

(* The keys past a that a captured source has an entry for; whether only    *)
(* tables have one; the newest table that does.                             *)
Candidates(a) ==
    Beyond(query, a, Present(snap.maps[1]) \cup Present(snap.maps[2])
        \cup UNION {Present(snap.layers[i].entries) : i \in DOMAIN snap.layers})
OnlyTabled(k) == snap.maps[1][k] = Absent /\ snap.maps[2][k] = Absent
Holder(k) == snap.layers[Max({i \in DOMAIN snap.layers : snap.layers[i].entries[k] # Absent})]

(* The smallest candidate of all sources and its value. *)
FirstPick ==
    /\ pc = "pick"
    /\ \/ /\ \A i \in DOMAIN snap.layers : Loadable(snap.layers[i], loaded)
          /\ \/ /\ Candidates(after) = {}
                /\ pc' = "done" /\ UNCHANGED <<out, cache>>
             \/ \E k \in Candidates(after) :
                   /\ \A j \in Candidates(after) : k <= j
                   /\ pc' = "check"
                   /\ out' = <<<<k, IF OnlyTabled(k) THEN Strip(EntryValue(cache, Holder(k), k))
                                  ELSE Resolve(k, snap.maps[1], snap.maps[2], <<>>)>>>>
                   /\ cache' = IF OnlyTabled(k) THEN CacheAfterEntry(cache, Holder(k), k)
                               ELSE cache
          /\ loaded' = loaded \cup {snap.layers[i].id : i \in DOMAIN snap.layers}
          /\ UNCHANGED <<snap, cursors, open, skipped, attempt, after>>
       \/ /\ \E i \in DOMAIN snap.layers : ~Loadable(snap.layers[i], loaded)
          /\ Fail("missing table")
          /\ UNCHANGED <<loaded, cache>>
    /\ Reading

MutFirstCheck ==
    /\ pc = "check"
    /\ UNCHANGED <<loaded, cache, cursors, open, skipped>>
    /\ IF out[1][2] = Absent
       THEN pc' = "first" /\ snap' = NoSnap /\ out' = <<>> /\ UNCHANGED <<attempt, after>>
       ELSE /\ after' = out[1][1] /\ pc' = "done" /\ UNCHANGED out /\ UNCHANGED <<attempt, snap>>
    /\ Reading
(* Under the lock again: if the database changed, the candidate is looked   *)
(* for again, from the same place; a tombstone moves the search past it.    *)
FirstCheck ==
    /\ pc = "check"
    /\ UNCHANGED <<loaded, cache, cursors, open, skipped>>
    /\ \/ /\ generation # snap.generation /\ attempt + 1 < FirstRetries
          /\ attempt' = attempt + 1
          /\ pc' = "first" /\ snap' = NoSnap /\ out' = <<>> /\ UNCHANGED after
       \/ /\ generation # snap.generation /\ attempt + 1 >= FirstRetries
          /\ pc' = "changed" /\ out' = <<>> /\ UNCHANGED <<attempt, after, snap>>
       \/ /\ generation = snap.generation
          /\ after' = out[1][1]
          /\ IF out[1][2] = Absent
             THEN pc' = "first" /\ snap' = NoSnap /\ out' = <<>> /\ UNCHANGED attempt
             ELSE pc' = "done" /\ UNCHANGED out /\ UNCHANGED <<attempt, snap>>
    /\ Reading

-----------------------------------------------------------------------------
(* capture_durable_table_page and iter_durable_table_page: pages, counts *)

(* capture_durable_memtable_chunk: the next records of a map, and whether   *)
(* there are more.                                                          *)
Chunk(m, q, a) ==
    LET ks == Sorted(Beyond(q, a, Present(m)))
        n == IF Len(ks) < ChunkSize THEN Len(ks) ELSE ChunkSize
    IN  [records |-> [i \in 1..n |-> <<ks[i], m[ks[i]]>>],
         after |-> IF n = 0 THEN None ELSE ks[n], more |-> Len(ks) > n]

CapturedPage(q) ==
    LET a == IF After(q) = Lower(q) THEN After(q) ELSE None
        s == Chunk(state, q, a)
        p == Chunk(pending, q, a)
    IN  IF Lower(q) >= Upper(q) THEN [NoSnap EXCEPT !.generation = generation]
        ELSE [NoSnap EXCEPT
                !.state = s.records, !.stateAfter = s.after, !.stateMore = s.more,
                !.pending = p.records, !.pendingAfter = p.after, !.pendingMore = p.more,
                !.layers = layers, !.generation = generation]

(* TableScanCursor::new: the block that may hold the lower bound; a table   *)
(* without blocks hands out one entry at a time.                            *)
Units(l) ==
    LET ks == Sorted(Present(l.entries))
    IN  IF l.legacy THEN [i \in DOMAIN ks |-> <<ks[i]>>] ELSE Blocks(l)
NewCursor(q, l) ==
    [next |-> Cardinality({u \in DOMAIN Units(l) : Last(Units(l)[u]) < Lower(q)}) + 1,
     records |-> <<>>, done |-> Units(l) = <<>>]

StartPage(q) ==
    /\ snap' = CapturedPage(q) /\ cursors' = [i \in DOMAIN snap'.layers |-> NewCursor(q, snap'.layers[i])]
    /\ pc' = "merge" /\ open' = <<>> /\ out' = <<>> /\ skipped' = 0 /\ after' = None

InReach(q) == Bounded(q) /\ q.offset + q.limit <= PageReach
UsesPage(q) == ~ram /\ InReach(q) /\ q.limit # 0 /\ ~OnMemtable(q) /\ ~UsesFirst(q)
BeginPage(q) ==
    /\ UsesPage(q) /\ Begin("page", q)
    /\ StartPage(q) /\ attempt' = 1
    /\ UNCHANGED <<loaded, cache>>

(* count_durable_namespace *)
BeginCount(q) ==
    /\ ~ram /\ q.start = None /\ q.end = None /\ q.limit = None /\ q.offset = 0
    /\ Begin("count", q)
    /\ StartPage(q) /\ attempt' = 1
    /\ UNCHANGED <<loaded, cache>>

NeedsBlock(i) == cursors[i].records = <<>> /\ ~cursors[i].done
Merging == pc = "merge"
WithValues == op # "count"

(* load_next_block and load_next_legacy_entry: the next block of the first  *)
(* cursor that has run dry, unless it begins past the upper bound.          *)
LoadBlock ==
    /\ Merging
    /\ \E i \in DOMAIN cursors :
        /\ NeedsBlock(i) /\ \A j \in 1..(i - 1) : ~NeedsBlock(j)
        /\ LET l == snap.layers[i]
               us == Units(l)
               b == cursors[i].next
               past == b > Len(us) \/ (b <= Len(us) /\ Head(us[b]) >= Upper(query))
               content == IF l.legacy THEN <<<<us[b][1], l.entries[us[b][1]]>>>>
                          ELSE Cached(cache, l, b)
               fresh == SelectSeq(content, LAMBDA r : r[1] >= Lower(query)
                                       /\ (After(query) = Lower(query) => r[1] > After(query)))
               inRange == \E r \in ToSet(fresh) : r[1] < Upper(query)
           IN  /\ cursors' = [cursors EXCEPT ![i] =
                    IF past THEN [@ EXCEPT !.done = TRUE]
                    ELSE [@ EXCEPT !.next = b + 1, !.records = IF inRange THEN fresh ELSE <<>>]]
               /\ cache' = IF past \/ l.legacy THEN cache
                           ELSE CacheRecordsOf(cache, l, b, WithValues)
    /\ UNCHANGED <<pc, snap, open, out, skipped, attempt, after, loaded>>
    /\ Reading

StateDry == snap.state = <<>> /\ snap.stateMore
PendingDry == snap.pending = <<>> /\ snap.pendingMore

(* A chunk has been used up: the next one is captured under the lock, or    *)
(* the pass is given up because the database has changed.                   *)
Refill ==
    /\ Merging /\ \A i \in DOMAIN cursors : ~NeedsBlock(i)
    /\ StateDry \/ PendingDry
    /\ \/ /\ generation # snap.generation /\ pc' = "validate" /\ UNCHANGED snap
       \/ /\ generation = snap.generation /\ pc' = pc
          /\ LET s == Chunk(state, query, snap.stateAfter)
                 p == Chunk(pending, query, snap.pendingAfter)
             IN  snap' = [snap EXCEPT
                    !.state = IF StateDry THEN s.records ELSE @,
                    !.stateAfter = IF StateDry THEN s.after ELSE @,
                    !.stateMore = IF StateDry THEN s.more ELSE @,
                    !.pending = IF PendingDry THEN p.records ELSE @,
                    !.pendingAfter = IF PendingDry THEN p.after ELSE @,
                    !.pendingMore = IF PendingDry THEN p.more ELSE @]
    /\ UNCHANGED <<cursors, open, out, skipped, attempt, after, loaded, cache>>
    /\ Reading

(* What the sources say about key k, the most recent first. *)
Sources(k) ==
    SelectSeq(<<snap.pending, snap.state>>
                  \o Reverse([i \in DOMAIN cursors |-> cursors[i].records]),
              LAMBDA rs : rs # <<>> /\ rs[1][1] = k)
Past(rs, k) == IF rs # <<>> /\ rs[1][1] = k THEN Tail(rs) ELSE rs

(* One turn of the merge: the smallest head of all sources, the value of    *)
(* the most recent source that has it, the tests, offset and limit.         *)
MergeKey ==
    /\ Merging /\ \A i \in DOMAIN cursors : ~NeedsBlock(i)
    /\ ~StateDry /\ ~PendingDry
    /\ LET heads == {rs[1][1] : rs \in ({snap.state, snap.pending}
                          \cup {cursors[i].records : i \in DOMAIN cursors}) \ {<<>>}}
           k == Min(heads)
           slot == Sources(k)[1][1][2]
           live == slot # Tombstone /\ Matches(query, k)
           taken == live /\ skipped >= query.offset
           full == taken /\ op # "count" /\ Len(out) + 1 >= query.limit
           ended == heads = {} \/ k >= Upper(query)
       IN  IF ended
           THEN pc' = "validate" /\ UNCHANGED <<out, skipped, snap, cursors>>
           ELSE
              /\ out' = IF taken THEN Append(out, <<k, slot>>) ELSE out
              /\ skipped' = IF live /\ ~taken THEN skipped + 1 ELSE skipped
              /\ pc' = IF full THEN "validate" ELSE pc
              /\ snap' = IF full THEN snap ELSE [snap EXCEPT !.state = Past(@, k),
                                                            !.pending = Past(@, k)]
              /\ cursors' = IF full THEN cursors
                            ELSE [i \in DOMAIN cursors |->
                                    [cursors[i] EXCEPT !.records = Past(@, k)]]
    /\ UNCHANGED <<open, attempt, after, loaded, cache>>
    /\ Reading

(* Under the lock again: the page stands if nothing has changed since it    *)
(* was captured; otherwise it is captured and read again, a few times.      *)
Validate ==
    /\ pc = "validate"
    /\ \/ /\ generation = snap.generation
          /\ pc' = "done"
          /\ out' = IF op = "count" THEN Number(Len(out)) ELSE out
          /\ Nothing
       \/ /\ generation # snap.generation /\ attempt >= ScanAttempts
          /\ Fail("changed")
       \/ /\ generation # snap.generation /\ attempt < ScanAttempts
          /\ StartPage(query) /\ attempt' = attempt + 1
    /\ UNCHANGED <<loaded, cache>>
    /\ Reading

-----------------------------------------------------------------------------
(* iter_bounds_paginated without a limit, or with a large one or a large   *)
(* offset                                                                  *)

UsesFull(q) == ~ram /\ ~InReach(q) /\ q.limit # 0 /\ ~OnMemtable(q) /\ ~UsesFirst(q)
BeginFull(q) ==
    /\ UsesFull(q) /\ Begin("page", q)
    /\ snap' = [NoSnap EXCEPT !.maps = <<pending, state>>, !.layers = layers]
    /\ pc' = "full" /\ out' = <<>>
    /\ cursors' = <<>> /\ open' = <<>> /\ skipped' = 0 /\ attempt' = 0 /\ after' = None
    /\ UNCHANGED <<loaded, cache>>

ScanAfter == IF After(query) = Lower(query) THEN After(query) ELSE None
Merged ==
    [k \in Keys |-> IF k \in Candidates(ScanAfter)
                   THEN Resolve(k, snap.maps[1], snap.maps[2], snap.layers) ELSE Absent]

(* The values of the keys in S are read, the smallest key first. *)
CacheAfterReading(S) ==
    LET reading[T \in SUBSET S] ==
            IF T = {} THEN cache
            ELSE CacheAfterEntry(reading[T \ {Max(T)}], Holder(Max(T)), Max(T))
    IN  reading[S]

(* The cloned maps and all indexes are merged key by key; the value of a    *)
(* key that only tables hold is read from its block.                        *)
FullScan ==
    /\ pc = "full"
    /\ \/ /\ Lower(query) >= Upper(query)
          /\ Answer(<<>>) /\ UNCHANGED <<loaded, cache>>
       \/ /\ Lower(query) < Upper(query)
          /\ \A i \in DOMAIN snap.layers : Loadable(snap.layers[i], loaded)
          /\ loaded' = loaded \cup {snap.layers[i].id : i \in DOMAIN snap.layers}
          /\ \E page \in {Page(query, Merged)} :
                LET last == IF query.limit # None /\ Len(page) = query.limit
                            THEN page[Len(page)][1] ELSE Max(Keys)
                IN  /\ Answer(page)
                    /\ cache' = CacheAfterReading({k \in Candidates(ScanAfter) :
                                                    k <= last /\ OnlyTabled(k)})
       \/ /\ Lower(query) < Upper(query)
          /\ \E i \in DOMAIN snap.layers : ~Loadable(snap.layers[i], loaded)
          /\ Fail("missing table")
          /\ UNCHANGED <<loaded, cache>>
    /\ Reading

(* The caller has its answer. *)
Return ==
    /\ pc \in {"done", "changed", "missing table", "refused"}
    /\ pc' = "idle" /\ op' = "none" /\ query' = NoQuery /\ out' = <<>> /\ Nothing
    /\ seen' = {} /\ began' = 0
    /\ UNCHANGED <<inner, loaded, cache, changes, reads>>

ReadStep ==
    \/ LookupLayer \/ FirstCapture \/ FirstPick \/ FirstCheck
    \/ LoadBlock \/ Refill \/ MergeKey \/ Validate \/ FullScan \/ Return

Next ==
    \/ \E b \in Batches : Commit(b) \/ CommitMemory(b)
    \/ Flush \/ Compact
    \/ \E ks \in Lookups : GetMany(ks)
    \/ \E k \in Space : Get(k) \/ GetShared(k)
    \/ \E q \in Queries :
          \/ MemoryScan(q) \/ MemoryCount(q) \/ ScanNothing(q) \/ ScanMemtable(q)
          \/ BeginFirst(q) \/ BeginPage(q) \/ BeginCount(q) \/ BeginFull(q)
    \/ TakeSnapshot
    \/ ReadStep

(* The reading thread runs on: weak fairness of ReadStep, which is enabled  *)
(* exactly while a read is in progress.                                     *)
Fairness == []<>(pc = "idle") \/ []<><<ReadStep>>_vars

Spec == Init /\ [][Next]_vars /\ Fairness

-----------------------------------------------------------------------------
(* Properties *)

Expected(m) ==
    CASE op = "lookup"   -> [i \in DOMAIN query.keys |-> <<query.keys[i], m[query.keys[i]]>>]
      [] op = "count"    -> Number(Len(Page(query, m)))
      [] op = "snapshot" -> Entries(m)
      [] OTHER           -> Page(query, m)

(* A lookup, a page, a count, a scan or a snapshot that succeeds answers    *)
(* what the database held at one moment between the call and the return,    *)
(* whatever commits, flushes and compactions ran meanwhile (the generation  *)
(* checks of iter_durable_table_page).  The first entry of                  *)
(* iter_durable_first was there at some moment, and every smaller key in    *)
(* range was absent at some moment of the read.                             *)
AnswersConsistent ==
    pc = "done" =>
        IF op # "first" THEN \E m \in seen : out = Expected(m)
        ELSE LET range == {k \in Space : Matches(query, k)}
                 below == IF out = <<>> THEN range ELSE {k \in range : k < out[1][1]}
             IN  /\ out # <<>> => \E m \in seen : m[out[1][1]] = out[1][2]
                 /\ \A k \in below : \E m \in seen : m[k] = Absent

(* "concurrent writes cannot produce a mixed page" (the comment on          *)
(* prefix_page), for a page of one entry too.                               *)
PageNotMixed ==
    pc = "done" => \E m \in seen : out = Expected(m)

(* A read fails only because the database changed under each of its         *)
(* attempts, and never because compaction removed a table file whose index  *)
(* it had still to load.  (A range that ends before it begins is not asked  *)
(* where it would panic, see InOrder.)                                      *)
FailsOnlyWhenOvertaken ==
    /\ pc # "missing table"
    /\ pc = "changed" =>
          changes - began >= IF op = "first" THEN FirstRetries ELSE ScanAttempts

(* The entries, the recency order and the resident bytes of the block cache *)
(* agree, the bound holds, and a cached block is what its file holds.       *)
BlockCacheAgrees ==
    /\ DOMAIN cache.lru = {cache.entries[k].access : k \in DOMAIN cache.entries}
    /\ \A k \in DOMAIN cache.entries : cache.lru[cache.entries[k].access] = k
    /\ cache.resident = TotalBytes(cache.entries, DOMAIN cache.entries)
    /\ cache.resident <= CacheBytes
    /\ \A i \in DOMAIN layers, b \in DOMAIN cache.entries :
          b[1] = layers[i].path => cache.entries[b].content = OnDisk(layers[i], b[2])

(* Every read comes to an end: the retries are bounded and a search past    *)
(* deleted keys moves on.                                                   *)
EveryReadReturns == pc # "idle" ~> pc = "idle"

=============================================================================
