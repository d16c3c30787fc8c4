----------------------------- MODULE Replication -----------------------------
(***************************************************************************)
(* One-way replication between two servers: the source writes a change log *)
(* beside its objects and events (crates/thingd-server/src/rest.rs and     *)
(* mcp.rs), the command `thingd sync` carries pages and snapshots          *)
(* (packages/thingd-cli/src/commands/sync.ts), and the replica applies     *)
(* them (crates/thingd/src/replication.rs).                                *)
(*                                                                         *)
(* A REST write and its change are one critical section of the source; an  *)
(* MCP write logs its change in a second one.  A call of the replica       *)
(* passes through a sequence of durable states, its trail, and may stop    *)
(* after any of them: a write failed or the process died.  Versions and    *)
(* timestamps are left out: apply reads the version it then expects under  *)
(* the same lock.                                                          *)
(***************************************************************************)
EXTENDS Naturals, Sequences, FiniteSets, SequencesExt

CONSTANTS
    None,
    Keys,            \* objects in collections that both sides replicate
    Bodies,          \* their contents
    Elsewhere,       \* stands for the objects the replica's allowlist keeps out
    Clients,         \* MCP clients
    Limit,           \* changes per page
    Late,            \* requests that may arrive after `sync` gave up: "page", "snapshot"
    KeepsLast,       \* does retention leave the newest change in the log
    Odds,            \* what may happen out of the ordinary, MaxOdds times together
    MaxLog, MaxEvents, MaxOdds   \* bounds of a run

ASSUME ReplicationConstants ==
    /\ Elsewhere \notin Keys /\ None \notin Keys /\ IsFiniteSet(Keys)
    /\ Late \subseteq {"page", "snapshot"}
    /\ Odds \subseteq {"mcp", "record fails", "report", "bootstrap", "reset", "unanswered", "give up"}
    /\ Limit \in Nat \ {0} /\ KeepsLast \in BOOLEAN
    /\ {MaxLog, MaxEvents, MaxOdds} \subseteq Nat

VARIABLES
    src,       \* objects of the source: key -> body or None
    events,    \* its application events: has the i-th an idempotency key
    log,       \* every change recorded, by cursor: [op, key, body, event]
    first,     \* the first cursor retention has left in the log
    reported,  \* smallest checkpoint in the source's __thingd:sync_state, 0 for none
    pending,   \* MCP client -> changes its write has still to log
    rep,       \* the replica: obj, prov, cursor, conflicts, events
    cli,       \* `sync`: cursor of its configuration, wait: the request it waits for
    late,      \* a request `sync` gave up that is still on its way
    basis,     \* history: the replica's objects after its last snapshot, and the
               \* length of the log when that snapshot was taken
    broken,    \* history: a snapshot was cut short and none has completed since
    odds       \* MCP writes, failures, lost answers, bootstraps and resets so far

svars == <<src, events, log, first, reported, pending>>
Odd(what) == what \in Odds /\ odds < MaxOdds /\ odds' = odds + 1

vars == <<svars, rep, cli, late, basis, broken, odds>>

-----------------------------------------------------------------------------
(* The source. *)
Upsert(k, b) == [op |-> "object.upsert", key |-> k, body |-> b, event |-> 0]
Delete(k) == [op |-> "object.delete", key |-> k, body |-> None, event |-> 0]
Appended(e) == [op |-> "event.append", key |-> None, body |-> None, event |-> e]

(* append_replication_change, record_change.  The append may fail after the *)
(* write: the caller gets an error, the write stays.                        *)
Record(changes) ==
    \/ log' = log \o changes /\ UNCHANGED odds
    \/ Odd("record fails")
       /\ \E n \in 0..(Len(changes) - 1) : log' = log \o SubSeq(changes, 1, n)

Room(n) == Len(log) + n <= MaxLog
Replica == UNCHANGED <<rep, cli, late, basis, broken>>

(* REST put_object *)
PutObject(k, b) ==
    /\ Room(1) /\ Replica /\ UNCHANGED <<events, first, reported, pending>>
    /\ src' = [src EXCEPT ![k] = b]
    /\ Record(<<Upsert(k, b)>>)

(* A put the replica will filter out; its body does not matter. *)
PutElsewhere ==
    /\ Room(1) /\ Replica /\ UNCHANGED <<src, events, first, reported, pending>>
    /\ Record(<<Upsert(Elsewhere, None)>>)

(* REST put_batch *)
PutBatch(f) ==
    /\ Room(Cardinality(Keys)) /\ Replica /\ UNCHANGED <<events, first, reported, pending>>
    /\ src' = f
    /\ Record(LET ks == SetToSeq(Keys) IN [i \in DOMAIN ks |-> Upsert(ks[i], f[ks[i]])])

(* REST delete_object logs a change only if there was an object *)
DeleteObject(k) ==
    /\ src[k] # None /\ Room(1) /\ Replica
    /\ UNCHANGED <<events, first, reported, pending>>
    /\ src' = [src EXCEPT ![k] = None]
    /\ Record(<<Delete(k)>>)

(* REST delete_batch logs one for every id *)
DeleteBatch(S) ==
    /\ Room(Cardinality(S)) /\ Replica /\ UNCHANGED <<events, first, reported, pending>>
    /\ src' = [k \in Keys |-> IF k \in S THEN None ELSE src[k]]
    /\ Record(LET ks == SetToSeq(S) IN [i \in DOMAIN ks |-> Delete(ks[i])])

(* REST append_event: a retried append finds its event by the idempotency   *)
(* key and logs a change all the same.                                      *)
AppendEvent(keyed) ==
    /\ Len(events) < MaxEvents /\ Room(1) /\ Replica
    /\ UNCHANGED <<src, first, reported, pending>>
    /\ events' = Append(events, keyed)
    /\ Record(<<Appended(Len(events) + 1)>>)

RetryEvent(e) ==
    /\ events[e] /\ Room(1) /\ Replica
    /\ UNCHANGED <<src, events, first, reported, pending>>
    /\ Record(<<Appended(e)>>)

(* handle_mcp_request for thing_put, thing_delete, thing_events_append and  *)
(* the batches: the handler writes under the lock ...                       *)
McpWrite(c, f, changes) ==
    /\ pending[c] = <<>> /\ Odd("mcp") /\ Replica /\ UNCHANGED <<events, log, first, reported>>
    /\ src' = f
    /\ pending' = [pending EXCEPT ![c] = changes]

McpPut(c, k, b) == Room(1) /\ McpWrite(c, [src EXCEPT ![k] = b], <<Upsert(k, b)>>)
McpDelete(c, k) == Room(1) /\ McpWrite(c, [src EXCEPT ![k] = None], <<Delete(k)>>)
McpPutBatch(c, f) ==
    /\ Room(Cardinality(Keys))
    /\ LET ks == SetToSeq(Keys)
       IN  McpWrite(c, f, [i \in DOMAIN ks |-> Upsert(ks[i], f[ks[i]])])
McpDeleteBatch(c, S) ==
    /\ Room(Cardinality(S))
    /\ LET ks == SetToSeq(S)
       IN  McpWrite(c, [k \in Keys |-> IF k \in S THEN None ELSE src[k]],
                    [i \in DOMAIN ks |-> Delete(ks[i])])
McpAppendEvent(c, keyed) ==
    /\ pending[c] = <<>> /\ Odd("mcp") /\ Len(events) < MaxEvents /\ Room(1) /\ Replica
    /\ UNCHANGED <<src, log, first, reported>>
    /\ events' = Append(events, keyed)
    /\ pending' = [pending EXCEPT ![c] = <<Appended(Len(events) + 1)>>]

(* ... and emit_mcp_replication_change logs it under the lock taken again;  *)
(* a failure is only logged as a warning.                                   *)
McpRecord(c) ==
    /\ pending[c] # <<>> /\ Room(Len(pending[c])) /\ Replica
    /\ UNCHANGED <<src, events, first, reported>>
    /\ pending' = [pending EXCEPT ![c] = <<>>]
    /\ Record(pending[c])

(* Somebody stores the checkpoint of the replica in the source. *)
ReportCheckpoint ==
    /\ reported' = rep.cursor /\ rep.cursor > reported /\ Odd("report")
    /\ Replica /\ UNCHANGED <<src, events, log, first, pending>>

(* retain with include_replication: changes up to the reported checkpoint,  *)
(* as far as they are old enough.                                           *)
Retain(to) ==
    /\ to \in first..reported /\ (KeepsLast => to < Len(log))
    /\ first' = to + 1
    /\ Replica /\ UNCHANGED <<src, events, log, reported, pending, odds>>

(* ReplicationService.events: the cursor is checked against the log only    *)
(* when it is not 0.                                                        *)
Stale(after) == after > 0 /\ first <= Len(log) /\ first > after + 1
Larger(a, b) == IF a > b THEN a ELSE b
Smaller(a, b) == IF a < b THEN a ELSE b
MutPage(after) ==
    LET from == Larger(first, after + 2)
    IN  [i \in 1..Smaller(Limit, Len(log) + 1 - Smaller(from, Len(log) + 1)) |-> from + i - 1]
Page(after) ==
    LET from == Larger(first, after + 1)
    IN  [i \in 1..Smaller(Limit, Len(log) + 1 - Smaller(from, Len(log) + 1)) |-> from + i - 1]

(* ReplicationService.snapshot: the cursor is that of the last change the   *)
(* log retains.                                                             *)
Snapshot ==
    [cursor |-> IF first > Len(log) THEN 0 ELSE Len(log), at |-> Len(log),
     objects |-> src, events |-> events]

-----------------------------------------------------------------------------
(* The replica: what each call writes, one durable state after another. *)
HasKey(R, key) == \E i \in DOMAIN R.events : R.events[i].key = key
NoKey == <<"none", 0>>
WithEvent(R, e, key) ==
    IF key # NoKey /\ HasKey(R, key) THEN R
    ELSE [R EXCEPT !.events = Append(@, [event |-> e, key |-> key])]

(* apply_event: the idempotency key is the one of the change *)
MutApplyEvent(R, c) ==
    <<[R EXCEPT !.events = Append(@, [event |-> log[c].event, key |-> <<"change", c>>])]>>
ApplyEvent(R, c) == <<WithEvent(R, log[c].event, <<"change", c>>)>>

(* apply_object *)
Conflicts(R, c) == R.obj[log[c].key] # None /\ log[c].key \notin R.prov
ApplyObject(R, c) ==
    IF Conflicts(R, c) THEN <<[R EXCEPT !.conflicts = @ \cup {c}]>>
    ELSE LET put == [R EXCEPT !.obj[log[c].key] = log[c].body]
         IN  <<put, [put EXCEPT !.prov = @ \cup {log[c].key}]>>

(* apply_delete: looks neither at the object nor at its provenance.  The    *)
(* tombstone it writes next is read by nothing and is left out.             *)
ApplyDelete(R, c) ==
    <<[R EXCEPT !.obj[log[c].key] = None]>>

(* One round of the loop of apply.  a: the trail so far, whether the call   *)
(* still runs, and last_applied_cursor.                                     *)
Filtered(c) == log[c].op # "event.append" /\ log[c].key = Elsewhere
MutApplyItem(c, a) ==
    LET R == Last(a.trail)
        writes == CASE log[c].op = "object.upsert" -> ApplyObject(R, c)
                    [] log[c].op = "object.delete" -> ApplyDelete(R, c)
                    [] OTHER -> ApplyEvent(R, c)
    IN  IF ~a.ok THEN a
        ELSE IF Filtered(c) THEN [a EXCEPT !.last = c]
        ELSE IF log[c].op = "object.upsert" /\ Conflicts(R, c)
             THEN [a EXCEPT !.trail = @ \o writes, !.ok = FALSE]
             ELSE [a EXCEPT !.trail = @ \o writes, !.last = c]
ApplyItem(c, a) ==
    LET R == Last(a.trail)
        writes == CASE log[c].op = "object.upsert" -> ApplyObject(R, c)
                    [] log[c].op = "object.delete" -> ApplyDelete(R, c)
                    [] OTHER -> ApplyEvent(R, c)
    IN  IF ~a.ok \/ c <= R.cursor THEN a
        ELSE IF Filtered(c) THEN [a EXCEPT !.last = c]
        ELSE IF log[c].op = "object.upsert" /\ Conflicts(R, c)
             THEN [a EXCEPT !.trail = @ \o writes, !.ok = FALSE]
             ELSE [a EXCEPT !.trail = @ \o writes, !.last = c]

(* apply: the checkpoint is written once, after the batch *)
Apply(R, page) ==
    LET rounds[i \in 0..Len(page)] ==
            IF i = 0 THEN [trail |-> <<R>>, ok |-> TRUE, last |-> 0]
            ELSE ApplyItem(page[i], rounds[i - 1])
        a == rounds[Len(page)]
    IN  IF a.ok /\ a.last > R.cursor
        THEN [a EXCEPT !.trail = Append(@, [Last(a.trail) EXCEPT !.cursor = a.last])]
        ELSE a

(* apply_snapshot: it removes the objects (replace), puts those of the      *)
(* snapshot, appends its events and sets the checkpoint; it writes no       *)
(* provenance.                                                              *)
SnapshotWrites(R, s, replace) ==
    LET old == SetToSeq({k \in Keys : R.obj[k] # None})
        new == SetToSeq({k \in Keys : s.objects[k] # None})
    IN  (IF replace THEN [i \in DOMAIN old |-> [do |-> "delete", of |-> old[i]]] ELSE <<>>)
        \o [i \in DOMAIN new |-> [do |-> "put", of |-> new[i]]]
        \o [i \in DOMAIN s.events |-> [do |-> "append", of |-> i]]
SnapshotWrite(R, s, w) ==
    CASE w.do = "delete" -> [R EXCEPT !.obj[w.of] = None]
      [] w.do = "put" -> [R EXCEPT !.obj[w.of] = s.objects[w.of]]
      [] w.do = "append" -> WithEvent(R, w.of, IF s.events[w.of] THEN <<"own", w.of>> ELSE NoKey)
ApplySnapshot(R, s, replace) ==
    LET ws == SnapshotWrites(R, s, replace)
        states[i \in 0..Len(ws)] ==
            IF i = 0 THEN R ELSE SnapshotWrite(states[i - 1], s, ws[i])
    IN  [trail |-> [i \in 1..(Len(ws) + 2) |->
                       IF i <= Len(ws) + 1 THEN states[i - 1]
                       ELSE [states[Len(ws)] EXCEPT !.cursor = s.cursor]],
         ok |-> TRUE, last |-> s.cursor]

-----------------------------------------------------------------------------
(* `thingd sync`. *)
Source == UNCHANGED svars

(* runSync: fetch a page, then post it *)
Pull ==
    /\ cli.wait = None /\ ~Stale(cli.cursor) /\ Page(cli.cursor) # <<>>
    /\ cli' = [cli EXCEPT !.wait = [kind |-> "page", page |-> Page(cli.cursor)]]
    /\ Source /\ UNCHANGED <<rep, late, basis, broken, odds>>

(* runBootstrap, by an operator or because the cursor is stale *)
Bootstrap(replace) ==
    /\ cli.wait = None
    /\ \/ Odd("bootstrap")
       \/ Stale(cli.cursor) /\ UNCHANGED odds
    /\ cli' = [cli EXCEPT !.wait = [kind |-> "snapshot", snap |-> Snapshot, replace |-> replace]]
    /\ Source /\ UNCHANGED <<rep, late, basis, broken>>

(* sync reset and configure *)
Reset ==
    /\ cli.wait = None /\ cli.cursor > 0 /\ Odd("reset")
    /\ cli' = [cli EXCEPT !.cursor = 0]
    /\ Source /\ UNCHANGED <<rep, late, basis, broken>>

(* The connection breaks before the replica has the request. *)
GiveUp ==
    /\ cli.wait # None /\ Odd("give up")
    /\ late' \in {late} \cup (IF cli.wait.kind \in Late THEN {cli.wait} ELSE {})
    /\ cli' = [cli EXCEPT !.wait = None]
    /\ Source /\ UNCHANGED <<rep, basis, broken>>

(* The replica runs a request to the end of its trail or stops before it. *)
Effect(req) ==
    IF req.kind = "page" THEN Apply(rep, req.page) ELSE ApplySnapshot(rep, req.snap, req.replace)

Handle(req, a, n) ==
    /\ rep' = a.trail[n]
    /\ IF req.kind = "snapshot" /\ n = Len(a.trail)
       THEN basis' = [obj |-> rep'.obj, at |-> req.snap.at] /\ broken' = FALSE
       ELSE UNCHANGED basis /\ broken' = (broken \/ (req.kind = "snapshot" /\ n > 1))

(* replication_apply and replication_snapshot_apply; the cursor of the      *)
(* configuration moves when the answer arrives.                             *)
Deliver ==
    /\ cli.wait # None /\ Source /\ UNCHANGED <<late, odds>>
    /\ LET a == Effect(cli.wait)
       IN  /\ Handle(cli.wait, a, Len(a.trail))
           /\ cli' = [cursor |-> IF ~a.ok THEN cli.cursor
                                 ELSE IF cli.wait.kind = "page" THEN Last(cli.wait.page)
                                 ELSE cli.wait.snap.cursor,
                      wait |-> None]

Unanswered ==
    /\ cli.wait # None /\ Odd("unanswered") /\ Source /\ UNCHANGED late
    /\ LET a == Effect(cli.wait)
       IN  \E n \in DOMAIN a.trail : Handle(cli.wait, a, n)
    /\ cli' = [cli EXCEPT !.wait = None]

DeliverLate ==
    /\ late # None /\ late' = None /\ Source /\ UNCHANGED <<cli, odds>>
    /\ LET a == Effect(late) IN Handle(late, a, Len(a.trail))

-----------------------------------------------------------------------------
(* The replica may hold objects of its own from before. *)
Init ==
    /\ src = [k \in Keys |-> None] /\ events = <<>> /\ log = <<>> /\ first = 1
    /\ reported = 0 /\ pending = [c \in Clients |-> <<>>]
    /\ \E own \in SUBSET Keys : \E b \in Bodies :
          rep = [obj |-> [k \in Keys |-> IF k \in own THEN b ELSE None],
                 prov |-> {}, cursor |-> 0, conflicts |-> {}, events |-> <<>>]
    /\ cli = [cursor |-> 0, wait |-> None] /\ late = None
    /\ basis = [obj |-> rep.obj, at |-> 0] /\ broken = FALSE
    /\ odds = 0

Writes ==
    \/ \E k \in Keys : DeleteObject(k) \/ \E b \in Bodies : PutObject(k, b)
    \/ PutElsewhere
    \/ \E f \in [Keys -> Bodies] : PutBatch(f)
    \/ \E S \in SUBSET Keys \ {{}} : DeleteBatch(S)
    \/ \E keyed \in BOOLEAN : AppendEvent(keyed)
    \/ \E e \in DOMAIN events : RetryEvent(e)

McpWrites(c) ==
    \/ \E k \in Keys : McpDelete(c, k) \/ \E b \in Bodies : McpPut(c, k, b)
    \/ \E f \in [Keys -> Bodies] : McpPutBatch(c, f)
    \/ \E S \in SUBSET Keys \ {{}} : McpDeleteBatch(c, S)
    \/ \E keyed \in BOOLEAN : McpAppendEvent(c, keyed)

Next ==
    \/ Writes
    \/ \E c \in Clients : McpWrites(c) \/ McpRecord(c)
    \/ ReportCheckpoint
    \/ \E to \in 1..MaxLog : Retain(to)
    \/ Pull
    \/ \E replace \in BOOLEAN : Bootstrap(replace)
    \/ Reset
    \/ GiveUp
    \/ Deliver \/ Unanswered \/ DeliverLate

(* The command is run again and again, every request ends with an answer or *)
(* is broken off, and an operator answers a stale cursor with a bootstrap.  *)
RequestEnds == cli.wait # None /\ \E n \in 0..MaxLog : cli' = [cursor |-> n, wait |-> None]
Fairness == WF_cli(RequestEnds) /\ WF_vars(Pull) /\ WF_vars(Stale(cli.cursor) /\ Bootstrap(TRUE))

Spec == Init /\ [][Next]_vars /\ Fairness

-----------------------------------------------------------------------------
(* Properties. *)

(* The variables have their types. *)
TypeOK ==
    /\ src \in [Keys -> Bodies \cup {None}] /\ events \in Seq(BOOLEAN)
    /\ first \in 1..(Len(log) + 1) /\ reported \in 0..Len(log)
    /\ rep.obj \in [Keys -> Bodies \cup {None}] /\ rep.prov \subseteq Keys
    /\ rep.cursor \in 0..Len(log) /\ rep.conflicts \subseteq 1..Len(log)
    /\ cli.cursor \in 0..Len(log) /\ broken \in BOOLEAN

(* What the log makes of a key since the replica's last snapshot. *)
Replayed(k) ==
    LET S == {c \in (basis.at + 1)..Len(log) : log[c].key = k}
    IN  IF S = {} THEN basis.obj[k]
        ELSE log[CHOOSE c \in S : \A d \in S : d <= c].body

(* A replica whose checkpoint is the end of the log holds, key by key, what *)
(* the log made of its last snapshot: whatever pages were repeated, came    *)
(* late, were cut short or were refused on the way (apply, apply_object,    *)
(* apply_delete, apply_snapshot).                                           *)
ReplicaIsReplay ==
    ~broken /\ rep.cursor = Len(log) =>
        \A k \in Keys : rep.obj[k] = Replayed(k)

(* Then it also has applied every append the log has since that snapshot    *)
(* exactly once, with the event of that append (apply_event keys it by      *)
(* source and cursor, so a redelivered or half applied batch adds nothing). *)
(* Appends are counted, not events: a retried append is a change of its own.*)
AppendsAppliedOnce ==
    ~broken /\ rep.cursor = Len(log) =>
        \A c \in (basis.at + 1)..Len(log) :
            log[c].op = "event.append" =>
                /\ Cardinality({i \in DOMAIN rep.events : rep.events[i].key = <<"change", c>>}) = 1
                /\ \A i \in DOMAIN rep.events :
                      rep.events[i].key = <<"change", c>> => rep.events[i].event = log[c].event

(* A replica that is pulled for catches up with the log, unless a conflict  *)
(* was quarantined (the change is then refused for ever).                   *)
CatchesUp == <>[](rep.cursor = Len(log) \/ rep.conflicts # {})

(* docs/api-spec/replication.md: replication "synchronizes one authoritative*)
(* source instance to one target instance".  With nothing left to log and   *)
(* the checkpoint at the end of the log, the objects the replica has taken  *)
(* from the source are those of the source.                                 *)
Synchronized ==
    rep.cursor = Len(log) /\ (\A c \in Clients : pending[c] = <<>>) =>
        \A k \in rep.prov : rep.obj[k] = src[k]

(* docs/architecture.md: the protocol "carries objects, deletes,            *)
(* application events, source metadata, cursors, and idempotency keys".  An *)
(* event the source holds once under its key is not twice on a replica that *)
(* was never given a snapshot.                                              *)
KeyedEventsOnce ==
    basis.at = 0 /\ ~broken =>
        \A i, j \in DOMAIN rep.events :
            rep.events[i].event = rep.events[j].event /\ events[rep.events[i].event] => i = j
=============================================================================
