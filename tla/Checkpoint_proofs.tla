-------------------------- MODULE Checkpoint_proofs --------------------------
(***************************************************************************)
(* Proofs about module Checkpoint, for any clients, sizes, capacities and  *)
(* bounds: flush_scheduled admits one flusher at a time, and the writer    *)
(* neither loses nor duplicates a request.                                 *)
(***************************************************************************)
EXTENDS Checkpoint, TLAPS

-----------------------------------------------------------------------------
(* One flusher at a time *)

Positions == {"none", "start", "flush", "exit", "recheck", "respawn"}

(* SingleFlusher is inductive once the flag and the positions have types. *)
FlusherInv ==
    /\ worker \in [Threads -> Positions]
    /\ scheduled \in BOOLEAN
    /\ SingleFlusher

(* schedule_background_flush keeps the flag and the threads in step, both   *)
(* when it finds a flusher and when it starts one.                          *)
LEMMA ScheduleKeepsOne ==
    ASSUME FlusherInv, NEW spawned, Schedule(spawned)
    PROVE  FlusherInv'
<1>1. CASE UNCHANGED flusher
  BY <1>1 DEF FlusherInv, SingleFlusher, Flushing, flusher
<1>2. CASE \E t \in Threads : /\ ~scheduled /\ scheduled' = TRUE
                              /\ worker[t] = "none"
                              /\ worker' = [worker EXCEPT ![t] = "start"]
  <2>1. PICK t \in Threads : /\ ~scheduled /\ scheduled' = TRUE
                             /\ worker[t] = "none"
                             /\ worker' = [worker EXCEPT ![t] = "start"]
    BY <1>2
  <2>2. worker' \in [Threads -> Positions]
    BY <2>1 DEF FlusherInv, Positions
  <2>3. \A u \in Threads : Flushing(u)' <=> u = t
    BY <2>1 DEF FlusherInv, SingleFlusher, Flushing
  <2>4. SingleFlusher'
    BY <2>1, <2>3 DEF SingleFlusher
  <2> QED
    BY <2>1, <2>2, <2>4 DEF FlusherInv
<1> QED
  BY <1>1, <1>2 DEF Schedule

(* A thread that moves within the flushing positions, or outside them,      *)
(* disturbs nothing.                                                        *)
LEMMA MoveKeepsOne ==
    ASSUME FlusherInv, NEW t \in Threads, NEW pc \in Positions, Moves(t, pc),
           UNCHANGED scheduled,
           pc \in {"start", "flush", "exit"} <=> Flushing(t)
    PROVE  FlusherInv'
<1>1. worker' \in [Threads -> Positions]
  BY DEF FlusherInv, Moves
<1>2. \A u \in Threads : Flushing(u)' <=> Flushing(u)
  BY DEF FlusherInv, Flushing, Moves
<1>3. SingleFlusher'
  BY <1>2 DEF FlusherInv, SingleFlusher
<1> QED
  BY <1>1, <1>3 DEF FlusherInv

(* One step of a flusher thread. *)
LEMMA WorkerKeepsOne ==
    ASSUME FlusherInv, NEW t \in Threads, WorkerNext(t)
    PROVE  FlusherInv'
<1>1. CASE WorkerUpgrade(t)
  <2>1. PICK pc \in {"flush", "exit"} : Moves(t, pc)
    BY <1>1 DEF WorkerUpgrade
  <2> QED
    BY <1>1, <2>1, MoveKeepsOne DEF WorkerUpgrade, Flushing, Positions
<1>2. CASE WorkerFlush(t)
  BY <1>2, MoveKeepsOne DEF WorkerFlush, Flushing, Positions
<1>3. CASE WorkerStore(t)
  <2>1. worker' \in [Threads -> Positions] /\ scheduled' = FALSE
    BY <1>3 DEF WorkerStore, FlusherInv, Moves, Positions
  <2>2. Flushing(t)
    BY <1>3 DEF WorkerStore, Flushing
  <2>3. \A u \in Threads : ~Flushing(u)'
    BY <1>3, <2>2 DEF WorkerStore, FlusherInv, SingleFlusher, Flushing, Moves
  <2> QED
    BY <2>1, <2>3 DEF FlusherInv, SingleFlusher
<1>4. CASE WorkerRecheck(t)
  <2>1. PICK pc \in {"respawn", "none"} : Moves(t, pc)
    BY <1>4 DEF WorkerRecheck
  <2> QED
    BY <1>4, <2>1, MoveKeepsOne DEF WorkerRecheck, Flushing, Positions
<1>5. CASE WorkerRespawn(t)
  <2>1. CASE UNCHANGED scheduled /\ Moves(t, "none")
    BY <1>5, <2>1, MoveKeepsOne DEF WorkerRespawn, Flushing, Positions
  <2>2. CASE ~scheduled /\ scheduled' = TRUE /\ Moves(t, "start")
    <3>1. worker' \in [Threads -> Positions]
      BY <2>2 DEF FlusherInv, Moves, Positions
    <3>2. \A u \in Threads : Flushing(u)' <=> u = t
      BY <2>2 DEF FlusherInv, SingleFlusher, Flushing, Moves
    <3> QED
      BY <2>2, <3>1, <3>2 DEF FlusherInv, SingleFlusher
  <2> QED
    BY <1>5, <2>1, <2>2 DEF WorkerRespawn
<1> QED
  BY <1>1, <1>2, <1>3, <1>4, <1>5 DEF WorkerNext

(* Base case: no flusher runs at first, and the flag is clear.              *)
LEMMA FlusherInitially == Init => FlusherInv
  BY DEF Init, FlusherInv, SingleFlusher, Flushing, Positions

(* Inductive step: every action keeps the flusher in its place.             *)
LEMMA FlusherStep == FlusherInv /\ [Next]_vars => FlusherInv'
<1> SUFFICES ASSUME FlusherInv, [Next]_vars PROVE FlusherInv'
  OBVIOUS
<1>1. CASE UNCHANGED flusher
  BY <1>1 DEF FlusherInv, SingleFlusher, Flushing, flusher
<1>2. CASE WriterCommit
  <2>1. UNCHANGED flusher \/ Schedule(TRUE) \/ Schedule(FALSE)
    BY <1>2 DEF WriterCommit
  <2> QED
    BY <1>1, <2>1, ScheduleKeepsOne
<1>3. CASE \E t \in Threads : WorkerNext(t)
  BY <1>3, WorkerKeepsOne
<1>4. UNCHANGED flusher \/ WriterCommit \/ \E t \in Threads : WorkerNext(t)
  BY DEF Next, vars, Call, Send, WriterNext, WriterRecv, WriterTry, WriterWindow,
         WriterStops, WriterBegin, WriterRefuses, WriterCommitFails, Persist, Drop,
         DropReturns, flusher
<1> QED
  BY <1>1, <1>2, <1>3, <1>4

(* At most one background flusher runs, exactly while flush_scheduled is    *)
(* set: through every race of the writer's swap, the worker's store and     *)
(* the worker's own rescheduling in background_flush_worker.                *)
THEOREM OneFlusher == Spec => []SingleFlusher
<1>1. FlusherInv => SingleFlusher
  BY DEF FlusherInv
<1> QED
  BY FlusherInitially, FlusherStep, <1>1, PTL DEF Spec

-----------------------------------------------------------------------------
(* A request is in one place *)

Answers == {"idle", "sending", "waiting", "ok", "err"}

(* RequestInOnePlace needs to know where the writer can stand with a group  *)
(* and with a carried request: a new group never overwrites an old one, nor *)
(* a request that did not fit another.                                      *)
PlaceInv ==
    /\ answer \in [Clients -> Answers]
    /\ queue \in Seq(Clients) /\ carried \subseteq Clients /\ group \subseteq Clients
    /\ wpc \in {"recv", "stopped"} => group = {}
    /\ wpc \in {"try", "window"} => carried = {}
    /\ \A c, d \in carried : c = d
    /\ RequestInOnePlace

Elements(s) == {s[i] : i \in DOMAIN s}
Distinct(s) == \A i, j \in DOMAIN s : s[i] = s[j] => i = j

(* Sending to the channel. *)
LEMMA AppendElements ==
    ASSUME NEW S, NEW s \in Seq(S), NEW c \in S, Distinct(s), c \notin Elements(s)
    PROVE  /\ Append(s, c) \in Seq(S) /\ Distinct(Append(s, c))
           /\ Elements(Append(s, c)) = Elements(s) \cup {c}
<1> DEFINE a == Append(s, c)
<1>1. a \in Seq(S) /\ Len(a) = Len(s) + 1 /\ a[Len(s) + 1] = c
      /\ \A i \in 1..Len(s) : a[i] = s[i]
  OBVIOUS
<1>2. Len(s) \in Nat /\ DOMAIN s = 1..Len(s) /\ DOMAIN a = 1..(Len(s) + 1)
  BY <1>1
<1> HIDE DEF a
<1>3. Distinct(a)
  BY <1>1, <1>2 DEF Distinct, Elements
<1>4. Elements(a) = Elements(s) \cup {c}
  <2>1. ASSUME NEW x \in Elements(a) PROVE x \in Elements(s) \cup {c}
    BY <1>1, <1>2 DEF Elements
  <2>2. ASSUME NEW x \in Elements(s) PROVE x \in Elements(a)
    <3>1. PICK i \in 1..Len(s) : x = s[i]
      BY <1>2 DEF Elements
    <3>2. x = a[i] /\ i \in DOMAIN a
      BY <1>1, <1>2, <3>1
    <3> QED
      BY <3>2 DEF Elements
  <2>3. c \in Elements(a)
    <3>1. c = a[Len(s) + 1] /\ Len(s) + 1 \in DOMAIN a
      BY <1>1, <1>2
    <3> QED
      BY <3>1 DEF Elements
  <2> QED
    BY <2>1, <2>2, <2>3
<1> QED
  BY <1>1, <1>3, <1>4 DEF a

(* Receiving from it. *)
LEMMA TailElements ==
    ASSUME NEW S, NEW s \in Seq(S), s # <<>>, Distinct(s)
    PROVE  /\ Tail(s) \in Seq(S) /\ Distinct(Tail(s))
           /\ Head(s) \in S /\ Head(s) \in Elements(s)
           /\ Elements(Tail(s)) = Elements(s) \ {Head(s)}
<1> DEFINE t == Tail(s)
<1>1. t \in Seq(S) /\ Len(t) = Len(s) - 1 /\ Len(s) \in Nat /\ Len(s) >= 1
      /\ \A i \in 1..Len(t) : t[i] = s[i + 1]
  OBVIOUS
<1>2. Head(s) = s[1] /\ Head(s) \in S
  OBVIOUS
<1>3. DOMAIN s = 1..Len(s) /\ DOMAIN t = 1..(Len(s) - 1)
  BY <1>1
<1> HIDE DEF t
<1>4. 1 \in DOMAIN s /\ Head(s) \in Elements(s)
  BY <1>1, <1>2, <1>3 DEF Elements
<1>5. Distinct(t)
  <2> SUFFICES ASSUME NEW i \in DOMAIN t, NEW j \in DOMAIN t, t[i] = t[j]
               PROVE  i = j
    BY DEF Distinct
  <2>1. i + 1 \in DOMAIN s /\ j + 1 \in DOMAIN s /\ s[i + 1] = s[j + 1]
    BY <1>1, <1>3
  <2>2. i + 1 = j + 1
    BY <2>1 DEF Distinct
  <2> QED
    BY <2>2, <1>1, <1>3
<1>6. Elements(t) = Elements(s) \ {Head(s)}
  <2>1. ASSUME NEW x \in Elements(t) PROVE x \in Elements(s) \ {Head(s)}
    <3>1. PICK i \in DOMAIN t : x = t[i]
      BY <2>1 DEF Elements
    <3>2. x = s[i + 1] /\ i + 1 \in DOMAIN s /\ i + 1 # 1
      BY <3>1, <1>1, <1>3
    <3>3. x # s[1]
      BY <3>2, <1>4 DEF Distinct
    <3> QED
      BY <3>2, <3>3, <1>2 DEF Elements
  <2>2. ASSUME NEW x \in Elements(s) \ {Head(s)} PROVE x \in Elements(t)
    <3>1. PICK i \in DOMAIN s : x = s[i]
      BY <2>2 DEF Elements
    <3>2. i # 1
      BY <3>1, <2>2, <1>2
    <3>3. i - 1 \in DOMAIN t /\ t[i - 1] = s[i]
      BY <3>2, <1>1, <1>3
    <3> QED
      BY <3>1, <3>3 DEF Elements
  <2> QED
    BY <2>1, <2>2
<1> QED
  BY <1>1, <1>2, <1>4, <1>5, <1>6 DEF t

(* RequestInOnePlace in terms of the two lemmas. *)
LEMMA PlacesAsElements ==
    /\ Queued = Elements(queue)
    /\ (\A i, j \in DOMAIN queue : queue[i] = queue[j] => i = j) <=> Distinct(queue)
    /\ Queued' = Elements(queue')
    /\ (\A i, j \in DOMAIN queue' : queue'[i] = queue'[j] => i = j) <=> Distinct(queue')
  BY DEF Queued, Elements, Distinct

(* Base case of the placement invariant.                                    *)
LEMMA PlaceInitially == Init => PlaceInv
  BY DEF Init, PlaceInv, RequestInOnePlace, Queued, Answers

(* A request moves from the channel to the group, or to `pending`. *)
LEMMA TakeKeepsPlace ==
    ASSUME PlaceInv, wpc \in {"try", "window"}, Take,
           UNCHANGED answer
    PROVE  PlaceInv'
<1>1. queue # <<>> /\ queue' = Tail(queue) /\ carried = {}
  BY DEF Take, PlaceInv
<1>2. Distinct(queue)
  BY PlacesAsElements DEF PlaceInv, RequestInOnePlace
<1>3. /\ queue' \in Seq(Clients) /\ Distinct(queue')
      /\ Head(queue) \in Clients /\ Head(queue) \in Elements(queue)
      /\ Elements(queue') = Elements(queue) \ {Head(queue)}
  BY <1>1, <1>2, TailElements DEF PlaceInv
<1>4. \/ group' = group \cup {Head(queue)} /\ wpc' = "window" /\ carried' = carried
      \/ carried' = {Head(queue)} /\ wpc' = "gate" /\ group' = group
  BY DEF Take
<1>5. RequestInOnePlace'
  BY <1>1, <1>3, <1>4, PlacesAsElements DEF PlaceInv, RequestInOnePlace
<1> QED
  BY <1>1, <1>3, <1>4, <1>5 DEF PlaceInv

(* The group is answered and gone. *)
LEMMA EndKeepsPlace ==
    ASSUME PlaceInv, NEW a \in {"ok", "err"}, EndGroup(a), wpc \in {"gate", "commit"}
    PROVE  PlaceInv'
<1>1. answer' \in [Clients -> Answers]
  BY DEF PlaceInv, EndGroup, Answer, Answers
<1>2. \A c \in Clients : answer'[c] = IF c \in group THEN a ELSE answer[c]
  BY DEF EndGroup, Answer
<1>3. group' = {} /\ wpc' = "recv" /\ queue' = queue /\ carried' = carried
  BY DEF EndGroup
<1>4. RequestInOnePlace'
  BY <1>2, <1>3, PlacesAsElements DEF PlaceInv, RequestInOnePlace
<1> QED
  BY <1>1, <1>3, <1>4 DEF PlaceInv

(* Inductive step of the placement invariant.                               *)
LEMMA PlaceStep == PlaceInv /\ [Next]_vars => PlaceInv'
<1> SUFFICES ASSUME PlaceInv, [Next]_vars PROVE PlaceInv'
  OBVIOUS
<1>1. CASE UNCHANGED <<answer, queue, carried, group, wpc>>
  BY <1>1, PlacesAsElements DEF PlaceInv, RequestInOnePlace
<1>2. ASSUME NEW c \in Clients, NEW n \in Sizes, Call(c, n) PROVE PlaceInv'
  <2>1. /\ answer' = [answer EXCEPT ![c] = "sending"] /\ answer[c] # "waiting"
        /\ UNCHANGED <<queue, carried, group, wpc>>
    BY <1>2 DEF Call, Busy, channel
  <2>2. answer' \in [Clients -> Answers]
    BY <2>1 DEF PlaceInv, Answers
  <2>3. \A d \in Clients : answer'[d] = "waiting" <=> answer[d] = "waiting"
    BY <2>1 DEF PlaceInv
  <2> QED
    BY <2>1, <2>2, <2>3, PlacesAsElements DEF PlaceInv, RequestInOnePlace
<1>3. ASSUME NEW c \in Clients, Send(c) PROVE PlaceInv'
  <2>1. /\ answer[c] = "sending" /\ queue' = Append(queue, c)
        /\ answer' = [answer EXCEPT ![c] = "waiting"]
        /\ UNCHANGED <<carried, group, wpc>>
    BY <1>3 DEF Send
  <2>2. Distinct(queue) /\ c \notin Elements(queue) /\ c \notin carried /\ c \notin group
    BY <2>1, PlacesAsElements DEF PlaceInv, RequestInOnePlace
  <2>3. /\ queue' \in Seq(Clients) /\ Distinct(queue')
        /\ Elements(queue') = Elements(queue) \cup {c}
    BY <2>1, <2>2, AppendElements DEF PlaceInv
  <2>4. answer' \in [Clients -> Answers]
    BY <2>1 DEF PlaceInv, Answers
  <2>5. \A d \in Clients : answer'[d] = "waiting" <=> answer[d] = "waiting" \/ d = c
    BY <2>1 DEF PlaceInv
  <2>6. RequestInOnePlace'
    BY <2>1, <2>2, <2>3, <2>5, PlacesAsElements DEF PlaceInv, RequestInOnePlace
  <2> QED
    BY <2>1, <2>3, <2>4, <2>6 DEF PlaceInv
<1>4. CASE WriterRecv
  <2>1. UNCHANGED answer /\ wpc' = "try" /\ group = {}
    BY <1>4 DEF WriterRecv, callers, PlaceInv
  <2>2. ASSUME NEW c \in carried, group' = {c}, carried' = {}, UNCHANGED queue
        PROVE  PlaceInv'
    <3>2. carried = {c}
      BY <2>2 DEF PlaceInv
    <3>1. RequestInOnePlace'
      BY <2>1, <2>2, <3>2, PlacesAsElements DEF PlaceInv, RequestInOnePlace
    <3> QED
      BY <2>1, <2>2, <3>1, <3>2 DEF PlaceInv
  <2>3. CASE /\ carried = {} /\ queue # <<>> /\ group' = {Head(queue)}
             /\ queue' = Tail(queue) /\ UNCHANGED carried
    <3>1. Distinct(queue)
      BY PlacesAsElements DEF PlaceInv, RequestInOnePlace
    <3>2. /\ queue' \in Seq(Clients) /\ Distinct(queue')
          /\ Head(queue) \in Clients /\ Head(queue) \in Elements(queue)
          /\ Elements(queue') = Elements(queue) \ {Head(queue)}
      BY <2>3, <3>1, TailElements DEF PlaceInv
    <3>3. RequestInOnePlace'
      BY <2>1, <2>3, <3>2, PlacesAsElements DEF PlaceInv, RequestInOnePlace
    <3> QED
      BY <2>1, <2>3, <3>2, <3>3 DEF PlaceInv
  <2> QED
    BY <1>4, <2>2, <2>3 DEF WriterRecv
<1>5. CASE WriterTry \/ WriterWindow
  <2>1. UNCHANGED answer /\ wpc \in {"try", "window"}
    BY <1>5 DEF WriterTry, WriterWindow, callers
  <2>2. CASE wpc' = "gate" /\ UNCHANGED <<queue, carried, group>>
    BY <2>1, <2>2, PlacesAsElements DEF PlaceInv, RequestInOnePlace
  <2>3. CASE Take
    BY <2>1, <2>3, TakeKeepsPlace
  <2> QED
    BY <1>5, <2>2, <2>3 DEF WriterTry, WriterWindow
<1>6. CASE WriterStops
  BY <1>6, PlacesAsElements DEF WriterStops, callers, PlaceInv, RequestInOnePlace
<1>7. CASE WriterBegin
  BY <1>7, PlacesAsElements DEF WriterBegin, callers, PlaceInv, RequestInOnePlace
<1>8. CASE WriterRefuses \/ WriterCommit \/ WriterCommitFails
  <2>1. wpc \in {"gate", "commit"} /\ (EndGroup("ok") \/ EndGroup("err"))
    BY <1>8 DEF WriterRefuses, WriterCommit, WriterCommitFails
  <2> QED
    BY <2>1, EndKeepsPlace
<1>9. CASE (\E t \in Threads : WorkerNext(t)) \/ Persist \/ Drop \/ DropReturns
  BY <1>1, <1>9 DEF WorkerNext, WorkerUpgrade, WorkerFlush, WorkerStore, WorkerRecheck,
     WorkerRespawn, Persist, Drop, DropReturns, callers, channel
<1>10. CASE UNCHANGED vars
  BY <1>1, <1>10 DEF vars, callers, channel
<1> QED
  BY <1>2, <1>3, <1>4, <1>5, <1>6, <1>7, <1>8, <1>9, <1>10 DEF Next, WriterNext

(* writer_loop loses no request and handles none twice: from send to answer *)
(* a request is in the channel, in `pending` or in the group, and in one of *)
(* them only.                                                               *)
THEOREM OnePlace == Spec => []RequestInOnePlace
<1>1. PlaceInv => RequestInOnePlace
  BY DEF PlaceInv
<1> QED
  BY PlaceInitially, PlaceStep, <1>1, PTL DEF Spec

-----------------------------------------------------------------------------
(* Types and the bound on the memtable *)

(* Between two positions of the writer: the bytes of its group are those of *)
(* a single request or at most MAX_GROUP_BYTES, and a group that has passed *)
(* the backpressure check found the memtable below twice its bound.         *)
BoundInv ==
    /\ TypeOK
    /\ wpc \in {"try", "window", "gate", "commit"} =>
          \E n \in Sizes \cup {MaxGroupBytes} : groupBytes <= n
    /\ wpc = "commit" => memBytes < 2 * MaxMemtableBytes
    /\ MemtableBounded

(* The sizes the bound adds up are natural numbers.                         *)
LEMMA SizesNat ==
    /\ Sizes \cup {MaxGroupBytes} \subseteq Nat
    /\ MaxGroupBytes \in Nat /\ MaxMemtableBytes \in Nat \ {0, 1}
  BY CheckpointConstants

(* Base case of the bound.                                                  *)
LEMMA BoundInitially == Init => BoundInv
<1> SUFFICES ASSUME Init PROVE BoundInv
  OBVIOUS
<1>1. (CHOOSE n \in Sizes : TRUE) \in Sizes
  BY CheckpointConstants
<1>2. TypeOK
  <2> DEFINE first == CHOOSE n \in Sizes : TRUE
  <2>1. size = [c \in Clients |-> first] /\ first \in Sizes
    BY <1>1 DEF Init
  <2> HIDE DEF first
  <2>2. size \in [Clients -> Sizes]
    BY <2>1
  <2>3. recovery \in BOOLEAN /\ scheduled \in BOOLEAN
    BY DEF Init
  <2>4. queue \in Seq(Clients)
    BY DEF Init
  <2> QED
    BY <2>2, <2>3, <2>4 DEF Init, TypeOK
<1>3. memBytes < 2 * MaxMemtableBytes + MaxGroupBytes
  BY SizesNat DEF Init
<1> QED
  BY <1>2, <1>3, SizesNat DEF Init, BoundInv, MemtableBounded

(* A memtable below twice its bound, or empty, is bounded. *)
LEMMA SmallIsBounded ==
    ASSUME NEW m \in Nat, m < 2 * MaxMemtableBytes
    PROVE  \E n \in Sizes \cup {MaxGroupBytes} : m < 2 * MaxMemtableBytes + n
  BY SizesNat

(* Inductive step of the bound.                                             *)
LEMMA BoundStep == BoundInv /\ [Next]_vars => BoundInv'
<1> SUFFICES ASSUME BoundInv, [Next]_vars PROVE BoundInv'
  OBVIOUS
<1> USE SizesNat
<1>0. TypeOK
  BY DEF BoundInv
<1>1. CASE UNCHANGED vars
  BY <1>1 DEF BoundInv, TypeOK, MemtableBounded, vars, callers, channel, bytes, flusher
<1>2. ASSUME NEW c \in Clients, NEW n \in Sizes, Call(c, n) PROVE BoundInv'
  <2>1. TypeOK'
    BY <1>0, <1>2 DEF TypeOK, Call, channel, bytes, flusher
  <2> QED
    BY <1>2, <2>1 DEF BoundInv, MemtableBounded, Call, channel, bytes
<1>3. ASSUME NEW c \in Clients, Send(c) PROVE BoundInv'
  <2>1. TypeOK'
    BY <1>0, <1>3 DEF TypeOK, Send, bytes, flusher
  <2> QED
    BY <1>3, <2>1 DEF BoundInv, MemtableBounded, Send, bytes
<1>4. CASE WriterRecv
  <2>1. PICK c \in Clients : /\ group' = {c} /\ groupBytes' = size[c]
                             /\ carried' \in {{}, carried} /\ wpc' = "try"
                             /\ \/ queue' = queue
                                \/ queue # <<>> /\ queue' = Tail(queue)
    BY <1>4, Zenon DEF WriterRecv
  <2>5. queue \in Seq(Clients)
    BY <1>0 DEF TypeOK
  <2>2. queue' \in Seq(Clients)
    <3>1. queue # <<>> => Tail(queue) \in Seq(Clients)
      BY <2>5
    <3> QED
      BY <2>1, <2>5, <3>1, Zenon
  <2>3. size[c] \in Sizes /\ size[c] \in Nat
    BY <1>0 DEF TypeOK
  <2>4. TypeOK'
    BY <1>0, <1>4, <2>1, <2>2, <2>3 DEF TypeOK, WriterRecv, callers, bytes, flusher
  <2> QED
    BY <1>4, <2>1, <2>3, <2>4 DEF BoundInv, MemtableBounded, WriterRecv, bytes
<1>5. CASE WriterTry \/ WriterWindow
  <2>1. /\ UNCHANGED <<callers, bytes, gate, flusher, app, errors>>
        /\ wpc \in {"try", "window"}
    BY <1>5 DEF WriterTry, WriterWindow
  <2>2. CASE wpc' = "gate" /\ UNCHANGED <<queue, carried, group, groupBytes>>
    <3>1. TypeOK'
      BY <1>0, <2>1, <2>2 DEF TypeOK, callers, bytes, flusher
    <3> QED
      BY <2>1, <2>2, <3>1 DEF BoundInv, MemtableBounded, bytes
  <2>3. CASE Take
    <3>1. queue # <<>> /\ queue' = Tail(queue) /\ queue' \in Seq(Clients)
          /\ Head(queue) \in Clients /\ size[Head(queue)] \in Nat
      BY <1>0, <2>3 DEF Take, TypeOK
    <3>2. \/ /\ wpc' = "window" /\ carried' = carried
             /\ group' = group \cup {Head(queue)}
             /\ groupBytes' = groupBytes + size[Head(queue)]
             /\ groupBytes' <= MaxGroupBytes
          \/ /\ wpc' = "gate" /\ carried' = {Head(queue)}
             /\ group' = group /\ groupBytes' = groupBytes
      BY <2>3 DEF Take
    <3>3. TypeOK'
      BY <1>0, <2>1, <3>1, <3>2 DEF TypeOK, callers, bytes, flusher
    <3> QED
      BY <2>1, <3>2, <3>3 DEF BoundInv, MemtableBounded, bytes
  <2> QED
    BY <1>5, <2>2, <2>3 DEF WriterTry, WriterWindow
<1>6. CASE WriterStops
  <2>1. TypeOK'
    BY <1>0, <1>6 DEF TypeOK, WriterStops, callers, bytes, flusher
  <2> QED
    BY <1>6, <2>1 DEF BoundInv, MemtableBounded, WriterStops, bytes
<1>7. CASE WriterBegin
  <2>1. /\ wpc = "gate" /\ wpc' = "commit" /\ gate' = "writer" /\ groupBytes' = groupBytes
        /\ memBytes' \in Nat /\ walBytes' \in Nat
        /\ memBytes' < 2 * MaxMemtableBytes
    BY <1>0, <1>7 DEF WriterBegin, TypeOK, Backpressure
  <2>2. TypeOK'
    BY <1>0, <1>7, <2>1 DEF TypeOK, WriterBegin, callers, flusher
  <2>3. MemtableBounded'
    BY <2>1, SmallIsBounded DEF MemtableBounded
  <2> QED
    BY <2>1, <2>2, <2>3 DEF BoundInv
<1>8. CASE WriterRefuses
  <2>1. /\ answer' \in [Clients -> {"idle", "sending", "waiting", "ok", "err"}]
        /\ errors' \in Nat
    BY <1>0, <1>8 DEF WriterRefuses, EndGroup, Answer, Fails, TypeOK
  <2>2. TypeOK'
    BY <1>0, <1>8, <2>1 DEF TypeOK, WriterRefuses, EndGroup, flusher
  <2> QED
    BY <1>8, <2>2 DEF BoundInv, MemtableBounded, WriterRefuses, EndGroup
<1>9. CASE WriterCommit
  <2>1. PICK mem \in groupBytes..(memBytes + groupBytes) :
           /\ memBytes' = mem /\ walBytes' = walBytes + groupBytes
           /\ \/ EndGroup("ok") /\ UNCHANGED <<recovery, flusher, errors>>
              \/ Schedule(TRUE) /\ EndGroup("ok") /\ UNCHANGED recovery
              \/ Schedule(FALSE) /\ EndGroup("err") /\ recovery' = TRUE
    BY <1>9 DEF WriterCommit
  <2>2. wpc = "commit" /\ groupBytes \in Nat /\ memBytes \in Nat /\ walBytes \in Nat
    BY <1>0, <1>9 DEF WriterCommit, TypeOK
  <2>3. memBytes' \in Nat /\ walBytes' \in Nat /\ memBytes' <= memBytes + groupBytes
    BY <2>1, <2>2
  <2>4. PICK n \in Sizes \cup {MaxGroupBytes} : groupBytes <= n
    BY <2>2 DEF BoundInv
  <2>5. memBytes' < 2 * MaxMemtableBytes + n
    BY <2>2, <2>3, <2>4 DEF BoundInv
  <2>6. /\ answer' \in [Clients -> {"idle", "sending", "waiting", "ok", "err"}]
        /\ group' = {} /\ groupBytes' = 0 /\ wpc' = "recv" /\ gate' = "free"
        /\ UNCHANGED <<size, requests, queue, carried, app>>
    BY <1>0, <2>1 DEF EndGroup, Answer, TypeOK
  <2>7. recovery' \in BOOLEAN /\ scheduled' \in BOOLEAN
    BY <1>0, <2>1, Zenon DEF Schedule, TypeOK, flusher
  <2>9. /\ errors' \in Nat
        /\ worker' \in [Threads -> {"none", "start", "flush", "exit", "recheck", "respawn"}]
    BY <1>0, <2>1 DEF Schedule, Fails, TypeOK, flusher
  <2>8. TypeOK'
    BY <1>0, <2>3, <2>6, <2>7, <2>9 DEF TypeOK
  <2> QED
    BY <2>5, <2>6, <2>8 DEF BoundInv, MemtableBounded
<1>10. CASE WriterCommitFails
  <2>1. /\ answer' \in [Clients -> {"idle", "sending", "waiting", "ok", "err"}]
        /\ errors' \in Nat /\ memBytes' = memBytes /\ walBytes' \in Nat
    BY <1>0, <1>10 DEF WriterCommitFails, EndGroup, Answer, Fails, TypeOK, bytes
  <2>3. recovery' \in BOOLEAN
    BY <1>0, <1>10, Zenon DEF WriterCommitFails, TypeOK, bytes
  <2>2. TypeOK'
    BY <1>0, <1>10, <2>1, <2>3 DEF TypeOK, WriterCommitFails, EndGroup, flusher
  <2> QED
    BY <1>10, <2>1, <2>2 DEF BoundInv, MemtableBounded, WriterCommitFails, EndGroup
<1>11. ASSUME NEW t \in Threads, WorkerNext(t) PROVE BoundInv'
  <2>1. /\ worker' \in [Threads -> {"none", "start", "flush", "exit", "recheck", "respawn"}]
        /\ errors' \in Nat
    BY <1>0, <1>11 DEF WorkerNext, WorkerUpgrade, WorkerFlush, WorkerStore, WorkerRecheck,
       WorkerRespawn, Moves, Fails, TypeOK, bytes
  <2>7. scheduled' \in BOOLEAN /\ recovery' \in BOOLEAN
    BY <1>0, <1>11, Zenon DEF WorkerNext, WorkerUpgrade, WorkerFlush, WorkerStore,
       WorkerRecheck, WorkerRespawn, TypeOK, bytes
  <2>2. \/ memBytes' = memBytes /\ walBytes' = walBytes
        \/ memBytes' = 0 /\ walBytes' = 0
    BY <1>11 DEF WorkerNext, WorkerUpgrade, WorkerFlush, WorkerStore, WorkerRecheck,
       WorkerRespawn, bytes
  <2>3. UNCHANGED <<callers, channel, gate, app>>
    BY <1>11 DEF WorkerNext, WorkerUpgrade, WorkerFlush, WorkerStore, WorkerRecheck,
       WorkerRespawn
  <2>4. TypeOK'
    BY <1>0, <2>1, <2>2, <2>3, <2>7 DEF TypeOK, callers, channel
  <2>5. MemtableBounded'
    BY <1>0, <2>2, SmallIsBounded DEF BoundInv, MemtableBounded, TypeOK
  <2>6. UNCHANGED <<wpc, groupBytes>>
    BY <2>3 DEF channel
  <2> QED
    BY <2>2, <2>4, <2>5, <2>6 DEF BoundInv
<1>12. CASE Persist \/ Drop \/ DropReturns
  <2>1. memBytes' \in {memBytes, 0} /\ walBytes' \in {walBytes, 0}
    BY <1>12 DEF Persist, Drop, DropReturns, bytes
  <2>2. /\ UNCHANGED <<callers, channel, recovery, gate, flusher>>
        /\ errors' \in {errors, errors + 1}
        /\ app' \in {app, "dropping", "dropped"}
    BY <1>12 DEF Persist, Drop, DropReturns, Fails, bytes
  <2>3. TypeOK'
    BY <1>0, <2>1, <2>2 DEF TypeOK, callers, channel, flusher
  <2>4. MemtableBounded'
    BY <1>0, <2>1, SmallIsBounded DEF BoundInv, MemtableBounded, TypeOK
  <2>5. UNCHANGED <<wpc, groupBytes>>
    BY <2>2 DEF channel
  <2> QED
    BY <2>1, <2>3, <2>4, <2>5 DEF BoundInv
<1> QED
  BY <1>1, <1>2, <1>3, <1>4, <1>5, <1>6, <1>7, <1>8, <1>9, <1>10, <1>11, <1>12
     DEF Next, WriterNext

(* The bounded backpressure of process_group: whatever the flusher does,    *)
(* pending_table_bytes stays below twice max_memtable_bytes and one group.  *)
THEOREM BoundedMemtable == Spec => []MemtableBounded
<1>1. BoundInv => MemtableBounded
  BY DEF BoundInv
<1> QED
  BY BoundInitially, BoundStep, <1>1, PTL DEF Spec
=============================================================================
