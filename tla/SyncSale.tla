------------------------------ MODULE SyncSale ------------------------------
(***************************************************************************)
(* The synchronous mode (lua_stock and kafka_order off): one pass through  *)
(* SeckillService.Seckill takes the unit in MySQL, makes an order id and   *)
(* writes the order row before it answers.                                 *)
(*                                                                         *)
(* Several API processes serve requests at once.  A request r is served by *)
(* ProcOf[r]; nextID of a process reads the machine's clock and then adds  *)
(* one to the process's counter, two steps that other requests may come    *)
(* between.                                                                *)
(***************************************************************************)
EXTENDS ShardKey, FiniteSets

CONSTANTS
    Requests,    \* requests that reach the service
    UserOf,      \* [Requests -> IntRange], the user id of each
    TokenOf,     \* the idempotency token of each
    Processes,   \* API processes
    ProcOf,      \* [Requests -> Processes]
    Total,       \* activity.TotalStock
    DBCount,     \* configured shards
    MaxClock,    \* bound: how far the clock moves
    MaxFaults    \* bound: failed calls, crashes and clocks set back

ASSUME SyncAssumption ==
    /\ IsFiniteSet(Requests)
    /\ UserOf \in [Requests -> IntRange]
    /\ ProcOf \in [Requests -> Processes]
    /\ Total \in Nat /\ DBCount \in 0..MaxInt
    /\ MaxClock \in Nat /\ MaxFaults \in Nat

VARIABLES
    phase,     \* the activity: not created, or where the clock is in its window
    stock,     \* activities.total_stock
    clock,     \* UnixNano
    counter,   \* idCounter of each process
    queue,     \* requests with a live queue:{token} key, which reads queued
    rows,      \* orders: the request of each row, the row's shard and id

    pc,        \* where each request is in Seckill
    resp,      \* the outcome the client was given
    read,      \* the clock nextID read for each request
    id,        \* the order id made for each request, 0 for none
    older,     \* history: requests of the process that had an id by then
    stepped,   \* history: the clock was set back
    paid,      \* history: requests the UPDATE took a unit for
    faults

idVars == <<clock, counter, read, id, older, stepped>>
sqlVars == <<stock, paid>>
vars == <<phase, sqlVars, queue, rows, pc, resp, idVars, faults>>

Steps == {"fetch", "update", "select", "clock", "count", "token", "insert",
          "reply", "duplicate", "done"}
Outcomes == {"none", "not_found", "not_started", "ended", "sold_out",
             "internal", "duplicate", "queued"}

Fault == faults < MaxFaults /\ faults' = faults + 1

Goto(r, step) == pc' = [pc EXCEPT ![r] = step]
Answer(r, outcome) == Goto(r, "done") /\ resp' = [resp EXCEPT ![r] = outcome]

(***************************************************************************)
(* The order tables: orders_0 of each shard, or of the one database.       *)
(***************************************************************************)
Shard(r) == DBIndex(UserOf[r], DBCount)
Row(r) == [req |-> r, shard |-> Shard(r), id |-> id[r]]

SameOrder(r, s) == UserOf[r] = UserOf[s] /\ TokenOf[r] = TokenOf[s]

\* Slip: no UNIQUE KEY uk_idem; only the primary key is there.
RefusedByKeyOnly(r) == \E o \in rows : o.shard = Shard(r) /\ o.id = id[r]

\* MySQL reports 1062 for the primary key and for uk_idem alike.
IsDuplicateKey(r) ==
    \E o \in rows :
        /\ o.shard = Shard(r)
        /\ o.id = id[r] \/ SameOrder(o.req, r)

\* GetByID of a user's order.
GetByID(user, orderID) ==
    {o.req : o \in {p \in rows : /\ p.shard = DBIndex(user, DBCount)
                                 /\ UserOf[p.req] = user /\ p.id = orderID}}

-----------------------------------------------------------------------------
Init ==
    /\ phase = "absent" /\ stock = 0 /\ clock = 1
    /\ counter = [p \in Processes |-> 0]
    /\ queue = {} /\ rows = {}
    /\ pc = [r \in Requests |-> "fetch"]
    /\ resp = [r \in Requests |-> "none"]
    /\ read = [r \in Requests |-> 0] /\ id = [r \in Requests |-> 0]
    /\ older = [r \in Requests |-> {}]
    /\ stepped = FALSE
    /\ paid = {} /\ faults = 0

\* POST /admin/activities, with its stock.  Its window may already be open.
CreateActivity ==
    /\ phase = "absent"
    /\ phase' \in {"before", "open"}
    /\ stock' = Total
    /\ UNCHANGED <<paid, queue, rows, pc, resp, idVars, faults>>

\* Nanoseconds go by: other requests may or may not see the same instant.
Tick ==
    /\ clock < MaxClock
    /\ clock' = clock + 1
    /\ phase' \in {phase} \cup (CASE phase = "before" -> {"open"}
                                  [] phase = "open" -> {"over"}
                                  [] OTHER -> {})
    /\ UNCHANGED <<sqlVars, queue, rows, pc, resp, counter, read, id, older, stepped, faults>>

\* UnixNano is the time of day, and the machine's clock may be set back, over an
\* edge of the window too.
StepBack ==
    /\ clock > 1
    /\ Fault
    /\ clock' = clock - 1 /\ stepped' = TRUE
    /\ phase' \in {phase} \cup (CASE phase = "open" -> {"before"}
                                  [] phase = "over" -> {"open"}
                                  [] OTHER -> {})
    /\ UNCHANGED <<sqlVars, queue, rows, pc, resp, counter, read, id, older>>

\* GetByID of the activity and the window check.
FetchActivity(r) ==
    /\ pc[r] = "fetch"
    /\ \/ phase = "absent" /\ Answer(r, "not_found")
       \/ phase = "before" /\ Answer(r, "not_started")
       \/ phase = "over" /\ Answer(r, "ended")
       \/ phase = "open" /\ Goto(r, "update") /\ UNCHANGED resp
    /\ UNCHANGED <<sqlVars, queue, rows, idVars, faults>>

TakeUnit(r) == stock' = stock - 1 /\ paid' = paid \cup {r}

\* Slip: the stock is read first and written back later.
UpdateUnchecked(r) ==
    /\ pc[r] = "update"
    /\ \/ TakeUnit(r) /\ Goto(r, "select") /\ UNCHANGED resp
       \/ stock = 0 /\ Answer(r, "sold_out") /\ UNCHANGED sqlVars
    /\ UNCHANGED <<queue, rows, idVars, faults>>

\* UPDATE ... WHERE total_stock >= 1: one row, or none and sold out.  The
\* per-user limit plays no part.
UpdateStock(r) ==
    /\ pc[r] = "update"
    /\ \/ stock >= 1 /\ TakeUnit(r) /\ Goto(r, "select") /\ UNCHANGED resp
       \/ stock = 0 /\ Answer(r, "sold_out") /\ UNCHANGED sqlVars
    /\ UNCHANGED <<queue, rows, idVars, faults>>

\* The SELECT of what is left; the value is for the answer only.
SelectStock(r) ==
    /\ pc[r] = "select"
    /\ Goto(r, "clock")
    /\ UNCHANGED <<sqlVars, queue, rows, resp, idVars, faults>>

\* A statement failed; an UPDATE whose reply was lost took its unit.
SqlFails(r) ==
    /\ pc[r] \in {"fetch", "update", "select"}
    /\ Fault
    /\ \/ UNCHANGED sqlVars
       \/ pc[r] = "update" /\ stock >= 1 /\ TakeUnit(r)
    /\ Answer(r, "internal")
    /\ UNCHANGED <<queue, rows, idVars>>

Numbered(p) == {s \in Requests : ProcOf[s] = p /\ id[s] # 0}

\* nextID: time.Now().UnixNano() ...
ReadClock(r) ==
    /\ pc[r] = "clock"
    /\ read' = [read EXCEPT ![r] = clock]
    /\ older' = [older EXCEPT ![r] = Numbered(ProcOf[r])]
    /\ Goto(r, "count")
    /\ UNCHANGED <<sqlVars, queue, rows, resp, clock, counter, id, stepped, faults>>

\* Slip: the counter is not part of the id.
NextIDByClock(r) ==
    /\ pc[r] = "count"
    /\ id' = [id EXCEPT ![r] = read[r]]
    /\ Goto(r, "token")
    /\ UNCHANGED <<sqlVars, queue, rows, resp, clock, counter, read, older, stepped, faults>>

\* ... + atomic.AddInt64(&idCounter, 1).
NextID(r) ==
    LET n == counter[ProcOf[r]] + 1 IN
    /\ pc[r] = "count"
    /\ counter' = [counter EXCEPT ![ProcOf[r]] = n]
    /\ id' = [id EXCEPT ![r] = read[r] + n]
    /\ Goto(r, "token")
    /\ UNCHANGED <<sqlVars, queue, rows, resp, clock, read, older, stepped, faults>>

\* QueueService.New sets the token, or fails and the order id stands in.
NewToken(r) ==
    /\ pc[r] = "token"
    /\ \/ queue' = queue \cup {r} /\ UNCHANGED faults
       \/ Fault /\ UNCHANGED queue
    /\ Goto(r, "insert")
    /\ UNCHANGED <<sqlVars, rows, resp, idVars>>

\* Slip: the row goes to the table's index instead of the database's.
InsertAstray(r) ==
    /\ pc[r] = "insert"
    /\ UserOf[r] >= 0
    /\ ~IsDuplicateKey(r)
    /\ rows' = rows \cup {[Row(r) EXCEPT !.shard = TableIndex(UserOf[r], DBCount, DBCount)]}
    /\ Goto(r, "reply")
    /\ UNCHANGED <<sqlVars, queue, resp, idVars, faults>>

\* Create wrote the row.
Insert(r) ==
    /\ pc[r] = "insert"
    /\ UserOf[r] >= 0
    /\ ~IsDuplicateKey(r)
    /\ rows' = rows \cup {Row(r)}
    /\ Goto(r, "reply")
    /\ UNCHANGED <<sqlVars, queue, resp, idVars, faults>>

\* Create returned ErrOrderDuplicate; the unit stays taken.
InsertDuplicate(r) ==
    /\ pc[r] = "insert"
    /\ UserOf[r] >= 0
    /\ IsDuplicateKey(r)
    /\ Goto(r, "duplicate")
    /\ UNCHANGED <<sqlVars, queue, rows, resp, idVars, faults>>

\* Create failed or timed out, and the row may be there; the unit stays taken.
\* orders_0.user_id is unsigned: the row of a negative user is always refused,
\* though the request was let in.
InsertFails(r) ==
    /\ pc[r] = "insert"
    /\ \/ UserOf[r] < 0 /\ UNCHANGED <<rows, faults>>
       \/ Fault /\ UNCHANGED rows
       \/ Fault /\ UserOf[r] >= 0 /\ ~IsDuplicateKey(r) /\ rows' = rows \cup {Row(r)}
    /\ Answer(r, "internal")
    /\ UNCHANGED <<sqlVars, queue, idVars>>

\* 202, or 409 IDEMPOTENT_REPLAY.
Reply(r) ==
    /\ \/ pc[r] = "reply" /\ Answer(r, "queued")
       \/ pc[r] = "duplicate" /\ Answer(r, "duplicate")
    /\ UNCHANGED <<sqlVars, queue, rows, idVars, faults>>

\* A process dies and its requests with it, those it has not begun included.
\* What starts in its place is another process, with a counter of its own.
Crash(p) ==
    LET lost == {r \in Requests : ProcOf[r] = p /\ pc[r] # "done"} IN
    /\ Fault
    /\ lost # {}
    /\ pc' = [r \in Requests |-> IF r \in lost THEN "done" ELSE pc[r]]
    /\ UNCHANGED <<phase, sqlVars, queue, rows, resp, idVars>>

Serve(r) ==
    /\ \/ FetchActivity(r) \/ UpdateStock(r) \/ SelectStock(r) \/ SqlFails(r)
       \/ ReadClock(r) \/ NextID(r) \/ NewToken(r)
       \/ Insert(r) \/ InsertDuplicate(r) \/ InsertFails(r) \/ Reply(r)
    /\ UNCHANGED phase

Next ==
    \/ CreateActivity \/ Tick \/ StepBack
    \/ \E p \in Processes : Crash(p)
    \/ \E r \in Requests : Serve(r)

Spec == Init /\ [][Next]_vars

-----------------------------------------------------------------------------
TypeOK ==
    /\ phase \in {"absent", "before", "open", "over"}
    /\ stock \in 0..Total /\ clock \in 1..(MaxClock + 1) /\ faults \in 0..MaxFaults
    /\ counter \in [Processes -> Nat]
    /\ queue \subseteq Requests /\ paid \subseteq Requests
    /\ rows \subseteq [req : Requests, shard : Nat, id : Nat]
    /\ pc \in [Requests -> Steps]
    /\ resp \in [Requests -> Outcomes]
    /\ read \in [Requests -> Nat] /\ id \in [Requests -> Nat]
    /\ older \in [Requests -> SUBSET Requests]
    /\ stepped \in BOOLEAN

\* Neither nextID call had returned when the other read the clock.
Overlap(r, s) == r \notin older[s] /\ s \notin older[r]

\* Every unit the UPDATE takes is missing from total_stock and none is taken
\* that is not there, although UPDATE and SELECT are two statements and either
\* may fail after it took effect.
UnitsAddUp == phase # "absent" => stock >= 0 /\ stock + Cardinality(paid) = Total

\* An order the client was promised is the one row that GetByID finds in the
\* user's shard under the id it was given.
ReadYourOrder ==
    \A r \in Requests : resp[r] = "queued" => GetByID(UserOf[r], id[r]) = {r}

\* Create always has a database to go to, for negative user ids too: no request
\* panics at r.shards[idx] with its unit taken.
ShardExists ==
    \A r \in Requests : pc[r] = "insert" => Shard(r) = 0 \/ Shard(r) \in 1..(DBCount - 1)

\* While the clock is never set back, an order id is above every id its process
\* made before its nextID began; only overlapping calls can agree.
IdsIncrease ==
    ~stepped => \A r \in Requests : id[r] # 0 => \A s \in older[r] : id[s] < id[r]

\* A 409 is sent only when the buyer's token has an order, or when its id was
\* made a second time: by another process, by an overlapping call, or by a clock
\* that was set back.
DuplicateHasCause ==
    \A r \in Requests : resp[r] = "duplicate" =>
        \E o \in rows :
            \/ SameOrder(o.req, r)
            \/ /\ o.id = id[r] /\ o.shard = Shard(r)
               /\ ProcOf[o.req] # ProcOf[r] \/ Overlap(o.req, r) \/ stepped

\* "ErrOrderDuplicate -- UNIQUE (activity_id, user_id, idempotency_token) hit"
\* (order_repo.go:18): a 409 answers a buyer whose token has an order.
DuplicateMeansOrder ==
    \A r \in Requests : resp[r] = "duplicate" => \E o \in rows : SameOrder(o.req, r)

(***************************************************************************)
(* This mode implements Sale too: a unit is paid by the UPDATE, an order is *)
(* placed by Create, and a promise is a 202.                               *)
(***************************************************************************)
S == INSTANCE Sale WITH
        offered  <- IF phase = "absent" THEN 0 ELSE Total,
        spent    <- Cardinality(paid),
        promised <- {r \in Requests : resp[r] = "queued"},
        orders   <- {o.req : o \in rows}

\* Every step of the synchronous path is a step of the sale or changes nothing
\* it speaks of, id clashes and failed statements included.
ImplementsSale == S!SaleSpec

=============================================================================
