----------------------------- MODULE FlashDeal -----------------------------
(***************************************************************************)
(* The asynchronous order path of flash-deal: the API handler, the Redis   *)
(* stock gate, the queue token, the Kafka order topic, the consumer group  *)
(* and the MySQL order table, for one activity.                            *)
(*                                                                         *)
(* A request r is one pass through SeckillService.Seckill.  Everything the *)
(* request creates is named by r: its order, its queue token and the       *)
(* message it publishes.  UserOf[r] and TokenOf[r] are the user and the    *)
(* idempotency token it carries; two requests with the same pair are one   *)
(* client retry that the middleware let through.  IdOf[r] is the order id  *)
(* nextID gives it, which another request may have been given too: the     *)
(* making of ids is modelled in SyncSale.                                  *)
(*                                                                         *)
(* One partition is modelled: the producer hashes by user, so orders that  *)
(* can touch the same row or token share a partition.                      *)
(***************************************************************************)
EXTENDS Naturals, Integers, Sequences, FiniteSets

CONSTANTS
    Requests,      \* order requests that reach the service
    Users,         \* buyers
    Tokens,        \* idempotency tokens
    UserOf,        \* [Requests -> Users]
    TokenOf,       \* [Requests -> Tokens], as the unique key compares them
    IdOf,          \* [Requests -> Int], the order ids
    Unstorable,    \* orders MySQL refuses whatever happens: a negative user id
    Shards,        \* databases that hold orders_0, 1 when nothing is sharded
    ShardOf,       \* [Users -> 1..Shards]
    Consumers,     \* members of the consumer group
    NoConsumer,    \* the partition has no owner
    Garbage,       \* a record of the order topic that is not an OrderMessage
    Total,         \* activity.TotalStock
    Limit,         \* activity.PerUserLimit
    MaxRetries,    \* retries of the handler before the DLQ: 3 in cmd/consumer
    MaxWarms,      \* bound: times an admin warms the stock
    MaxFaults,     \* bound: failed, duplicated or stale calls and crashes
    MaxStops,      \* bound: SIGTERMs sent to consumers
    MaxGarbage,    \* bound: such records
    KeysExpire     \* whether the activity outlives the Redis TTLs

ASSUME RequestAssumption ==
    /\ IsFiniteSet(Requests)
    /\ UserOf \in [Requests -> Users]
    /\ TokenOf \in [Requests -> Tokens]
    /\ IdOf \in [Requests -> Int]
    /\ Garbage \notin Requests

ASSUME ShardAssumption ==
    /\ Shards \in Nat \ {0}
    /\ ShardOf \in [Users -> 1..Shards]

\* What MySQL has against an order is its user or its idempotency token.
ASSUME UnstorableAssumption ==
    /\ Unstorable \subseteq Requests
    /\ \A r \in Unstorable, s \in Requests :
          UserOf[r] = UserOf[s] /\ TokenOf[r] = TokenOf[s] => s \in Unstorable

ASSUME GroupAssumption == NoConsumer \notin Consumers

ASSUME NumberAssumption ==
    /\ Total \in Nat
    /\ Limit \in Nat
    /\ MaxRetries \in Nat
    /\ MaxWarms \in Nat
    /\ MaxFaults \in Nat
    /\ MaxStops \in Nat
    /\ MaxGarbage \in Nat
    /\ KeysExpire \in BOOLEAN

VARIABLES
    phase,      \* the activity: not created, or where the clock is in its window
    warms,      \* times Warm has succeeded; the stock's current generation
    stock,      \* Redis stock:{activity}, NoKey when the key is absent
    userBuy,    \* Redis user_buy:{activity}:{user}; an absent key reads 0
    queue,      \* Redis queue:{token}, one token per request
    log,        \* the Kafka order topic
    committed,  \* the group's committed offset: messages before it are done with
    dlq,        \* messages in the DLQ topic
    rows        \* orders in MySQL, each named by its request

VARIABLES
    pc,         \* where each request is in Seckill
    resp,       \* the outcome the client was given
    sold,       \* history: every unit the Lua script took, and for whom
    taken       \* history: units the script took for each request

VARIABLES
    owner,      \* the group member the partition is assigned to
    cpc,        \* where each consumer is in Run
    off,        \* how many messages of the log each consumer has fetched
    att,        \* the attempt each consumer is on
    stopping,   \* consumers whose context is cancelled
    faults,     \* faults so far
    stops       \* SIGTERMs so far

shopVars  == <<phase, warms, stock, userBuy>>
apiVars   == <<pc, resp, sold, taken>>
unitVars  == <<stock, userBuy, sold, taken>>
storeVars == <<queue, log, dlq, rows>>
memberVars == <<owner, off, stopping>>
groupVars == <<owner, cpc, off, att, stopping, committed>>
vars == <<shopVars, storeVars, apiVars, groupVars, faults, stops>>

NoKey == -1

Phases    == {"absent", "before", "open", "over"}
Steps     == {"fetch", "deduct", "token", "produce", "done"}
Refusals  == {"not_warmed", "sold_out", "user_limit"}
Outcomes  == {"none", "not_found", "not_started", "ended", "internal", "queued"}
                 \cup Refusals
\* What GET /v1/order/by-token tells apart.
QueueStates == {"absent", "queued", "success", "failed"}
HandlerSteps == {"insert", "set", "mark", "dlq", "commit"}
PoisonSteps == {"reject", "skip"}
Busy == HandlerSteps \cup PoisonSteps
Records == Requests \cup {Garbage}

Fault == faults < MaxFaults /\ faults' = faults + 1

(***************************************************************************)
(* The MySQL order tables, one in each shard.  uk_idem makes (activity,    *)
(* user, token) unique and the primary key makes the order id unique.      *)
(* MySQL reports either clash as error 1062, and the code does not tell    *)
(* them apart.                                                             *)
(***************************************************************************)
SameOrder(r, s) == UserOf[r] = UserOf[s] /\ TokenOf[r] = TokenOf[s]
SameId(r, s) == IdOf[r] = IdOf[s] /\ ShardOf[UserOf[r]] = ShardOf[UserOf[s]]

HasRow(r) == \E s \in rows : SameOrder(r, s)
IdTaken(r) == \E s \in rows : SameId(r, s)
IsDuplicateKey(r) == HasRow(r) \/ IdTaken(r)

(***************************************************************************)
(* The Lua script.                                                         *)
(***************************************************************************)
LuaAdmits(r) ==
    /\ stock # NoKey
    /\ stock >= 1
    /\ userBuy[UserOf[r]] + 1 =< Limit

LuaRefuses(r, why) ==
    \/ why = "not_warmed" /\ stock = NoKey
    \/ why = "sold_out"   /\ stock # NoKey /\ stock < 1
    \/ why = "user_limit" /\ stock >= 1 /\ userBuy[UserOf[r]] + 1 > Limit

LuaTakes(r) ==
    /\ stock' = stock - 1
    /\ userBuy' = [userBuy EXCEPT ![UserOf[r]] = @ + 1]
    /\ sold' = sold \cup {[req |-> r, nth |-> taken[r] + 1, warm |-> warms]}
    /\ taken' = [taken EXCEPT ![r] = @ + 1]

-----------------------------------------------------------------------------
Init ==
    /\ phase = "absent" /\ warms = 0 /\ stock = NoKey
    /\ userBuy = [u \in Users |-> 0]
    /\ queue = [r \in Requests |-> "absent"]
    /\ log = << >> /\ committed = 0 /\ dlq = {} /\ rows = {}
    /\ pc = [r \in Requests |-> "fetch"]
    /\ resp = [r \in Requests |-> "none"]
    /\ sold = {} /\ taken = [r \in Requests |-> 0]
    /\ owner = NoConsumer
    /\ cpc = [c \in Consumers |-> "poll"]
    /\ off = [c \in Consumers |-> 0]
    /\ att = [c \in Consumers |-> 0]
    /\ stopping = {} /\ faults = 0 /\ stops = 0

(***************************************************************************)
(* The admin and the clock.                                                *)
(***************************************************************************)

\* POST /admin/activities: the activity row exists from now on.  Its window
\* may already be open.
CreateActivity ==
    /\ phase = "absent"
    /\ phase' \in {"before", "open"}
    /\ UNCHANGED <<warms, stock, userBuy, queue>>

\* Slip: the warm-up adds to what is left (INCRBY) instead of setting it.
WarmAdds ==
    /\ phase # "absent"
    /\ warms < MaxWarms
    /\ stock' = Total + (IF stock = NoKey THEN 0 ELSE stock)
    /\ warms' = warms + 1
    /\ UNCHANGED <<phase, userBuy, queue>>

\* POST /admin/activities/:id/warm overwrites stock:{id} with TotalStock,
\* whatever has been sold.  It leaves the user_buy keys alone.  A SET that the
\* Redis client sends again after a lost reply counts as one more Warm.
Warm ==
    /\ phase # "absent"
    /\ warms < MaxWarms
    /\ stock' = Total
    /\ warms' = warms + 1
    /\ UNCHANGED <<phase, userBuy, queue>>

\* The clock reaches StartAt, then EndAt.
Tick ==
    /\ \/ phase = "before" /\ phase' = "open"
       \/ phase = "open" /\ phase' = "over"
    /\ UNCHANGED <<warms, stock, userBuy, queue>>

\* stock:{id} lives 24h from the last Warm.
ExpireStock ==
    /\ KeysExpire
    /\ stock # NoKey
    /\ stock' = NoKey
    /\ UNCHANGED <<phase, warms, userBuy, queue>>

\* Slip: user_buy is given a shorter life than the stock key.
UserBuyShortLived(u) == userBuy[u] > 0

\* user_buy lives 24h from the user's last purchase, so it outlives the stock
\* that purchase was taken from, which lives 24h from an earlier Warm.
UserBuyMayExpire(u) ==
    \/ stock = NoKey
    \/ \A d \in sold : UserOf[d.req] = u => d.warm < warms

ExpireUserBuy(u) ==
    /\ KeysExpire
    /\ userBuy[u] > 0
    /\ UserBuyMayExpire(u)
    /\ userBuy' = [userBuy EXCEPT ![u] = 0]
    /\ UNCHANGED <<phase, warms, stock, queue>>

\* A queue token lives 10 minutes once queued and an hour once resolved.
ExpireQueueToken(r) ==
    /\ KeysExpire
    /\ queue[r] # "absent"
    /\ queue' = [queue EXCEPT ![r] = "absent"]
    /\ UNCHANGED <<phase, warms, stock, userBuy>>

(***************************************************************************)
(* The API: SeckillService.Seckill, one request at a time.                 *)
(***************************************************************************)

Answer(r, outcome) ==
    /\ pc' = [pc EXCEPT ![r] = "done"]
    /\ resp' = [resp EXCEPT ![r] = outcome]

\* GetByID and the window check.  The clock may move before the deduction.
FetchActivity(r) ==
    /\ pc[r] = "fetch"
    /\ \/ phase = "absent" /\ Answer(r, "not_found")
       \/ phase = "before" /\ Answer(r, "not_started")
       \/ phase = "over" /\ Answer(r, "ended")
       \/ phase = "open" /\ pc' = [pc EXCEPT ![r] = "deduct"] /\ UNCHANGED resp
    /\ UNCHANGED <<unitVars, queue, log, faults>>

\* The script took a unit and the reply arrived.
DeductOk(r) ==
    /\ pc[r] = "deduct"
    /\ LuaAdmits(r)
    /\ LuaTakes(r)
    /\ pc' = [pc EXCEPT ![r] = "token"]
    /\ UNCHANGED <<queue, log, resp, faults>>

\* Slip: the reply -1 is not told from a remaining stock.
DeductRefusedLax(r) ==
    /\ pc[r] = "deduct"
    /\ \/ \E why \in Refusals \ {"sold_out"} : LuaRefuses(r, why) /\ Answer(r, why)
       \/ /\ LuaRefuses(r, "sold_out")
          /\ pc' = [pc EXCEPT ![r] = "token"]
          /\ UNCHANGED resp
    /\ UNCHANGED <<unitVars, queue, log, faults>>

\* The script returned -1, -2 or -3, which takes nothing.
DeductRefused(r) ==
    /\ pc[r] = "deduct"
    /\ \E why \in Refusals : LuaRefuses(r, why) /\ Answer(r, why)
    /\ UNCHANGED <<unitVars, queue, log, faults>>

\* The script took a unit and the reply was lost.  The Redis client either
\* runs the script again or gives up, and Seckill answers Internal.
DeductLostReply(r) ==
    /\ pc[r] = "deduct"
    /\ LuaAdmits(r)
    /\ Fault
    /\ LuaTakes(r)
    /\ Answer(r, "internal") \/ UNCHANGED <<pc, resp>>
    /\ UNCHANGED <<queue, log>>

\* Reading the activity or running the script failed with no effect.
ReadFails(r) ==
    /\ pc[r] \in {"fetch", "deduct"}
    /\ Fault
    /\ Answer(r, "internal")
    /\ UNCHANGED <<unitVars, queue, log>>

\* QueueService.New: SET queue:{token} queued, before the message is sent.
NewToken(r) ==
    /\ pc[r] = "token"
    /\ queue' = [queue EXCEPT ![r] = "queued"]
    /\ pc' = [pc EXCEPT ![r] = "produce"]
    /\ UNCHANGED <<unitVars, log, resp, faults>>

\* New failed: the order id serves as the token, and no key is written.  (Two
\* requests with one id would share that token; here each keeps its own.)
FallbackToken(r) ==
    /\ pc[r] = "token"
    /\ Fault
    /\ pc' = [pc EXCEPT ![r] = "produce"]
    /\ UNCHANGED <<unitVars, queue, log, resp>>

\* Slip: an asynchronous Writer, which does not wait for the brokers.
ProduceAsync(r) ==
    /\ pc[r] = "produce"
    /\ log' \in {log, Append(log, r)}
    /\ Answer(r, "queued")
    /\ UNCHANGED <<unitVars, queue, faults>>

\* The brokers acknowledged the message.
Produce(r) ==
    /\ pc[r] = "produce"
    /\ log' = Append(log, r)
    /\ Answer(r, "queued")
    /\ UNCHANGED <<unitVars, queue, faults>>

\* A write the Writer retried although the brokers had stored it.
ProduceTwice(r) ==
    /\ pc[r] = "produce"
    /\ Fault
    /\ log' = log \o <<r, r>>
    /\ Answer(r, "queued")
    /\ UNCHANGED <<unitVars, queue>>

\* Slip: the unit is given back although the message may be stored.
ProduceFailsRefunds(r) ==
    /\ pc[r] = "produce"
    /\ Fault
    /\ log' \in {log, Append(log, r)}
    /\ stock' = stock + 1
    /\ Answer(r, "internal")
    /\ UNCHANGED <<userBuy, queue, sold, taken>>

\* SendOrder failed or timed out, and the message may be stored all the same.
\* The unit is not given back.
ProduceFails(r) ==
    /\ pc[r] = "produce"
    /\ Fault
    /\ log' \in {log, Append(log, r)}
    /\ Answer(r, "internal")
    /\ UNCHANGED <<unitVars, queue>>

\* An API process dies with the requests it was serving.
ApiCrash ==
    /\ Fault
    /\ \E lost \in SUBSET {r \in Requests : pc[r] \in {"deduct", "token", "produce"}} :
          /\ lost # {}
          /\ pc' = [r \in Requests |-> IF r \in lost THEN "done" ELSE pc[r]]
    /\ UNCHANGED <<shopVars, storeVars, resp, sold, taken, groupVars, stops>>

(***************************************************************************)
(* The consumer group: Consumer.Run with OrderMaterializer.Handle.         *)
(***************************************************************************)

Message(c) == log[off[c]]

Goto(c, step) == cpc' = [cpc EXCEPT ![c] = step]

\* What a failed call costs: nothing once the context is cancelled, for then
\* every call fails.
CallFails(c) == IF c \in stopping THEN UNCHANGED faults ELSE Fault

\* Slip: the reader starts at the end of the log (LastOffset).
AssignAtEnd(c) ==
    /\ cpc[c] = "poll"
    /\ c \notin stopping
    /\ owner # c
    /\ IF owner = NoConsumer THEN UNCHANGED faults ELSE Fault
    /\ owner' = c
    /\ off' = [off EXCEPT ![c] = Len(log)]
    /\ UNCHANGED <<shopVars, storeVars, apiVars, cpc, att, stopping, committed, stops>>

\* The member gets the partition and resumes from the committed offset: it
\* has just started, or the group rebalanced away from a live owner, which
\* goes on with the message it has in hand.
Assign(c) ==
    /\ cpc[c] = "poll"
    /\ c \notin stopping
    /\ owner # c
    /\ IF owner = NoConsumer THEN UNCHANGED faults ELSE Fault
    /\ owner' = c
    /\ off' = [off EXCEPT ![c] = committed]
    /\ UNCHANGED <<shopVars, storeVars, apiVars, cpc, att, stopping, committed, stops>>

\* Somebody else writes to the order topic what no version of the API sends.
PublishGarbage ==
    /\ Cardinality({i \in 1..Len(log) : log[i] = Garbage}) < MaxGarbage
    /\ log' = Append(log, Garbage)
    /\ UNCHANGED <<shopVars, queue, dlq, rows, apiVars, groupVars, faults, stops>>

\* UnmarshalOrderMessage decides what becomes of a record.
FirstStep(m) == IF m = Garbage THEN "reject" ELSE "insert"

\* Slip: ReadMessage, which commits the message it returns.
FetchAndCommit(c) ==
    /\ cpc[c] = "poll"
    /\ c \notin stopping
    /\ owner = c
    /\ off[c] < Len(log)
    /\ off' = [off EXCEPT ![c] = @ + 1]
    /\ att' = [att EXCEPT ![c] = 0]
    /\ committed' = off[c] + 1
    /\ Goto(c, FirstStep(log[off[c] + 1]))
    /\ UNCHANGED <<queue, dlq, rows, owner, stopping, faults>>

\* Slip: the handler marks the token queued when it picks the message up.
FetchMarksQueued(c) ==
    /\ cpc[c] = "poll"
    /\ c \notin stopping
    /\ owner = c
    /\ off[c] < Len(log)
    /\ off' = [off EXCEPT ![c] = @ + 1]
    /\ att' = [att EXCEPT ![c] = 0]
    /\ queue' = [queue EXCEPT ![log[off[c] + 1]] = "queued"]
    /\ Goto(c, FirstStep(log[off[c] + 1]))
    /\ UNCHANGED <<dlq, rows, owner, stopping, committed, faults>>

\* FetchMessage moves the reader on without committing; what it returns parses
\* or not.
Fetch(c) ==
    /\ cpc[c] = "poll"
    /\ c \notin stopping
    /\ owner = c
    /\ off[c] < Len(log)
    /\ off' = [off EXCEPT ![c] = @ + 1]
    /\ att' = [att EXCEPT ![c] = 0]
    /\ Goto(c, FirstStep(log[off[c] + 1]))
    /\ UNCHANGED <<queue, dlq, rows, owner, stopping, committed, faults>>

\* The DLQ callback, for a record that does not parse: it marks no token, and
\* sends on only a record whose order id could be read, which may fail.
Reject(c) ==
    /\ cpc[c] = "reject"
    /\ dlq' \in {dlq, dlq \cup {Garbage}}
    /\ Goto(c, "skip")
    /\ UNCHANGED <<queue, rows, memberVars, att, committed, faults>>

\* The row is written, or one of the two keys reports a duplicate, which counts
\* as success.
InsertRow(c) ==
    /\ Message(c) \notin Unstorable
    /\ rows' = IF IsDuplicateKey(Message(c)) THEN rows ELSE rows \cup {Message(c)}

\* Slip: a duplicate returns early and leaves the token alone.
InsertSkipsDuplicate(c) ==
    /\ cpc[c] = "insert"
    /\ c \notin stopping
    /\ InsertRow(c)
    /\ Goto(c, IF IsDuplicateKey(Message(c)) THEN "commit" ELSE "set")
    /\ UNCHANGED <<queue, dlq, memberVars, att, committed, faults>>

Insert(c) ==
    /\ cpc[c] = "insert"
    /\ c \notin stopping
    /\ InsertRow(c)
    /\ Goto(c, "set")
    /\ UNCHANGED <<queue, dlq, memberVars, att, committed, faults>>

\* Slip: one attempt too many.
MayRetryOnceMore(c) == att[c] =< MaxRetries

\* After a failed attempt: the next one, or the DLQ callback.
MayRetry(c) == att[c] < MaxRetries

NextAttempt(c) ==
    IF MayRetry(c) THEN att' = [att EXCEPT ![c] = @ + 1] /\ Goto(c, "insert")
                   ELSE UNCHANGED att /\ Goto(c, "mark")

\* Slip: a failed insert is logged and the token resolved all the same.
InsertFailsIgnored(c) ==
    /\ cpc[c] = "insert"
    /\ CallFails(c)
    /\ InsertRow(c) \/ UNCHANGED rows
    /\ Goto(c, "set")
    /\ UNCHANGED <<queue, dlq, memberVars, att, committed>>

\* Slip: the attempt on which the retries run out counts as handled.
InsertFailsGivesUp(c) ==
    /\ cpc[c] = "insert"
    /\ \/ Message(c) \in Unstorable /\ UNCHANGED <<rows, faults>>
       \/ CallFails(c) /\ (InsertRow(c) \/ UNCHANGED rows)
    /\ IF MayRetry(c) THEN NextAttempt(c) ELSE Goto(c, "commit") /\ UNCHANGED att
    /\ UNCHANGED <<queue, dlq, memberVars, committed>>

\* MySQL refuses the row on every attempt; or the insert failed, timed out after
\* it took effect, or met an open breaker.
InsertFails(c) ==
    /\ cpc[c] = "insert"
    /\ \/ Message(c) \in Unstorable /\ UNCHANGED <<rows, faults>>
       \/ CallFails(c) /\ (InsertRow(c) \/ UNCHANGED rows)
    /\ NextAttempt(c)
    /\ UNCHANGED <<queue, dlq, memberVars, committed>>

\* SET queue:{token} success:{order id}.
Resolve(c, state) == queue' = [queue EXCEPT ![Message(c)] = state]

SetToken(c) ==
    /\ cpc[c] = "set"
    /\ c \notin stopping
    /\ Resolve(c, "success")
    /\ Goto(c, "commit")
    /\ UNCHANGED <<dlq, rows, memberVars, att, committed, faults>>

SetTokenFails(c) ==
    /\ cpc[c] = "set"
    /\ CallFails(c)
    /\ Resolve(c, "success") \/ UNCHANGED queue
    /\ NextAttempt(c)
    /\ UNCHANGED <<dlq, rows, memberVars, committed>>

\* MarkFailed: SET queue:{token} failed:...; its error is dropped.
MarkFailed(c) ==
    /\ cpc[c] = "mark"
    /\ \/ c \notin stopping /\ Resolve(c, "failed") /\ UNCHANGED faults
       \/ CallFails(c) /\ (Resolve(c, "failed") \/ UNCHANGED queue)
    /\ Goto(c, "dlq")
    /\ UNCHANGED <<dlq, rows, memberVars, att, committed>>

\* dlqProd.SendOrder; its error is dropped.
SendDLQ(c) ==
    /\ cpc[c] = "dlq"
    /\ \/ c \notin stopping /\ dlq' = dlq \cup {Message(c)} /\ UNCHANGED faults
       \/ CallFails(c) /\ dlq' \in {dlq, dlq \cup {Message(c)}}
    /\ Goto(c, "commit")
    /\ UNCHANGED <<queue, rows, memberVars, att, committed>>

\* The process of c is gone, or has left the group, and c is idle.
Leave(c) ==
    /\ Goto(c, "poll")
    /\ owner' = IF owner = c THEN NoConsumer ELSE owner
    /\ stopping' = stopping \ {c}

\* CommitMessages stores the offset of this message, even for a member that
\* no longer owns the partition.
Commit(c) ==
    /\ cpc[c] = "commit"
    /\ c \notin stopping
    /\ committed' = off[c]
    /\ Goto(c, "poll")
    /\ UNCHANGED <<queue, dlq, rows, memberVars, att, faults>>

\* A failed commit, which may have been stored, ends Run and the process.
CommitFails(c) ==
    /\ cpc[c] = "commit"
    /\ CallFails(c)
    /\ committed' \in {committed, off[c]}
    /\ Leave(c)
    /\ UNCHANGED <<queue, dlq, rows, off, att>>

\* Slip: a record that does not parse ends Run, uncommitted.
SkipByExit(c) ==
    /\ cpc[c] = "skip"
    /\ Leave(c)
    /\ UNCHANGED <<queue, dlq, rows, off, att, committed, faults>>

\* CommitMessages for a record that does not parse: its error is dropped and the
\* loop goes on, or returns if the context is cancelled.
Skip(c) ==
    /\ cpc[c] = "skip"
    /\ \/ c \notin stopping /\ committed' = off[c] /\ UNCHANGED faults
       \/ CallFails(c) /\ committed' \in {committed, off[c]}
    /\ \/ c \in stopping /\ Leave(c)
       \/ c \notin stopping /\ Goto(c, "poll") /\ UNCHANGED <<owner, stopping>>
    /\ UNCHANGED <<queue, dlq, rows, off, att>>

Running(c) == owner = c \/ cpc[c] \in Busy

\* The process dies: log.Fatalf, a kill, a fetch error.
Crash(c) ==
    /\ Running(c)
    /\ Fault
    /\ Leave(c)
    /\ UNCHANGED <<shopVars, storeVars, apiVars, off, att, committed, stops>>

\* SIGTERM cancels the context.  An idle Run returns; a busy one still takes
\* its message through the attempts, the DLQ callback and the commit.
Stop(c) ==
    /\ Running(c)
    /\ c \notin stopping
    /\ stops < MaxStops
    /\ stops' = stops + 1
    /\ \/ cpc[c] = "poll" /\ Leave(c)
       \/ /\ cpc[c] \in Busy
          /\ stopping' = stopping \cup {c}
          /\ UNCHANGED <<cpc, owner>>
    /\ UNCHANGED <<shopVars, storeVars, apiVars, off, att, committed, faults>>

-----------------------------------------------------------------------------
\* The admin, the clock and the Redis TTLs.
Shop ==
    /\ \/ CreateActivity \/ Warm \/ Tick \/ ExpireStock
       \/ \E u \in Users : ExpireUserBuy(u)
       \/ \E r \in Requests : ExpireQueueToken(r)
    /\ UNCHANGED <<log, dlq, rows, apiVars, groupVars, faults, stops>>

\* Everything the API does for r, failures included.
Serve(r) ==
    /\ \/ FetchActivity(r) \/ ReadFails(r)
       \/ DeductOk(r) \/ DeductRefused(r) \/ DeductLostReply(r)
       \/ NewToken(r) \/ FallbackToken(r)
       \/ Produce(r) \/ ProduceTwice(r) \/ ProduceFails(r)
    /\ UNCHANGED <<phase, warms, dlq, rows, groupVars, stops>>

\* One step of the Run loop of c, failures included.
Consume(c) ==
    /\ \/ Fetch(c) \/ Reject(c) \/ Skip(c)
       \/ Insert(c) \/ InsertFails(c)
       \/ SetToken(c) \/ SetTokenFails(c)
       \/ MarkFailed(c) \/ SendDLQ(c)
       \/ Commit(c) \/ CommitFails(c)
    /\ UNCHANGED <<shopVars, apiVars, log, stops>>

Next ==
    \/ Shop
    \/ ApiCrash \/ PublishGarbage
    \/ \E r \in Requests : Serve(r)
    \/ \E c \in Consumers : Assign(c) \/ Consume(c) \/ Crash(c) \/ Stop(c)

Spec == Init /\ [][Next]_vars

\* A request once received is served, a consumer process is restarted and
\* keeps running; faults are bounded by MaxFaults.
Fairness ==
    /\ \A r \in Requests : WF_vars(Serve(r))
    /\ \A c \in Consumers : WF_vars(owner = NoConsumer /\ Assign(c))
    /\ \A c \in Consumers : WF_vars(Consume(c))

FairSpec == Spec /\ Fairness

-----------------------------------------------------------------------------
(***************************************************************************)
(* Properties.                                                             *)
(***************************************************************************)

TypeApi ==
    /\ pc \in [Requests -> Steps]
    /\ resp \in [Requests -> Outcomes]
    /\ taken \in [Requests -> Nat]
    /\ sold \subseteq [req : Requests, nth : Nat, warm : Nat]

TypeShop ==
    /\ phase \in Phases
    /\ warms \in 0..MaxWarms
    /\ stock \in {NoKey} \cup 0..Total
    /\ userBuy \in [Users -> 0..Limit]

TypeStores ==
    /\ queue \in [Requests -> QueueStates]
    /\ log \in Seq(Records)
    /\ dlq \subseteq Records
    /\ rows \subseteq Requests
    /\ committed \in 0..Len(log)

TypeGroup ==
    /\ owner \in Consumers \cup {NoConsumer}
    /\ cpc \in [Consumers -> {"poll"} \cup Busy]
    /\ off \in [Consumers -> 0..Len(log)]
    /\ att \in [Consumers -> 0..MaxRetries]
    /\ stopping \subseteq Consumers
    /\ \A c \in Consumers : cpc[c] \in Busy => off[c] >= 1
    /\ \A c \in Consumers : cpc[c] \in HandlerSteps => Message(c) \in Requests

\* Every variable has its type; offsets stay within the log, the stock within
\* 0..TotalStock, the attempt within the retries.
TypeOK ==
    /\ TypeApi /\ TypeShop /\ TypeStores /\ TypeGroup
    /\ faults \in 0..MaxFaults
    /\ stops \in 0..MaxStops

\* Requests the Lua script took a unit for, and requests with a message.
Paid == {r \in Requests : taken[r] > 0}
InLog(r) == \E i \in 1..Len(log) : log[i] = r

Live == IF stock = NoKey THEN 0 ELSE stock
SoldSince(w) == {d \in sold : d.warm = w}
SoldTo(u, w) == {d \in SoldSince(w) : UserOf[d.req] = u}

\* While stock:{id} lives, the units left and the units the script has taken
\* since the last Warm add up to TotalStock, lost replies included.
StockConservation ==
    stock # NoKey => stock + Cardinality(SoldSince(warms)) = Total

\* MySQL never holds more orders than the stock that was warmed, whatever is
\* retried, redelivered, duplicated or crashes.
NoOversell == Cardinality(rows) =< Total * warms

\* Of one warmed stock, no user is sold more than PerUserLimit units although
\* user_buy expires: it outlives the stock it was bought from.
PerUserLimit ==
    stock # NoKey => \A u \in Users : Cardinality(SoldTo(u, warms)) =< Limit

\* A 202 is sent only for a request whose unit was taken and whose message is
\* in the topic.
AckedIsLogged ==
    \A r \in Requests : resp[r] = "queued" => r \in Paid /\ InLog(r)

\* Whatever is in the topic, the DLQ or MySQL, or has a live queue token, paid
\* for it in the Lua script.
NothingUnpaid ==
    \A r \in Requests :
        (r \in rows \/ r \in dlq \/ queue[r] # "absent" \/ InLog(r)) => r \in Paid

\* A token reads success only after the insert was answered: the order of this
\* (user, idempotency token) has a row, or another order of the shard has its
\* id.  In the second case the code says success and there is no order.
SuccessHasRow ==
    \A r \in Requests : queue[r] = "success" => IsDuplicateKey(r)

\* What is left of a message that is done with: a row, a row whose id it has, or
\* a DLQ entry.
Accounted(r) == IsDuplicateKey(r) \/ r \in dlq

\* The faults it takes to lose the order of r: those of its attempts, if MySQL
\* would take it at all, and of its DLQ write.
LossCost(r) == IF r \in Unstorable THEN 1 ELSE MaxRetries + 2
Affordable == {r \in Requests : LossCost(r) =< faults}

\* Of the first n messages each is accounted for or is one of L.
AccountedTo(n, L) ==
    \A i \in 1..n : log[i] \in Requests => Accounted(log[i]) \/ log[i] \in L

\* With no SIGTERM, a message is committed away without a row and without a DLQ
\* entry only if its id is another order's, or if every attempt failed and the
\* DLQ write failed too.
LossNeedsExhaustion == stops = 0 => AccountedTo(committed, Affordable)

(***************************************************************************)
(* The inductive invariant behind the properties above and below.          *)
(***************************************************************************)

\* Each unit is recorded once, no lot is overdrawn, and there are no more paid
\* requests than units taken.
Ledger ==
    /\ IsFiniteSet(sold)
    /\ \A d \in sold : d.nth =< taken[d.req] /\ d.warm =< warms
    /\ Cardinality(sold) + Live =< Total * warms
    /\ Cardinality(Paid) =< Cardinality(sold)

\* user_buy counts at least what the user took of the stock on sale.
UserLedger ==
    stock # NoKey =>
        \A u \in Users : Cardinality(SoldTo(u, warms)) =< userBuy[u]

\* A request on its way to Kafka has its unit.
PaidFirst ==
    \A r \in Requests : pc[r] \in {"token", "produce"} => r \in Paid

\* A request is answered once, when it leaves Seckill.
AnsweredOnce ==
    \A r \in Requests : pc[r] # "done" => resp[r] = "none"

\* A consumer about to resolve a token has seen the row, or the id taken.
RowBeforeToken ==
    \A c \in Consumers : cpc[c] = "set" => IsDuplicateKey(Message(c))

\* A token is written before its message is sent, and resolved after.
TokenFirst ==
    \A r \in Requests :
        /\ InLog(r) => pc[r] = "done"
        /\ queue[r] \in {"success", "failed"} => InLog(r)

\* Only a record that does not parse is committed without an attempt.
PoisonIsGarbage ==
    \A c \in Consumers : cpc[c] \in PoisonSteps => Message(c) = Garbage

\* With no SIGTERM every attempt after the first has cost a fault, and giving
\* up has cost one more than there are retries, unless MySQL refuses the row.
AttemptsCost ==
    stops = 0 =>
        /\ stopping = {}
        /\ \A c \in Consumers :
              cpc[c] \in HandlerSteps /\ Message(c) \notin Unstorable =>
                  /\ cpc[c] \in {"insert", "set"} => att[c] =< faults
                  /\ cpc[c] \in {"mark", "dlq"} => MaxRetries < faults

\* What a consumer has behind it is accounted for, but for the messages in L:
\* those before the one in its hands, that one when it is about to commit, and
\* all it has fetched while it has the partition and waits for more.
Trail(L) ==
    /\ AccountedTo(committed, L)
    /\ \A c \in Consumers :
          /\ cpc[c] \in Busy => AccountedTo(off[c] - 1, L)
          /\ cpc[c] = "commit" => Accounted(Message(c)) \/ Message(c) \in L
          /\ owner = c /\ cpc[c] = "poll" => AccountedTo(off[c], L)

TrailKept == stops = 0 => Trail(Affordable)

\* The ledger covers what was sold, the per-user counts cover what each user
\* bought, payment comes before publication, the token before the message, the
\* row before the token's success; and attempts run out before a message does.
Bookkeeping ==
    /\ Ledger /\ UserLedger
    /\ PaidFirst /\ AnsweredOnce /\ TokenFirst
    /\ RowBeforeToken /\ SuccessHasRow
    /\ PoisonIsGarbage /\ AttemptsCost /\ TrailKept

\* A resolved token never reads queued again.
TokenNeverRequeued ==
    [][\A r \in Requests :
          queue[r] \in {"success", "failed"} => queue'[r] # "queued"]_vars

\* With no more faults than there are retries and no SIGTERM, the insert of every
\* order with a 202 is answered: with its row, or with a clash.  An order that
\* MySQL refuses ends in the DLQ, if its one write there does not fail.
AckedIsMaterialised ==
    \A r \in Requests :
        resp[r] = "queued" ~> IF r \in Unstorable THEN r \in dlq \/ faults > 0
                                                  ELSE IsDuplicateKey(r)

\* Under the same conditions a queued token of an accepted order is resolved.
\* That of an order MySQL refuses may be left behind, for the one write that
\* would mark it failed is not repeated.
TokenResolves ==
    \A r \in Requests :
        (resp[r] = "queued" /\ queue[r] = "queued") ~>
            (queue[r] # "queued" \/ (r \in Unstorable /\ faults > 0))

=============================================================================
