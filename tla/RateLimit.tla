----------------------------- MODULE RateLimit -----------------------------
(***************************************************************************)
(* The rate limiter: a token bucket in each API process and a counter in   *)
(* Redis, ratelimit:user:{X-User-Id}.  The calls are HTTP requests of one  *)
(* user; those that carry no header are not counted.                       *)
(*                                                                         *)
(* Time is counted in ticks, Window of them to the minute.  INCR and       *)
(* EXPIRE are two commands, and other calls and ticks come between them.   *)
(***************************************************************************)
EXTENDS HttpCalls

CONSTANTS
    Anonymous,    \* calls without the header X-User-Id
    Elsewhere,    \* calls to other routes, which have the limiter too
    PerUser,      \* rate_limit.per_user_per_minute
    QPS,          \* tokens a bucket gains in a tick
    Burst,        \* tokens a bucket holds
    Window        \* ticks in the minute the counter lives

ASSUME LimitAssumption ==
    /\ Anonymous \subseteq Calls
    /\ Elsewhere \subseteq Calls
    /\ PerUser \in Nat \ {0} /\ QPS \in Nat /\ Burst \in Nat
    /\ Window \in Nat \ {0}

VARIABLES
    at,       \* where each call is in the limiter
    bucket,   \* tokens in the bucket of each process
    counter,  \* the Redis counter; an absent key reads 0
    ttl,      \* ticks the counter has left, NoTTL when it never expires
    age,      \* history: ticks since the counter admitted a call, up to Window
    stranded  \* history: calls that made the counter and lost its EXPIRE

limitVars == <<at, bucket, counter, ttl, age, stranded>>

NoTTL == -1
Places == {"arrive", "incr", "expire", "passed", "limited", "gone"}

LimitInit ==
    /\ at = [c \in Calls |-> "arrive"]
    /\ bucket = [p \in Processes |-> Burst]
    /\ counter = 0 /\ ttl = NoTTL
    /\ age = [c \in Calls |-> Window]
    /\ stranded = {}

Move(c, place) == at' = [at EXCEPT ![c] = place]

\* Slip: one request more than the limit.
AdmitsOneMore(cur) == cur =< PerUser + 1

\* The counter's verdict: on with the chain, or 429 per_user.
Admits(cur) == cur =< PerUser

Judge(c, cur) == Move(c, IF Admits(cur) THEN "passed" ELSE "limited")

\* global.Allow: 429 global, or a token and the header decides.
Allow(c) ==
    /\ at[c] = "arrive"
    /\ \/ bucket[ProcOf[c]] = 0 /\ Move(c, "limited") /\ UNCHANGED bucket
       \/ /\ bucket[ProcOf[c]] > 0
          /\ bucket' = [bucket EXCEPT ![ProcOf[c]] = @ - 1]
          /\ Move(c, IF c \in Anonymous THEN "passed" ELSE "incr")
    /\ UNCHANGED <<counter, ttl, age, stranded, faults>>

\* INCR keeps the TTL the key has.  Only the call that made the key goes on to
\* EXPIRE it.
Incr(c) ==
    /\ at[c] = "incr"
    /\ counter' = counter + 1
    /\ IF counter' = 1 THEN Move(c, "expire") ELSE Judge(c, counter')
    /\ age' = IF Admits(counter') THEN [age EXCEPT ![c] = 0] ELSE age
    /\ UNCHANGED <<bucket, ttl, stranded, faults>>

\* INCR worked and its reply was lost: the Redis client sends it again, or
\* gives up and the call passes.
IncrLostReply(c) ==
    /\ at[c] = "incr"
    /\ Fault
    /\ counter' = counter + 1
    /\ Move(c, "passed") \/ UNCHANGED at
    /\ stranded' = IF counter = 0 THEN stranded \cup {c} ELSE stranded
    /\ UNCHANGED <<bucket, ttl, age>>

\* INCR failed with no effect: the call passes.
IncrFails(c) ==
    /\ at[c] = "incr"
    /\ Fault
    /\ Move(c, "passed")
    /\ UNCHANGED <<bucket, counter, ttl, age, stranded>>

\* Slip: EXPIRE is sent to the key before it is there.
ExpireEarly(c) ==
    /\ at[c] = "expire"
    /\ Judge(c, 1)
    /\ UNCHANGED <<bucket, counter, ttl, age, stranded, faults>>

\* EXPIRE gives the counter its minute.
SetTTL(c) ==
    /\ at[c] = "expire"
    /\ ttl' = Window
    /\ Judge(c, 1)
    /\ UNCHANGED <<bucket, counter, age, stranded, faults>>

\* EXPIRE failed, and its error is dropped.
SetTTLFails(c) ==
    /\ at[c] = "expire"
    /\ Fault
    /\ Judge(c, 1)
    /\ stranded' = stranded \cup {c}
    /\ UNCHANGED <<bucket, counter, ttl, age>>

\* Time goes by: buckets fill, and the counter goes when its minute is over.
Tick ==
    /\ bucket' = [p \in Processes |->
                     IF bucket[p] + QPS > Burst THEN Burst ELSE bucket[p] + QPS]
    /\ ttl' = IF ttl = 1 \/ ttl = NoTTL THEN NoTTL ELSE ttl - 1
    /\ counter' = IF ttl = 1 THEN 0 ELSE counter
    /\ age' = [c \in Calls |-> IF age[c] < Window THEN age[c] + 1 ELSE Window]
    /\ UNCHANGED <<at, stranded>>

\* In the limiter or past it; of one that has its answer nothing more is asked.
InProcess(p) == {c \in Calls : ProcOf[c] = p /\ at[c] \in {"incr", "expire", "passed"}}

\* A process dies with the calls it has; the next one has a full bucket.
Restart(p) ==
    /\ at' = [c \in Calls |-> IF c \in InProcess(p) THEN "gone" ELSE at[c]]
    /\ bucket' = [bucket EXCEPT ![p] = Burst]
    /\ stranded' = stranded \cup {c \in InProcess(p) : at[c] = "expire"}
    /\ UNCHANGED <<counter, ttl, age>>

\* The limiter around one call.
Limit(c) ==
    \/ Allow(c) \/ Incr(c) \/ IncrLostReply(c) \/ IncrFails(c)
    \/ SetTTL(c) \/ SetTTLFails(c)

-----------------------------------------------------------------------------
LimitTypeOK ==
    /\ at \in [Calls -> Places]
    /\ bucket \in [Processes -> 0..Burst]
    /\ counter \in 0..(Cardinality(Calls) + MaxFaults)
    /\ ttl \in {NoTTL} \cup 1..Window
    /\ age \in [Calls -> 0..Window]
    /\ stranded \subseteq Calls

\* In any stretch of a minute the counter admits fewer than twice the limit,
\* whatever fails: a minute can touch two windows, and the call that opens a
\* window is at least a minute older than the next window.
MinuteBound == Cardinality({c \in Calls : age[c] < Window}) =< 2 * PerUser - 1

\* A counter without a TTL has one call to blame: the one that made it, which has
\* still to send EXPIRE, or has lost it.  In the second case it stays, and with
\* it the user is locked out.
CounterKept ==
    /\ (counter > 0 /\ ttl = NoTTL) <=> (\E c \in Calls : at[c] = "expire" \/ c \in stranded)
    /\ Cardinality(stranded) =< 1

=============================================================================
