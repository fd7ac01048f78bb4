------------------------------ MODULE Breaker ------------------------------
(***************************************************************************)
(* The circuit breaker of each consumer process, over the order path.  The *)
(* insert of an order runs inside the breaker, which sees the error of     *)
(* Create: a duplicate key is a failure to it although Handle takes it for *)
(* a success.  An open breaker refuses the insert, and the refusal is one  *)
(* failed attempt.                                                         *)
(*                                                                         *)
(* Run handles one message at a time, so no two calls are in one breaker.  *)
(* A process that starts has a breaker of its own, closed and empty.       *)
(***************************************************************************)
EXTENDS FlashDeal

CONSTANTS
    Volume,      \* calls before ReadyToTrip looks at the ratio: 5
    Ratio,       \* breaker.failure_ratio, in percent
    MaxProbes    \* breaker.max_requests

ASSUME BreakerAssumption ==
    Volume \in Nat /\ Ratio \in Int /\ MaxProbes \in Nat \ {0}

VARIABLE cb      \* the breaker of each consumer process

Closed == [state |-> "closed", requests |-> 0, failures |-> 0]
Open == [state |-> "open", requests |-> 0, failures |-> 0]
HalfOpen == [state |-> "half-open", requests |-> 0, failures |-> 0]

Threshold == IF Ratio =< 0 THEN 50 ELSE Ratio

\* Slip: a first failure is a ratio of one.
TripsAtOnce(b) == 100 * b.failures >= Threshold * b.requests

ReadyToTrip(b) ==
    /\ b.requests >= Volume
    /\ 100 * b.failures >= Threshold * b.requests

Allows(b) == b.state # "open"

\* Slip: one probe too many has to succeed.
SucceedLate(b) ==
    IF b.state = "half-open" /\ b.requests + 1 > MaxProbes
    THEN Closed
    ELSE [b EXCEPT !.requests = @ + 1]

\* Every probe of a half-open breaker has to succeed.
Succeed(b) ==
    IF b.state = "half-open" /\ b.requests + 1 >= MaxProbes
    THEN Closed
    ELSE [b EXCEPT !.requests = @ + 1]

Fail(b) ==
    LET called == [b EXCEPT !.requests = @ + 1]
        counted == [called EXCEPT !.failures = @ + 1]
    IN  IF b.state = "half-open" \/ ReadyToTrip(counted) THEN Open ELSE counted

-----------------------------------------------------------------------------
BreakerInit == Init /\ cb = [c \in Consumers |-> Closed]

\* Interval is over and the counts start anew, or Timeout is over and probes
\* are let through.
TimePasses(c) ==
    /\ cb' = [cb EXCEPT ![c] = CASE @.state = "closed" -> Closed
                                 [] @.state = "open" -> HalfOpen
                                 [] OTHER -> @]
    /\ UNCHANGED vars

restVars == <<shopVars, apiVars, log, stops>>

\* Do: the insert is let through and its error is counted.
Do(c) ==
    /\ Allows(cb[c])
    /\ \/ Insert(c) /\ cb' = [cb EXCEPT ![c] = IF IsDuplicateKey(Message(c))
                                                 THEN Fail(@) ELSE Succeed(@)]
       \/ InsertFails(c) /\ cb' = [cb EXCEPT ![c] = Fail(@)]
    /\ UNCHANGED restVars

\* Slip: the refusal is taken for a success of the handler.
RefusedSkips(c) ==
    /\ cpc[c] = "insert"
    /\ ~Allows(cb[c])
    /\ Goto(c, "commit")
    /\ UNCHANGED <<queue, dlq, rows, memberVars, att, committed, faults, restVars, cb>>

\* Do: ErrOpenState.
Refused(c) ==
    /\ cpc[c] = "insert"
    /\ ~Allows(cb[c])
    /\ NextAttempt(c)
    /\ UNCHANGED <<queue, dlq, rows, memberVars, committed, faults, restVars, cb>>

\* The rest of Run, in a process that goes on.
Around(c) ==
    /\ \/ Fetch(c) \/ Reject(c) \/ SetToken(c) \/ SetTokenFails(c)
       \/ MarkFailed(c) \/ SendDLQ(c) \/ Commit(c)
       \/ Skip(c) /\ c \notin stopping
    /\ UNCHANGED <<restVars, cb>>

\* The process ends and another takes its place.
Renew(c) ==
    /\ \/ Crash(c)
       \/ Stop(c) /\ cpc[c] = "poll"
       \/ (CommitFails(c) \/ (Skip(c) /\ c \in stopping)) /\ UNCHANGED restVars
    /\ cb' = [cb EXCEPT ![c] = Closed]

BreakerNext ==
    \/ (Shop \/ ApiCrash \/ PublishGarbage) /\ UNCHANGED cb
    \/ \E r \in Requests : Serve(r) /\ UNCHANGED cb
    \/ \E c \in Consumers :
          \/ Assign(c) /\ UNCHANGED cb
          \/ Stop(c) /\ cpc[c] # "poll" /\ UNCHANGED cb
          \/ TimePasses(c) \/ Do(c) \/ Refused(c) \/ Around(c) \/ Renew(c)

BreakerSpec == BreakerInit /\ [][BreakerNext]_<<vars, cb>>

-----------------------------------------------------------------------------
BreakerTypeOK ==
    /\ TypeOK
    /\ cb \in [Consumers -> [state : {"closed", "open", "half-open"},
                             requests : Nat, failures : Nat]]
    /\ \A c \in Consumers :
          /\ cb[c].state # "closed" => cb[c].failures = 0
          /\ cb[c].state = "half-open" => cb[c].requests < MaxProbes

\* The attempts <<i, k>> at the first n messages that fail in MySQL itself: every
\* one at an order it refuses, and the first at an order whose key or id came up
\* before.
Clashes(r, s) == s \notin Unstorable /\ (SameOrder(r, s) \/ SameId(r, s))

AttemptFails(i, k) ==
    /\ log[i] \in Requests
    /\ \/ log[i] \in Unstorable
       \/ k = 0 /\ \E j \in 1..(i - 1) : log[j] \in Requests /\ Clashes(log[i], log[j])

FailingCalls(n) == {p \in (1..n) \X (0..MaxRetries) : AttemptFails(p[1], p[2])}

\* Orders MySQL would take that are in the DLQ and have no row.
Unplaced == {r \in Requests \ Unstorable : r \in dlq /\ ~HasRow(r)}

\* While every call is answered, an order MySQL would take is dead-lettered only
\* after so many clashes and refused rows that these alone tripped a breaker.
DeadLetterHasCause ==
    faults = 0 /\ stops = 0 /\ Unplaced # {} =>
        100 * Cardinality(FailingCalls(Len(log))) >= Threshold * Volume

\* Orders committed away with nothing left of them.
Lost == {r \in Requests : ~Accounted(r) /\ \E i \in 1..committed : log[i] = r}

\* An open breaker lets messages run into the DLQ as fast as they are fetched,
\* so no failed insert is needed to lose an order; but each order lost takes a
\* failed DLQ write of its own.
NothingSlipsAway == stops = 0 => Cardinality(Lost) =< faults

\* "Idempotent: duplicate insert -> treat as success (the row already exists)"
\* (order_materializer.go:40-41): while nothing fails, every order that leaves
\* the topic has its row.
HealthyIsPlaced == faults = 0 /\ stops = 0 => Unplaced = {}

=============================================================================
