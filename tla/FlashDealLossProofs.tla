------------------------ MODULE FlashDealLossProofs ------------------------
(***************************************************************************)
(* What becomes of a message: its token is resolved once and for all, and  *)
(* with no SIGTERM it is not committed away without a row, a clash or a    *)
(* dead letter before every attempt and the DLQ write have failed.         *)
(***************************************************************************)
EXTENDS FlashDealOrderProofs

(***************************************************************************)
(* A token is written before its message is sent.                          *)
(***************************************************************************)

LEMMA TokenNext ==
    ASSUME TypeOK, OrderInv, TokenFirst, [Next]_vars
    PROVE  /\ TokenFirst'
           /\ \A r \in Requests :
                 queue[r] \in {"success", "failed"} => queue'[r] # "queued"
<1> DEFINE Kept == \A q \in Requests :
                      /\ InLog(q)' => pc'[q] = "done"
                      /\ queue'[q] \in {"success", "failed"} => InLog(q)'
                      /\ queue[q] \in {"success", "failed"} => queue'[q] # "queued"
<1> SUFFICES Kept
    BY DEF TokenFirst
<1>1. ASSUME NEW r \in Requests, Serve(r) PROVE Kept
    <2>1. /\ log' \in {log, Append(log, r), log \o <<r, r>>}
          /\ \A q \in Requests \ {r} : pc'[q] = pc[q] /\ queue'[q] = queue[q]
          /\ pc[r] # "done"
          /\ log' # log => pc'[r] = "done"
          /\ queue'[r] # queue[r] => queue'[r] = "queued"
        BY <1>1, ServeSteps
    <2>2. /\ \A q \in Requests : InLog(q) => InLog(q)'
          /\ \A q \in Requests : InLog(q)' => InLog(q) \/ q = r
        BY <2>1, LogKeeps DEF Records
    <2>3. log' = log => \A q \in Requests : InLog(q)' = InLog(q)
        BY DEF InLog
    <2>4. ~InLog(r) /\ queue[r] \notin {"success", "failed"}
        BY <2>1 DEF TokenFirst
    <2>5. InLog(r)' => pc'[r] = "done"
        BY <2>1, <2>3, <2>4
    <2>6. QED
        BY <2>1, <2>2, <2>4, <2>5 DEF TokenFirst
<1>2. ASSUME NEW c \in Consumers, Consume(c) PROVE Kept
    <2>1. /\ UNCHANGED <<log, pc>>
          /\ \/ UNCHANGED queue
             \/ /\ cpc[c] \in HandlerSteps
                /\ queue' = queue \/ Resolve(c, "failed") \/ Resolve(c, "success")
        BY <1>2, ConsumeSteps
    <2>2. \A q \in Requests : InLog(q)' = InLog(q)
        BY <2>1 DEF InLog
    <2>3. CASE UNCHANGED queue
        BY <2>1, <2>2, <2>3 DEF TokenFirst
    <2>4. CASE /\ cpc[c] \in HandlerSteps
               /\ Resolve(c, "failed") \/ Resolve(c, "success")
        <3>1. Message(c) \in Requests /\ InLog(Message(c))
            BY <2>4, MessageType DEF InLog, Message
        <3>2. \A q \in Requests : \/ queue'[q] = queue[q]
                                  \/ q = Message(c) /\ queue'[q] \in {"failed", "success"}
            BY <2>4 DEF Resolve, TypeOK, TypeStores
        <3>3. QED
            BY <2>1, <2>2, <3>1, <3>2 DEF TokenFirst
    <2>5. QED
        BY <2>1, <2>3, <2>4
<1>3. CASE Shop
    <2>1. UNCHANGED <<log, pc>>
        BY <1>3 DEF Shop, apiVars
    <2>2. \A q \in Requests : queue'[q] \in {queue[q], "absent"}
        BY <1>3 DEF Shop, CreateActivity, Warm, Tick, ExpireStock, ExpireUserBuy,
                    ExpireQueueToken, TypeOK, TypeStores
    <2>3. QED
        BY <2>1, <2>2 DEF TokenFirst, InLog
<1>4. CASE PublishGarbage
    <2>1. log' = Append(log, Garbage) /\ UNCHANGED <<queue, pc>>
        BY <1>4 DEF PublishGarbage, apiVars
    <2>2. /\ \A q \in Requests : InLog(q) => InLog(q)'
          /\ \A q \in Requests : InLog(q)' => InLog(q) \/ q = Garbage
        BY <2>1, LogKeeps DEF Records
    <2>3. QED
        BY <2>1, <2>2, RequestAssumption DEF TokenFirst
<1>5. CASE ApiCrash
    <2>1. UNCHANGED <<queue, log>> /\ \A q \in Requests : pc'[q] \in {pc[q], "done"}
        BY <1>5 DEF ApiCrash, storeVars
    <2>2. QED
        BY <2>1 DEF TokenFirst, InLog
<1>6. ASSUME NEW c \in Consumers, Assign(c) \/ Crash(c) \/ Stop(c) PROVE Kept
    <2>1. UNCHANGED <<queue, log, pc>>
        BY <1>6 DEF Assign, Crash, Stop, storeVars, apiVars
    <2>2. QED
        BY <2>1 DEF TokenFirst, InLog
<1>7. CASE UNCHANGED vars
    <2>1. UNCHANGED <<queue, log, pc>>
        BY <1>7 DEF vars, storeVars, apiVars
    <2>2. QED
        BY <2>1 DEF TokenFirst, InLog
<1>8. QED
    BY <1>1, <1>2, <1>3, <1>4, <1>5, <1>6, <1>7 DEF Next

LEMMA TokenHolds == Spec => []TokenFirst
<1>1. Init => TokenFirst
    BY DEF Init, TokenFirst, InLog
<1>2. QED
    BY <1>1, TokenNext, Typing, OrderHolds, PTL DEF Spec

\* A verdict a poll has seen is not taken back: a token that reads success or
\* failed may expire but never reads queued again.
THEOREM TokenStaysResolved == Spec => TokenNeverRequeued
<1>1. TypeOK /\ OrderInv /\ TokenFirst /\ [Next]_vars =>
        [\A r \in Requests :
            queue[r] \in {"success", "failed"} => queue'[r] # "queued"]_vars
    BY TokenNext
<1>2. QED
    BY <1>1, TokenHolds, Typing, OrderHolds, PTL DEF Spec, TokenNeverRequeued

(***************************************************************************)
(* What a step leaves behind.                                              *)
(***************************************************************************)

\* Messages keep their offsets, orders and dead letters are not taken back.
TracesKept ==
    /\ \A i \in 1..Len(log) : i \in 1..Len(log') /\ log'[i] = log[i]
    /\ rows \subseteq rows' /\ dlq \subseteq dlq'

\* What was accounted for stays so.
LEMMA AccountsKept ==
    ASSUME TypeOK, TracesKept, NEW L
    PROVE  /\ \A r \in Requests : Accounted(r) => Accounted(r)'
           /\ \A n \in 0..Len(log) : AccountedTo(n, L) => AccountedTo(n, L)'
<1>1. \A r \in Requests : Accounted(r) => Accounted(r)'
    BY DEF TracesKept, Accounted, IsDuplicateKey, HasRow, IdTaken
<1>2. Len(log) \in Nat
    BY DEF TypeOK, TypeStores
<1>3. ASSUME NEW n \in 0..Len(log), AccountedTo(n, L) PROVE AccountedTo(n, L)'
    <2>1. \A i \in 1..n : i \in 1..Len(log)
        BY <1>2
    <2>2. QED
        BY <1>1, <1>3, <2>1 DEF TracesKept, AccountedTo
<1>4. QED
    BY <1>1, <1>3

\* With the message itself, everything before the next one.
LEMMA UpTo ==
    ASSUME NEW L, NEW n \in Nat \ {0}, AccountedTo(n - 1, L),
           log[n] \in Requests => Accounted(log[n]) \/ log[n] \in L
    PROVE  AccountedTo(n, L)
<1>1. \A i \in 1..n : i \in 1..(n - 1) \/ i = n
    OBVIOUS
<1>2. QED
    BY <1>1 DEF AccountedTo

\* A step of Run leaves what it has done.
LEMMA ConsumeKeeps ==
    ASSUME TypeOK, OrderInv, NEW c \in Consumers, Consume(c)
    PROVE  TracesKept /\ UNCHANGED log
<1>1. UNCHANGED log
    BY ConsumeSteps
<1>2. rows \subseteq rows'
    BY ConsumeSteps DEF InsertRow
<1>3. dlq \subseteq dlq'
    BY ConsumeSteps
<1>4. QED
    BY <1>1, <1>2, <1>3 DEF TracesKept

\* And costs at most one fault.
LEMMA ConsumeCounts ==
    ASSUME TypeOK, NEW c \in Consumers, Consume(c)
    PROVE  /\ stops' = stops /\ stopping' \subseteq stopping
           /\ faults \in Nat /\ faults' \in {faults, faults + 1}
BY NumberAssumption
   DEF TypeOK, Consume, Fetch, Reject, Skip, Insert, InsertFails, SetToken, SetTokenFails,
       MarkFailed, SendDLQ, Commit, CommitFails, CallFails, Fault, Leave, memberVars

\* Every other step leaves it too.
LEMMA NextKeeps == ASSUME TypeOK, OrderInv, [Next]_vars PROVE TracesKept
<1>1. ASSUME NEW r \in Requests, Serve(r) PROVE TracesKept
    <2>1. log' \in {log, Append(log, r), log \o <<r, r>>} /\ UNCHANGED <<dlq, rows>>
        BY <1>1, ServeSteps
    <2>2. QED
        BY <2>1, LogKeeps DEF TracesKept, Records
<1>2. CASE PublishGarbage
    <2>1. log' = Append(log, Garbage) /\ UNCHANGED <<dlq, rows>>
        BY <1>2 DEF PublishGarbage
    <2>2. QED
        BY <2>1, LogKeeps DEF TracesKept, Records
<1>3. CASE \E c \in Consumers : Consume(c)
    BY <1>3, ConsumeKeeps
<1>4. CASE \/ Shop \/ ApiCrash \/ UNCHANGED vars
           \/ \E c \in Consumers : Assign(c) \/ Crash(c) \/ Stop(c)
    <2>1. UNCHANGED <<log, dlq, rows>>
        BY <1>4 DEF Shop, ApiCrash, vars, storeVars, Assign, Crash, Stop
    <2>2. QED
        BY <2>1 DEF TracesKept
<1>5. QED
    BY <1>1, <1>2, <1>3, <1>4 DEF Next

\* A message in hand stays the same record while the topic grows.
LEMMA InHand ==
    ASSUME TypeOK, TracesKept, NEW c \in Consumers, cpc[c] \in Busy,
           off'[c] = off[c]
    PROVE  off[c] \in 1..Len(log) /\ Message(c)' = Message(c)
<1>1. off[c] \in 1..Len(log)
    BY DEF TypeOK, TypeGroup, TypeStores
<1>2. QED
    BY <1>1 DEF TracesKept, Message

\* Outside the Run loop a consumer changes course only when it dies, leaves or
\* gets the partition, and then it has nothing in hand.
LEMMA ElsewhereSteps ==
    ASSUME TypeOK, OrderInv, [Next]_vars, ~ \E c \in Consumers : Consume(c)
    PROVE  /\ committed' = committed
           /\ faults \in Nat /\ faults' \in Nat /\ faults' >= faults
           /\ stops \in Nat /\ stops' \in Nat /\ stops' >= stops
           /\ stops' = stops => stopping' \subseteq stopping
           /\ \A c \in Consumers :
                 /\ cpc'[c] = "poll" \/ (cpc'[c] = cpc[c] /\ off'[c] = off[c])
                 /\ att'[c] = att[c]
                 /\ owner' = c /\ cpc'[c] = "poll" =>
                       \/ off'[c] = committed
                       \/ owner = c /\ cpc[c] = "poll" /\ off'[c] = off[c]
<1> USE DEF TypeOK, TypeGroup
<1>1. faults \in Nat /\ stops \in Nat
    BY NumberAssumption
<1>2. CASE Shop \/ ApiCrash \/ PublishGarbage \/ UNCHANGED vars
    <2>1. UNCHANGED <<committed, stopping, stops, cpc, off, att, owner>>
        BY <1>2 DEF Shop, ApiCrash, PublishGarbage, vars, groupVars
    <2>2. UNCHANGED faults \/ Fault
        BY <1>2 DEF Shop, ApiCrash, PublishGarbage, vars
    <2>3. QED
        BY <1>1, <2>1, <2>2 DEF Fault
<1>3. ASSUME NEW r \in Requests, Serve(r)
      PROVE  UNCHANGED <<committed, stopping, stops, cpc, off, att, owner>> /\
             (UNCHANGED faults \/ Fault)
    BY <1>3 DEF Serve, groupVars, FetchActivity, ReadFails, DeductOk, DeductRefused,
                DeductLostReply, NewToken, FallbackToken, Produce, ProduceTwice, ProduceFails
<1>4. CASE \E r \in Requests : Serve(r)
    BY <1>1, <1>3, <1>4 DEF Fault
<1>5. ASSUME NEW c \in Consumers, Assign(c)
      PROVE  /\ UNCHANGED <<committed, stopping, stops, cpc, att>> /\ cpc[c] = "poll"
             /\ UNCHANGED faults \/ Fault
             /\ owner' = c /\ off'[c] = committed
             /\ \A d \in Consumers \ {c} : off'[d] = off[d]
    BY <1>5 DEF Assign
<1>6. CASE \E c \in Consumers : Assign(c)
    BY <1>1, <1>5, <1>6 DEF Fault
<1>7. ASSUME NEW c \in Consumers, Leave(c)
      PROVE  /\ stopping' \subseteq stopping
             /\ cpc'[c] = "poll" /\ owner' # c
             /\ \A d \in Consumers \ {c} : cpc'[d] = cpc[d] /\ (owner' = d => owner = d)
    BY <1>7, GroupAssumption DEF Leave, Goto
<1>8. CASE \E c \in Consumers : Crash(c)
    BY <1>1, <1>7, <1>8 DEF Crash, Fault
<1>9. ASSUME NEW c \in Consumers, Stop(c)
      PROVE  /\ UNCHANGED <<committed, off, att, faults>> /\ stops' = stops + 1
             /\ Leave(c) \/ UNCHANGED <<cpc, owner>>
    BY <1>9 DEF Stop
<1>10. CASE \E c \in Consumers : Stop(c)
    BY <1>1, <1>7, <1>9, <1>10
<1>11. QED
    BY <1>2, <1>4, <1>6, <1>8, <1>10 DEF Next

(***************************************************************************)
(* A message is committed away only with a trace.                          *)
(***************************************************************************)

LEMMA PoisonNext ==
    ASSUME TypeOK, OrderInv, PoisonIsGarbage, [Next]_vars
    PROVE  PoisonIsGarbage'
<1>1. TracesKept
    BY NextKeeps
<1>2. \A c \in Consumers : cpc[c] \in PoisonSteps /\ off'[c] = off[c] =>
                              Message(c)' = Garbage
    BY <1>1, InHand DEF PoisonIsGarbage, Busy
<1>3. CASE ~ \E c \in Consumers : Consume(c)
    <2>1. \A c \in Consumers : cpc'[c] \in PoisonSteps =>
                                  cpc[c] \in PoisonSteps /\ off'[c] = off[c]
        BY <1>3, ElsewhereSteps DEF PoisonSteps
    <2>2. QED
        BY <1>2, <2>1 DEF PoisonIsGarbage
<1>4. ASSUME NEW c \in Consumers, Consume(c) PROVE PoisonIsGarbage'
    <2>1. \A d \in Consumers \ {c} : cpc'[d] = cpc[d] /\ off'[d] = off[d]
        BY <1>4, ConsumeSteps
    <2>2. SUFFICES ASSUME cpc'[c] \in PoisonSteps PROVE Message(c)' = Garbage
        BY <1>2, <2>1 DEF PoisonIsGarbage
    <2>3. CASE Fetch(c)
        <3>1. off[c] + 1 \in 1..Len(log)
            BY <2>3 DEF Fetch, TypeOK, TypeGroup, TypeStores
        <3>2. log[off[c] + 1] = Garbage /\ off'[c] = off[c] + 1
            BY <2>2, <2>3 DEF Fetch, FirstStep, Goto, PoisonSteps, TypeOK, TypeGroup
        <3>3. UNCHANGED log
            BY <1>4, ConsumeKeeps
        <3>4. QED
            BY <3>2, <3>3 DEF Message
    <2>4. CASE Reject(c)
        BY <1>2, <2>4 DEF Reject, memberVars, PoisonSteps
    <2>5. CASE ~Fetch(c) /\ ~Reject(c)
        <3>1. \E x \in {"poll", "insert", "set", "mark", "dlq", "commit"} : Goto(c, x)
            BY <1>4, <2>5 DEF Consume, Skip, Insert, InsertFails, SetToken, SetTokenFails,
                              MarkFailed, SendDLQ, Commit, CommitFails, NextAttempt, Leave
        <3>2. QED
            BY <2>2, <3>1 DEF Goto, PoisonSteps, TypeOK, TypeGroup
    <2>6. QED
        BY <2>3, <2>4, <2>5
<1>5. QED
    BY <1>3, <1>4

\* An attempt after the first, and the DLQ callback, come after a failed call.
Costs(c) == /\ cpc[c] \in {"insert", "set"} => att[c] =< faults
            /\ cpc[c] \in {"mark", "dlq"} => MaxRetries < faults

LEMMA AttemptsNext ==
    ASSUME TypeOK, OrderInv, AttemptsCost, [Next]_vars
    PROVE  AttemptsCost'
<1> USE DEF TypeOK, TypeGroup
<1> SUFFICES ASSUME stops' = 0
             PROVE  /\ stopping' = {}
                    /\ \A c \in Consumers :
                          cpc'[c] \in HandlerSteps /\ Message(c)' \notin Unstorable => Costs(c)'
    BY DEF AttemptsCost, Costs
<1>0. TracesKept
    BY NextKeeps
<1>1. CASE ~ \E c \in Consumers : Consume(c)
    <2>1. /\ faults \in Nat /\ faults' \in Nat /\ faults' >= faults
          /\ stops \in Nat /\ stops' \in Nat /\ stops' >= stops
          /\ stops' = stops => stopping' \subseteq stopping
          /\ \A c \in Consumers :
                /\ cpc'[c] = "poll" \/ (cpc'[c] = cpc[c] /\ off'[c] = off[c])
                /\ att'[c] = att[c]
        BY <1>1, ElsewhereSteps
    <2>2. stops = 0 /\ stopping = {} /\ stopping' = {}
        BY <2>1 DEF AttemptsCost
    <2>3. ASSUME NEW c \in Consumers, cpc'[c] \in HandlerSteps, Message(c)' \notin Unstorable
          PROVE  Costs(c)'
        <3>1. cpc'[c] = cpc[c] /\ off'[c] = off[c] /\ att'[c] = att[c]
            BY <2>1, <2>3 DEF HandlerSteps
        <3>2. Message(c)' = Message(c)
            BY <1>0, <2>3, <3>1, InHand DEF Busy
        <3>3. Costs(c)
            BY <2>2, <2>3, <3>1, <3>2 DEF AttemptsCost, Costs
        <3>4. QED
            BY <2>1, <3>1, <3>3, NumberAssumption DEF Costs
    <2>4. QED
        BY <2>2, <2>3
<1>2. ASSUME NEW c \in Consumers, Consume(c)
      PROVE  /\ stopping' = {}
             /\ \A d \in Consumers :
                   cpc'[d] \in HandlerSteps /\ Message(d)' \notin Unstorable => Costs(d)'
    <2>1. /\ stops' = stops /\ stopping' \subseteq stopping
          /\ faults \in Nat /\ faults' \in Nat /\ faults' >= faults
        BY <1>2, ConsumeCounts
    <2>2. stopping = {} /\ stopping' = {} /\ MaxRetries \in Nat
        BY <2>1, NumberAssumption DEF AttemptsCost
    <2>3. ASSUME NEW d \in Consumers \ {c}, cpc'[d] \in HandlerSteps,
                 Message(d)' \notin Unstorable
          PROVE  Costs(d)'
        <3>1. cpc'[d] = cpc[d] /\ off'[d] = off[d]
            BY <1>2, ConsumeSteps
        <3>2. att'[d] = att[d]
            BY <1>2 DEF Consume, Fetch, Reject, Skip, Insert, InsertFails, SetToken,
               SetTokenFails, MarkFailed, SendDLQ, Commit, CommitFails, NextAttempt
        <3>3. Message(d)' = Message(d)
            BY <1>0, <2>3, <3>1, InHand DEF Busy
        <3>4. Costs(d)
            BY <2>1, <2>3, <3>1, <3>3 DEF AttemptsCost, Costs
        <3>5. QED
            BY <2>1, <3>1, <3>2, <3>4, NumberAssumption DEF Costs
    <2>4. ASSUME cpc'[c] \in HandlerSteps, Message(c)' \notin Unstorable PROVE Costs(c)'
        <3>1. CASE Fetch(c)
            BY <2>1, <2>2, <3>1 DEF Fetch, FirstStep, Goto, Costs
        <3>2. CASE ~Fetch(c)
            <4>1. off'[c] = off[c]
                BY <1>2, <3>2 DEF Consume, Reject, Skip, Insert, InsertFails, SetToken,
                   SetTokenFails, MarkFailed, SendDLQ, Commit, CommitFails, memberVars
            <4>2. cpc[c] \in HandlerSteps => Message(c) \notin Unstorable
                BY <1>0, <2>4, <4>1, InHand DEF Busy
            <4>3. cpc[c] \in HandlerSteps => Costs(c)
                BY <2>1, <4>2 DEF AttemptsCost, Costs
            <4>4. CASE InsertFails(c) \/ SetTokenFails(c)
                <5>1. Fault /\ cpc[c] \in {"insert", "set"} /\ NextAttempt(c)
                    BY <2>2, <4>2, <4>4 DEF InsertFails, SetTokenFails, CallFails, HandlerSteps
                <5>2. faults' = faults + 1 /\ att[c] =< faults /\ att[c] \in Nat
                    BY <4>3, <5>1, NumberAssumption DEF Fault, Costs, HandlerSteps
                <5>3. CASE MayRetry(c)
                    BY <2>1, <5>1, <5>2, <5>3 DEF NextAttempt, Goto, Costs
                <5>4. CASE ~MayRetry(c)
                    BY <2>1, <2>2, <5>1, <5>2, <5>4 DEF NextAttempt, Goto, MayRetry, Costs
                <5>5. QED
                    BY <5>3, <5>4
            <4>5. CASE Insert(c) \/ SetToken(c) \/ MarkFailed(c)
                <5>1. /\ UNCHANGED att
                      /\ \/ cpc[c] = "insert" /\ Goto(c, "set")
                         \/ cpc[c] = "set" /\ Goto(c, "commit")
                         \/ cpc[c] = "mark" /\ Goto(c, "dlq")
                    BY <4>5 DEF Insert, SetToken, MarkFailed
                <5>2. att[c] \in Nat /\ Costs(c)
                    BY <4>3, <5>1, NumberAssumption DEF HandlerSteps
                <5>3. QED
                    BY <2>1, <2>2, <5>1, <5>2 DEF Goto, Costs
            <4>6. CASE Reject(c) \/ Skip(c) \/ SendDLQ(c) \/ Commit(c) \/ CommitFails(c)
                <5>1. \E x \in {"skip", "poll", "commit"} : Goto(c, x)
                    BY <4>6 DEF Reject, Skip, SendDLQ, Commit, CommitFails, Leave
                <5>2. QED
                    BY <5>1 DEF Goto, Costs
            <4>7. QED
                BY <1>2, <3>2, <4>4, <4>5, <4>6 DEF Consume
        <3>3. QED
            BY <3>1, <3>2
    <2>5. QED
        BY <2>2, <2>3, <2>4
<1>3. QED
    BY <1>1, <1>2

\* Who does not run keeps what is behind it.
LEMMA TrailElsewhere ==
    ASSUME TypeOK, OrderInv, NEW L, Trail(L), [Next]_vars,
           ~ \E c \in Consumers : Consume(c)
    PROVE  Trail(L)'
<1>1. TracesKept
    BY NextKeeps
<1>2. /\ committed' = committed
      /\ \A c \in Consumers :
            /\ cpc'[c] = "poll" \/ (cpc'[c] = cpc[c] /\ off'[c] = off[c])
            /\ owner' = c /\ cpc'[c] = "poll" =>
                  \/ off'[c] = committed
                  \/ owner = c /\ cpc[c] = "poll" /\ off'[c] = off[c]
    BY ElsewhereSteps
<1>3. /\ \A r \in Requests : Accounted(r) => Accounted(r)'
      /\ \A n \in 0..Len(log) : AccountedTo(n, L) => AccountedTo(n, L)'
    BY <1>1, AccountsKept
<1>4. committed \in 0..Len(log) /\ \A c \in Consumers : off[c] \in 0..Len(log)
    BY DEF TypeOK, TypeStores, TypeGroup
<1>5. AccountedTo(committed, L)'
    <2>1. AccountedTo(committed, L)
        BY DEF Trail
    <2>2. QED
        BY <1>2, <1>3, <1>4, <2>1 DEF AccountedTo
<1>6. SUFFICES ASSUME NEW c \in Consumers
               PROVE  /\ cpc'[c] \in Busy => AccountedTo(off[c] - 1, L)'
                      /\ cpc'[c] = "commit" => (Accounted(Message(c)) \/ Message(c) \in L)'
                      /\ owner' = c /\ cpc'[c] = "poll" => AccountedTo(off[c], L)'
    BY <1>5 DEF Trail
<1>7. ASSUME cpc'[c] \in Busy PROVE AccountedTo(off[c] - 1, L)'
    <2>1. cpc'[c] = cpc[c] /\ off'[c] = off[c]
        BY <1>2, <1>7 DEF Busy, HandlerSteps, PoisonSteps
    <2>2. off[c] - 1 \in 0..Len(log) /\ AccountedTo(off[c] - 1, L)
        BY <1>4, <1>7, <2>1 DEF TypeOK, TypeGroup, TypeStores, Trail
    <2>3. QED
        BY <1>3, <2>1, <2>2 DEF AccountedTo
<1>8. ASSUME cpc'[c] = "commit" PROVE (Accounted(Message(c)) \/ Message(c) \in L)'
    <2>1. cpc[c] = "commit" /\ off'[c] = off[c]
        BY <1>2, <1>8
    <2>2. Message(c) \in Requests /\ Message(c)' = Message(c)
        BY <1>1, <2>1, InHand, MessageType DEF Busy, HandlerSteps
    <2>3. QED
        BY <1>3, <2>1, <2>2 DEF Trail, Accounted, IsDuplicateKey, HasRow, IdTaken
<1>9. ASSUME owner' = c, cpc'[c] = "poll" PROVE AccountedTo(off[c], L)'
    <2>1. \/ off'[c] = committed
          \/ owner = c /\ cpc[c] = "poll" /\ off'[c] = off[c]
        BY <1>2, <1>9
    <2>2. AccountedTo(off'[c], L)
        BY <2>1 DEF Trail
    <2>3. QED
        BY <1>3, <1>4, <2>1, <2>2 DEF AccountedTo
<1>10. QED
    BY <1>7, <1>8, <1>9

\* One who runs accounts for its message before it commits it, provided its
\* DLQ write succeeds or it may be lost.
LEMMA TrailConsume ==
    ASSUME TypeOK, OrderInv, PoisonIsGarbage, NEW L, Trail(L),
           NEW c \in Consumers, Consume(c),
           SendDLQ(c) => Message(c) \in dlq' \/ Message(c) \in L
    PROVE  Trail(L)'
<1> USE DEF TypeOK, TypeGroup, TypeStores
<1>1. TracesKept /\ UNCHANGED log
    BY ConsumeKeeps
<1>2. /\ \A r \in Requests : Accounted(r) => Accounted(r)'
      /\ \A n \in 0..Len(log) : AccountedTo(n, L) => AccountedTo(n, L)'
    BY <1>1, AccountsKept
<1>3. committed \in 0..Len(log) /\ \A d \in Consumers : off[d] \in 0..Len(log)
    OBVIOUS
<1>4. /\ cpc[c] \in Busy => off[c] \in 1..Len(log) /\ AccountedTo(off[c] - 1, L)
      /\ cpc[c] = "commit" => Accounted(Message(c)) \/ Message(c) \in L
      /\ cpc[c] \in HandlerSteps => Message(c) \in Requests
      /\ cpc[c] \in PoisonSteps => Message(c) = Garbage
    BY InHand DEF Trail, PoisonIsGarbage
<1>5. cpc[c] \in {"commit", "skip"} => AccountedTo(off[c], L)
    <2>1. SUFFICES ASSUME cpc[c] \in {"commit", "skip"} PROVE AccountedTo(off[c], L)
        OBVIOUS
    <2>2. off[c] \in Nat \ {0} /\ AccountedTo(off[c] - 1, L)
        BY <1>4, <2>1 DEF Busy, HandlerSteps, PoisonSteps
    <2>3. log[off[c]] \in Requests => Accounted(log[off[c]]) \/ log[off[c]] \in L
        BY <1>4, <2>1, RequestAssumption DEF Message, PoisonSteps
    <2>4. QED
        BY <2>2, <2>3, UpTo
\* What the step makes of c and of the committed offset.
<1>6. /\ committed' = committed \/ AccountedTo(committed', L)
      /\ cpc'[c] \in Busy => off'[c] - 1 \in 0..Len(log) /\ AccountedTo(off'[c] - 1, L)
      /\ cpc'[c] = "commit" => off'[c] = off[c] /\ (Accounted(Message(c)) \/ Message(c) \in L)'
      /\ owner' = c /\ cpc'[c] = "poll" => AccountedTo(off'[c], L)
    <2>1. CASE Fetch(c)
        <3>1. /\ committed' = committed /\ off'[c] = off[c] + 1
              /\ cpc'[c] \in {"insert", "reject"}
              /\ AccountedTo(off[c], L)
            BY <2>1 DEF Fetch, FirstStep, Goto, Trail
        <3>2. QED
            BY <1>3, <3>1
    <2>2. CASE Insert(c) \/ InsertFails(c) \/ SetTokenFails(c) \/ MarkFailed(c) \/ Reject(c)
        <3>1. /\ committed' = committed /\ off' = off /\ cpc[c] \in Busy
              /\ \E x \in {"set", "insert", "mark", "dlq", "skip"} : Goto(c, x)
            BY <2>2 DEF Insert, InsertFails, SetTokenFails, MarkFailed, Reject, NextAttempt,
                        memberVars, Busy, HandlerSteps, PoisonSteps
        <3>2. cpc'[c] \notin {"commit", "poll"}
            BY <3>1 DEF Goto
        <3>3. QED
            BY <1>3, <1>4, <3>1, <3>2
    <2>3. CASE SetToken(c)
        <3>1. /\ committed' = committed /\ off' = off /\ cpc[c] = "set"
              /\ cpc'[c] = "commit"
            BY <2>3 DEF SetToken, Goto, memberVars
        <3>2. Message(c) \in Requests /\ Message(c)' = Message(c) /\ IsDuplicateKey(Message(c))
            BY <1>1, <1>4, <3>1 DEF OrderInv, RowBeforeToken, HandlerSteps, Message
        <3>3. Accounted(Message(c))'
            BY <1>2, <3>2 DEF Accounted, IsDuplicateKey, HasRow, IdTaken
        <3>4. QED
            BY <1>3, <1>4, <3>1, <3>3 DEF Busy, HandlerSteps
    <2>4. CASE SendDLQ(c)
        <3>1. /\ committed' = committed /\ off' = off /\ cpc[c] = "dlq"
              /\ cpc'[c] = "commit"
            BY <2>4 DEF SendDLQ, Goto, memberVars
        <3>2. (Accounted(Message(c)) \/ Message(c) \in L)'
            BY <1>1, <2>4, <3>1 DEF Accounted, Message
        <3>3. QED
            BY <1>3, <1>4, <3>1, <3>2 DEF Busy, HandlerSteps
    <2>5. CASE Commit(c) \/ CommitFails(c) \/ Skip(c)
        <3>1. /\ committed' \in {committed, off[c]} /\ off' = off
              /\ cpc[c] \in {"commit", "skip"} /\ cpc'[c] = "poll"
            BY <2>5 DEF Commit, CommitFails, Skip, Leave, Goto, memberVars
        <3>2. QED
            BY <1>3, <1>5, <3>1 DEF Busy, HandlerSteps, PoisonSteps
    <2>6. QED
        BY <2>1, <2>2, <2>3, <2>4, <2>5 DEF Consume
<1>7. \A d \in Consumers \ {c} :
         /\ cpc'[d] = cpc[d] /\ off'[d] = off[d]
         /\ owner' = d => owner = d
    <2>1. owner' \in {owner, NoConsumer}
        BY DEF Consume, Fetch, Reject, Skip, Insert, InsertFails, SetToken, SetTokenFails,
               MarkFailed, SendDLQ, Commit, CommitFails, Leave, memberVars
    <2>2. QED
        BY <2>1, ConsumeSteps, GroupAssumption
<1>8. AccountedTo(committed, L)'
    <2>1. committed' \in 0..Len(log) /\ AccountedTo(committed', L)
        <3>1. AccountedTo(committed, L)
            BY DEF Trail
        <3>2. committed' \in {committed, off[c]}
            BY DEF Consume, Fetch, Reject, Skip, Insert, InsertFails, SetToken, SetTokenFails,
                   MarkFailed, SendDLQ, Commit, CommitFails
        <3>3. QED
            BY <1>3, <1>6, <3>1, <3>2
    <2>2. QED
        BY <1>2, <2>1 DEF AccountedTo
<1>9. SUFFICES ASSUME NEW d \in Consumers
               PROVE  /\ cpc'[d] \in Busy => AccountedTo(off[d] - 1, L)'
                      /\ cpc'[d] = "commit" => (Accounted(Message(d)) \/ Message(d) \in L)'
                      /\ owner' = d /\ cpc'[d] = "poll" => AccountedTo(off[d], L)'
    BY <1>8 DEF Trail
<1>10. CASE d = c
    <2>1. off'[c] \in 0..Len(log)
        <3>1. off' = off \/ (Fetch(c) /\ off'[c] = off[c] + 1)
            BY DEF Consume, Fetch, Reject, Skip, Insert, InsertFails, SetToken, SetTokenFails,
                   MarkFailed, SendDLQ, Commit, CommitFails, memberVars
        <3>2. QED
            BY <1>3, <3>1 DEF Fetch
    <2>2. QED
        BY <1>2, <1>6, <1>10, <2>1 DEF AccountedTo
<1>11. CASE d # c
    <2>1. cpc'[d] = cpc[d] /\ off'[d] = off[d] /\ (owner' = d => owner = d)
        BY <1>7, <1>11
    <2>2. cpc[d] \in Busy => off[d] - 1 \in 0..Len(log) /\ AccountedTo(off[d] - 1, L)
        BY <1>3 DEF Trail
    <2>3. owner = d /\ cpc[d] = "poll" => AccountedTo(off[d], L)
        BY DEF Trail
    <2>4. cpc[d] = "commit" => (Accounted(Message(d)) \/ Message(d) \in L)'
        <3>1. SUFFICES ASSUME cpc[d] = "commit" PROVE (Accounted(Message(d)) \/ Message(d) \in L)'
            OBVIOUS
        <3>2. /\ Message(d) \in Requests /\ Message(d)' = Message(d)
              /\ Accounted(Message(d)) \/ Message(d) \in L
            BY <1>1, <2>1, <3>1, MessageType, InHand DEF Trail, Busy, HandlerSteps
        <3>3. QED
            BY <1>2, <3>2 DEF Accounted, IsDuplicateKey, HasRow, IdTaken
    <2>5. QED
        BY <1>2, <1>3, <2>1, <2>2, <2>3, <2>4 DEF AccountedTo
<1>12. QED
    BY <1>10, <1>11

(***************************************************************************)
(* The whole invariant.                                                    *)
(***************************************************************************)

LossInv == PoisonIsGarbage /\ AttemptsCost /\ TrailKept

LEMMA LossInit == Init => LossInv
<1> SUFFICES ASSUME Init PROVE LossInv
    OBVIOUS
<1>1. PoisonIsGarbage
    BY DEF Init, PoisonIsGarbage, PoisonSteps
<1>2. AttemptsCost
    BY DEF Init, AttemptsCost
<1>3. Trail(Affordable)
    BY GroupAssumption DEF Init, Trail, AccountedTo, Busy, HandlerSteps, PoisonSteps
<1>4. QED
    BY <1>1, <1>2, <1>3 DEF LossInv, TrailKept

\* What may be lost may still be lost later.
LEMMA TrailWidens ==
    ASSUME NEW K, NEW L, K \subseteq L, Trail(K)
    PROVE  Trail(L)
BY DEF Trail, AccountedTo

\* The DLQ write of a message comes after MaxRetries + 1 failures, unless MySQL
\* refuses the order: with the fault of the write itself the loss is paid for.
LEMMA LossNext ==
    ASSUME TypeOK, OrderInv, LossInv, [Next]_vars
    PROVE  LossInv'
<1>1. PoisonIsGarbage' /\ AttemptsCost'
    BY PoisonNext, AttemptsNext DEF LossInv
<1>2. SUFFICES ASSUME stops' = 0 PROVE Trail(Affordable)'
    BY <1>1 DEF LossInv, TrailKept
<1>3. /\ stops = 0 /\ faults \in Nat /\ faults' \in Nat /\ faults =< faults'
    BY <1>2, ElsewhereSteps, ConsumeCounts DEF TypeOK
<1>4. PICK L \in SUBSET Requests : L = Affordable'
    BY DEF Affordable
<1>5. Affordable \subseteq L
    BY <1>3, <1>4, NumberAssumption DEF Affordable, LossCost
<1>6. Trail(L)
    <2>1. PICK K \in SUBSET Requests : K = Affordable
        BY DEF Affordable
    <2>2. QED
        BY <1>3, <1>5, <2>1, TrailWidens DEF LossInv, TrailKept
<1>7. ASSUME ~ \E c \in Consumers : Consume(c) PROVE Trail(L)'
    BY <1>6, <1>7, TrailElsewhere
<1>8. ASSUME NEW c \in Consumers, Consume(c) PROVE Trail(L)'
    <2>1. SendDLQ(c) => Message(c) \in dlq' \/ Message(c) \in L
        <3>1. SUFFICES ASSUME SendDLQ(c), Message(c) \notin dlq' PROVE Message(c) \in L
            OBVIOUS
        <3>2. cpc[c] = "dlq" /\ Message(c) \in Requests
            BY <3>1, MessageType DEF SendDLQ, HandlerSteps
        <3>3. faults' = faults + 1
            BY <1>3, <3>1 DEF SendDLQ, CallFails, Fault, LossInv, AttemptsCost
        <3>4. Message(c) \notin Unstorable => MaxRetries < faults
            BY <1>3, <3>2 DEF LossInv, AttemptsCost, HandlerSteps
        <3>5. LossCost(Message(c)) =< faults'
            BY <1>3, <3>3, <3>4, NumberAssumption DEF LossCost
        <3>6. QED
            BY <1>4, <3>2, <3>5 DEF Affordable
    <2>2. QED
        BY <1>6, <1>8, <2>1, TrailConsume DEF LossInv
<1>9. Trail(L)'
    BY <1>7, <1>8
<1>10. QED
    BY <1>4, <1>9 DEF Trail, AccountedTo

LEMMA LossHolds == Spec => []LossInv
BY LossInit, LossNext, Typing, OrderHolds, PTL DEF Spec

\* With no SIGTERM, a message whose offset was committed has a row, an order with
\* its id or a DLQ entry unless MaxRetries + 2 calls failed, every attempt of it
\* and the DLQ write behind them; for an order MySQL refuses that write is enough.
THEOREM LossNeedsEveryFailure == Spec => []LossNeedsExhaustion
<1>1. LossInv => LossNeedsExhaustion
    BY DEF LossInv, TrailKept, Trail, LossNeedsExhaustion
<1>2. QED
    BY <1>1, LossHolds, PTL

\* Every part of the bookkeeping between Redis, Kafka, the group and MySQL
\* holds in every reachable state, whatever fails, is redelivered, expires or
\* restarts.
THEOREM BookkeepingHolds == Spec => []Bookkeeping
<1>1. LotInv /\ OrderInv /\ TokenFirst /\ LossInv => Bookkeeping
    BY DEF LotInv, OrderInv, LossInv, Bookkeeping
<1>2. QED
    BY <1>1, LotHolds, OrderHolds, TokenHolds, LossHolds, PTL

=============================================================================
