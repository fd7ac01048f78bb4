------------------------ MODULE FlashDealOrderProofs ------------------------
(***************************************************************************)
(* From the unit to the order: nothing reaches Kafka, the DLQ or MySQL that *)
(* did not pay in Redis, no token reads success before MySQL answered its  *)
(* insert, no more orders exist than units were warmed, and the whole is a *)
(* simple sale, for every value of the constants.                          *)
(***************************************************************************)
EXTENDS FlashDealLedgerProofs

OrderInv == /\ PaidFirst /\ NothingUnpaid /\ AnsweredOnce /\ AckedIsLogged
            /\ RowBeforeToken /\ SuccessHasRow

\* What NothingUnpaid is about: the places a request leaves a trace.
Traced(r) == r \in rows \/ r \in dlq \/ queue[r] # "absent" \/ InLog(r)

LEMMA OrderInit == Init => OrderInv
BY DEF Init, OrderInv, PaidFirst, NothingUnpaid, AnsweredOnce, AckedIsLogged,
       RowBeforeToken, SuccessHasRow, InLog

\* A unit taken is never given back.
LEMMA PaidGrows == ASSUME TypeOK, [Next]_vars PROVE Paid \subseteq Paid'
<1>1. \A r \in Requests : Takes(r) => Paid \subseteq Paid'
    BY DEF Takes, LuaTakes, Paid, TypeOK, TypeApi
<1>2. UNCHANGED taken => Paid \subseteq Paid'
    BY DEF Paid
<1>3. QED
    BY <1>1, <1>2, UnitSteps

\* Messages keep their offsets, and only the new ones can be of a request
\* that had none.
LEMMA LogKeeps ==
    ASSUME TypeOK, NEW r \in Records,
           log' \in {log, Append(log, r), log \o <<r, r>>}
    PROVE  /\ \A i \in 1..Len(log) : i \in 1..Len(log') /\ log'[i] = log[i]
           /\ \A i \in 1..Len(log') : i \in 1..Len(log) \/ log'[i] = r
           /\ \A q \in Requests : InLog(q) => InLog(q)'
           /\ \A q \in Requests : InLog(q)' => InLog(q) \/ q = r
           /\ log' # log => InLog(r)'
<1>1. log \in Seq(Records)
    BY DEF TypeOK, TypeStores
<1>2. /\ \A i \in 1..Len(log) : i \in 1..Len(log') /\ log'[i] = log[i]
      /\ \A i \in 1..Len(log') : i \in 1..Len(log) \/ log'[i] = r
      /\ log' # log => \E i \in 1..Len(log') : log'[i] = r
    <2>1. CASE log' = log
        BY <2>1
    <2>2. CASE log' = Append(log, r)
        <3>1. Len(log') = Len(log) + 1 /\ log'[Len(log) + 1] = r
            BY <1>1, <2>2
        <3>2. QED
            BY <1>1, <2>2, <3>1
    <2>3. CASE log' = log \o <<r, r>>
        <3>1. <<r, r>> \in Seq(Records) /\ Len(<<r, r>>) = 2
            OBVIOUS
        <3>2. Len(log') = Len(log) + 2
            BY <1>1, <2>3, <3>1
        <3>3. \A i \in 1..Len(log) : log'[i] = log[i]
            BY <1>1, <2>3, <3>1, <3>2
        <3>4. log'[Len(log) + 1] = r /\ log'[Len(log) + 2] = r
            BY <1>1, <2>3, <3>1, <3>2
        <3>5. QED
            BY <1>1, <3>2, <3>3, <3>4
    <2>4. QED
        BY <2>1, <2>2, <2>3
<1>3. \A q \in Requests : InLog(q) => InLog(q)'
    BY <1>2 DEF InLog
<1>4. \A q \in Requests : InLog(q)' => InLog(q) \/ q = r
    BY <1>2 DEF InLog
<1>5. log' # log => InLog(r)'
    BY <1>2 DEF InLog
<1>6. QED
    BY <1>2, <1>3, <1>4, <1>5

(***************************************************************************)
(* OrderInv is inductive: one lemma per actor.                             *)
(***************************************************************************)

\* The shop writes none of it but the tokens it lets expire.
LEMMA OrderShop ==
    ASSUME TypeOK, OrderInv, [Next]_vars, Shop
    PROVE  OrderInv'
<1>1. UNCHANGED <<log, dlq, rows, apiVars, groupVars>>
    BY DEF Shop
<1>2. Paid' = Paid /\ \A q \in Requests : InLog(q)' = InLog(q)
    BY <1>1 DEF Paid, InLog, apiVars
<1>3. \A q \in Requests : queue'[q] \in {queue[q], "absent"}
    BY DEF Shop, CreateActivity, Warm, Tick, ExpireStock, ExpireUserBuy,
           ExpireQueueToken, TypeOK, TypeStores
<1>4. PaidFirst' /\ AnsweredOnce' /\ AckedIsLogged'
    BY <1>1, <1>2 DEF OrderInv, PaidFirst, AnsweredOnce, AckedIsLogged, apiVars
<1>5. NothingUnpaid'
    BY <1>1, <1>2, <1>3 DEF OrderInv, NothingUnpaid
<1>6. RowBeforeToken' /\ SuccessHasRow'
    BY <1>1, <1>3 DEF OrderInv, RowBeforeToken, SuccessHasRow, Message, groupVars,
                      IsDuplicateKey, HasRow, IdTaken
<1>7. QED
    BY <1>4, <1>5, <1>6 DEF OrderInv

\* What a step of Seckill for r can do to r; the other requests keep theirs.
LEMMA ServeSteps ==
    ASSUME TypeOK, OrderInv, NEW r \in Requests, Serve(r)
    PROVE  /\ UNCHANGED <<dlq, rows, cpc, off>>
           /\ log' \in {log, Append(log, r), log \o <<r, r>>}
           /\ \A q \in Requests \ {r} :
                 pc'[q] = pc[q] /\ resp'[q] = resp[q] /\ queue'[q] = queue[q]
           /\ pc[r] # "done"
           /\ pc'[r] \in {"token", "produce"} => r \in Paid'
           /\ pc'[r] # "done" => resp'[r] = resp[r]
           /\ log' # log => r \in Paid /\ pc'[r] = "done"
           /\ queue'[r] # queue[r] => r \in Paid /\ queue'[r] = "queued"
           /\ resp'[r] = "queued" => r \in Paid /\ log' # log
<1> USE DEF TypeOK, TypeApi, TypeStores, Answer, Records
<1>1. UNCHANGED <<dlq, rows, cpc, off>>
    BY DEF Serve, groupVars
<1>2. log \in Seq(Records) /\ Append(log, r) # log /\ log \o <<r, r>> # log
    <2>1. Len(Append(log, r)) = Len(log) + 1
        OBVIOUS
    <2>2. Len(log \o <<r, r>>) = Len(log) + 2
        <3>1. <<r, r>> \in Seq(Records) /\ Len(<<r, r>>) = 2
            OBVIOUS
        <3>2. QED
            BY <3>1
    <2>3. Len(log) \in Nat
        OBVIOUS
    <2>4. QED
        BY <2>1, <2>2, <2>3
<1>3. pc[r] # "done" => resp[r] = "none"
    BY DEF OrderInv, AnsweredOnce
<1>4. pc[r] \in {"token", "produce"} => r \in Paid
    BY DEF OrderInv, PaidFirst
<1>5. CASE FetchActivity(r) \/ ReadFails(r) \/ DeductRefused(r)
    <2>1. /\ UNCHANGED <<queue, log>>
          /\ pc[r] # "done" /\ pc'[r] \in {"deduct", "done"}
          /\ pc'[r] # "done" => resp'[r] = resp[r]
          /\ resp'[r] # "queued"
          /\ \A q \in Requests \ {r} : pc'[q] = pc[q] /\ resp'[q] = resp[q]
        BY <1>3, <1>5 DEF FetchActivity, ReadFails, DeductRefused, Refusals
    <2>2. QED
        BY <1>1, <2>1
<1>6. CASE DeductOk(r) \/ DeductLostReply(r)
    <2>1. r \in Paid'
        BY <1>6 DEF DeductOk, DeductLostReply, LuaTakes, Paid
    <2>2. /\ UNCHANGED <<queue, log>>
          /\ pc[r] # "done"
          /\ pc'[r] # "done" => resp'[r] = resp[r]
          /\ resp'[r] # "queued"
          /\ \A q \in Requests \ {r} : pc'[q] = pc[q] /\ resp'[q] = resp[q]
        BY <1>3, <1>6 DEF DeductOk, DeductLostReply
    <2>3. QED
        BY <1>1, <2>1, <2>2
<1>7. CASE NewToken(r) \/ FallbackToken(r)
    <2>1. UNCHANGED <<log, resp, taken>> /\ Paid' = Paid
        BY <1>7 DEF NewToken, FallbackToken, unitVars, Paid
    <2>2. /\ pc[r] = "token"
          /\ \A q \in Requests \ {r} : pc'[q] = pc[q] /\ queue'[q] = queue[q]
          /\ queue'[r] # queue[r] => queue'[r] = "queued"
        BY <1>7 DEF NewToken, FallbackToken
    <2>3. QED
        BY <1>1, <1>3, <1>4, <2>1, <2>2
<1>8. CASE Produce(r) \/ ProduceTwice(r) \/ ProduceFails(r)
    <2>1. /\ UNCHANGED queue
          /\ log' \in {log, Append(log, r), log \o <<r, r>>}
          /\ pc[r] = "produce" /\ pc'[r] = "done"
          /\ \A q \in Requests \ {r} : pc'[q] = pc[q] /\ resp'[q] = resp[q]
        BY <1>8 DEF Produce, ProduceTwice, ProduceFails
    <2>2. resp'[r] = "queued" => log' # log
        BY <1>2, <1>8 DEF Produce, ProduceTwice, ProduceFails
    <2>3. QED
        BY <1>1, <1>4, <2>1, <2>2
<1>9. QED
    BY <1>5, <1>6, <1>7, <1>8 DEF Serve

LEMMA OrderServe ==
    ASSUME TypeOK, OrderInv, [Next]_vars, NEW r \in Requests, Serve(r)
    PROVE  OrderInv'
<1>1. /\ UNCHANGED <<dlq, rows, cpc, off>>
      /\ log' \in {log, Append(log, r), log \o <<r, r>>}
      /\ \A q \in Requests \ {r} :
            pc'[q] = pc[q] /\ resp'[q] = resp[q] /\ queue'[q] = queue[q]
      /\ pc[r] # "done"
      /\ pc'[r] \in {"token", "produce"} => r \in Paid'
      /\ pc'[r] # "done" => resp'[r] = resp[r]
      /\ log' # log => r \in Paid
      /\ queue'[r] # queue[r] => r \in Paid /\ queue'[r] = "queued"
      /\ resp'[r] = "queued" => r \in Paid /\ log' # log
    BY ServeSteps
<1>2. /\ \A i \in 1..Len(log) : i \in 1..Len(log') /\ log'[i] = log[i]
      /\ \A q \in Requests : InLog(q) => InLog(q)'
      /\ \A q \in Requests : InLog(q)' => InLog(q) \/ q = r
      /\ log' # log => InLog(r)'
    BY <1>1, LogKeeps DEF Records
<1>3. Paid \subseteq Paid'
    BY PaidGrows
<1>4. PaidFirst' /\ AnsweredOnce'
    BY <1>1, <1>3 DEF OrderInv, PaidFirst, AnsweredOnce
<1>5. AckedIsLogged'
    BY <1>1, <1>2, <1>3 DEF OrderInv, AckedIsLogged
<1>6. NothingUnpaid'
    <2>1. \A q \in Requests : InLog(q)' => q \in Paid'
        <3>1. log' = log => \A q \in Requests : InLog(q)' = InLog(q)
            BY DEF InLog
        <3>2. QED
            BY <1>1, <1>2, <1>3, <3>1 DEF OrderInv, NothingUnpaid
    <2>2. QED
        BY <1>1, <1>3, <2>1 DEF OrderInv, NothingUnpaid
<1>7. RowBeforeToken'
    <2>1. \A c \in Consumers : cpc[c] = "set" => Message(c)' = Message(c)
        BY <1>1, <1>2, MessageType DEF Message, HandlerSteps
    <2>2. QED
        BY <1>1, <2>1 DEF OrderInv, RowBeforeToken, IsDuplicateKey, HasRow, IdTaken
<1>8. SuccessHasRow'
    BY <1>1 DEF OrderInv, SuccessHasRow, IsDuplicateKey, HasRow, IdTaken
<1>9. QED
    BY <1>4, <1>5, <1>6, <1>7, <1>8 DEF OrderInv

\* A dying API forgets where its requests were, and nothing else.
LEMMA OrderApiCrash == ASSUME TypeOK, OrderInv, ApiCrash PROVE OrderInv'
<1>1. UNCHANGED <<queue, log, dlq, rows, resp, taken, cpc, off>>
    BY DEF ApiCrash, storeVars, groupVars
<1>2. \A r \in Requests : pc'[r] \in {pc[r], "done"}
    BY DEF ApiCrash
<1>3. QED
    BY <1>1, <1>2 DEF OrderInv, PaidFirst, NothingUnpaid, AnsweredOnce,
       AckedIsLogged, RowBeforeToken, SuccessHasRow, IsDuplicateKey, HasRow, IdTaken,
       Message, Paid, InLog

\* A foreign record is no request's.
LEMMA OrderPublish == ASSUME TypeOK, OrderInv, PublishGarbage PROVE OrderInv'
<1>1. /\ log' = Append(log, Garbage)
      /\ UNCHANGED <<queue, dlq, rows, pc, resp, taken, cpc, off>>
    BY DEF PublishGarbage, apiVars, groupVars
<1>2. /\ \A i \in 1..Len(log) : i \in 1..Len(log') /\ log'[i] = log[i]
      /\ \A q \in Requests : InLog(q) => InLog(q)'
      /\ \A q \in Requests : InLog(q)' => InLog(q) \/ q = Garbage
    BY <1>1, LogKeeps DEF Records
<1>3. \A q \in Requests : InLog(q)' <=> InLog(q)
    BY <1>2, RequestAssumption
<1>4. \A c \in Consumers : cpc[c] = "set" => Message(c)' = Message(c)
    BY <1>1, <1>2, MessageType DEF Message, HandlerSteps
<1>5. PaidFirst' /\ NothingUnpaid' /\ AnsweredOnce' /\ AckedIsLogged' /\ SuccessHasRow'
    BY <1>1, <1>3 DEF OrderInv, PaidFirst, NothingUnpaid, AnsweredOnce,
                      AckedIsLogged, SuccessHasRow, IsDuplicateKey, HasRow, IdTaken, Paid
<1>6. RowBeforeToken'
    BY <1>1, <1>4 DEF OrderInv, RowBeforeToken, IsDuplicateKey, HasRow, IdTaken
<1>7. QED
    BY <1>5, <1>6 DEF OrderInv

\* What a step of the Run loop of c can do with the message m in its hands;
\* the other consumers keep theirs.
LEMMA ConsumeSteps ==
    ASSUME TypeOK, OrderInv, NEW c \in Consumers, Consume(c)
    PROVE  /\ UNCHANGED <<log, pc, resp, sold, taken, warms>>
           /\ \A d \in Consumers \ {c} : cpc'[d] = cpc[d] /\ off'[d] = off[d]
           /\ \/ /\ UNCHANGED <<queue, rows>> /\ cpc'[c] # "set"
                 /\ dlq' \in {dlq, dlq \cup {Garbage}}
              \/ /\ cpc[c] \in HandlerSteps /\ off'[c] = off[c]
                 /\ rows' = rows \/ InsertRow(c)
                 /\ dlq' \in {dlq, dlq \cup {Message(c)}}
                 /\ queue' = queue \/ Resolve(c, "failed")
                                   \/ (cpc[c] = "set" /\ Resolve(c, "success"))
                 /\ cpc'[c] = "set" => cpc[c] = "insert" /\ InsertRow(c)
<1>1. UNCHANGED <<log, pc, resp, sold, taken, warms>>
    BY DEF Consume, apiVars, shopVars
<1>2. ASSUME NEW step, Goto(c, step)
      PROVE  cpc'[c] = step /\ \A d \in Consumers \ {c} : cpc'[d] = cpc[d]
    BY <1>2 DEF Goto, TypeOK, TypeGroup
<1>3. ASSUME NextAttempt(c)
      PROVE  cpc'[c] # "set" /\ \A d \in Consumers \ {c} : cpc'[d] = cpc[d]
    BY <1>2, <1>3 DEF NextAttempt
<1>4. CASE Fetch(c)
    <2>1. \A d \in Consumers \ {c} : off'[d] = off[d]
        BY <1>4 DEF Fetch, TypeOK, TypeGroup
    <2>2. UNCHANGED <<queue, dlq, rows>> /\ \E x \in {"insert", "reject"} : Goto(c, x)
        BY <1>4 DEF Fetch, FirstStep
    <2>3. QED
        BY <1>1, <1>2, <2>1, <2>2
<1>5. CASE Insert(c)
    <2>1. UNCHANGED <<queue, dlq, off>> /\ InsertRow(c) /\ Goto(c, "set")
          /\ cpc[c] = "insert"
        BY <1>5 DEF Insert, memberVars
    <2>2. cpc'[c] = "set" /\ \A d \in Consumers \ {c} : cpc'[d] = cpc[d]
        BY <1>2, <2>1
    <2>3. QED
        BY <1>1, <2>1, <2>2 DEF HandlerSteps
<1>6. CASE InsertFails(c)
    <2>1. /\ UNCHANGED <<queue, dlq, off>> /\ NextAttempt(c) /\ cpc[c] = "insert"
          /\ rows' = rows \/ InsertRow(c)
        BY <1>6 DEF InsertFails, memberVars
    <2>2. QED
        BY <1>1, <1>3, <2>1 DEF HandlerSteps
<1>7. CASE SetToken(c)
    <2>1. /\ UNCHANGED <<rows, dlq, off>> /\ Goto(c, "commit") /\ cpc[c] = "set"
          /\ Resolve(c, "success")
        BY <1>7 DEF SetToken, memberVars
    <2>2. cpc'[c] = "commit" /\ \A d \in Consumers \ {c} : cpc'[d] = cpc[d]
        BY <1>2, <2>1
    <2>3. QED
        BY <1>1, <2>1, <2>2 DEF HandlerSteps
<1>8. CASE SetTokenFails(c)
    <2>1. /\ UNCHANGED <<rows, dlq, off>> /\ NextAttempt(c) /\ cpc[c] = "set"
          /\ queue' = queue \/ Resolve(c, "success")
        BY <1>8 DEF SetTokenFails, memberVars
    <2>2. QED
        BY <1>1, <1>3, <2>1 DEF HandlerSteps
<1>9. CASE MarkFailed(c)
    <2>1. /\ UNCHANGED <<rows, dlq, off>> /\ Goto(c, "dlq") /\ cpc[c] = "mark"
          /\ queue' = queue \/ Resolve(c, "failed")
        BY <1>9 DEF MarkFailed, memberVars
    <2>2. cpc'[c] = "dlq" /\ \A d \in Consumers \ {c} : cpc'[d] = cpc[d]
        BY <1>2, <2>1
    <2>3. QED
        BY <1>1, <2>1, <2>2 DEF HandlerSteps
<1>10. CASE SendDLQ(c)
    <2>1. /\ UNCHANGED <<rows, queue, off>> /\ Goto(c, "commit") /\ cpc[c] = "dlq"
          /\ dlq' = dlq \/ dlq' = dlq \cup {Message(c)}
        BY <1>10 DEF SendDLQ, memberVars
    <2>2. cpc'[c] = "commit" /\ \A d \in Consumers \ {c} : cpc'[d] = cpc[d]
        BY <1>2, <2>1
    <2>3. QED
        BY <1>1, <2>1, <2>2 DEF HandlerSteps
<1>11. CASE Commit(c) \/ CommitFails(c) \/ Skip(c)
    <2>1. UNCHANGED <<queue, dlq, rows, off>> /\ Goto(c, "poll")
        BY <1>11 DEF Commit, CommitFails, Skip, Leave, memberVars
    <2>2. QED
        BY <1>1, <1>2, <2>1
<1>12. CASE Reject(c)
    <2>1. /\ UNCHANGED <<rows, queue, off>> /\ Goto(c, "skip")
          /\ dlq' \in {dlq, dlq \cup {Garbage}}
        BY <1>12 DEF Reject, memberVars
    <2>2. QED
        BY <1>1, <1>2, <2>1
<1>13. QED
    BY <1>4, <1>5, <1>6, <1>7, <1>8, <1>9, <1>10, <1>11, <1>12 DEF Consume

LEMMA OrderConsume ==
    ASSUME TypeOK, OrderInv, NEW c \in Consumers, Consume(c)
    PROVE  OrderInv'
<1>1. /\ UNCHANGED <<log, pc, resp, sold, taken, warms>>
      /\ \A d \in Consumers \ {c} : cpc'[d] = cpc[d] /\ off'[d] = off[d]
    BY ConsumeSteps
<1>2. Paid' = Paid /\ \A q \in Requests : InLog(q)' = InLog(q)
    BY <1>1 DEF Paid, InLog
<1>3. PaidFirst' /\ AnsweredOnce' /\ AckedIsLogged'
    BY <1>1, <1>2 DEF OrderInv, PaidFirst, AnsweredOnce, AckedIsLogged
<1>4. \A d \in Consumers \ {c} : Message(d)' = Message(d)
    BY <1>1 DEF Message
<1>5. CASE /\ UNCHANGED <<queue, rows>> /\ cpc'[c] # "set"
           /\ dlq' \in {dlq, dlq \cup {Garbage}}
    <2>1. NothingUnpaid' /\ SuccessHasRow'
        BY <1>2, <1>5, RequestAssumption
           DEF OrderInv, NothingUnpaid, SuccessHasRow, IsDuplicateKey, HasRow, IdTaken
    <2>2. RowBeforeToken'
        BY <1>1, <1>4, <1>5 DEF OrderInv, RowBeforeToken, IsDuplicateKey, HasRow, IdTaken
    <2>3. QED
        BY <1>3, <2>1, <2>2 DEF OrderInv
<1>6. CASE /\ cpc[c] \in HandlerSteps /\ off'[c] = off[c]
           /\ rows' = rows \/ InsertRow(c)
           /\ dlq' \in {dlq, dlq \cup {Message(c)}}
           /\ queue' = queue \/ Resolve(c, "failed")
                             \/ (cpc[c] = "set" /\ Resolve(c, "success"))
           /\ cpc'[c] = "set" => cpc[c] = "insert" /\ InsertRow(c)
    <2>1. Message(c) \in Requests /\ off[c] \in 1..Len(log)
        BY <1>6, MessageType
    <2>2. InLog(Message(c))
        BY <2>1 DEF InLog, Message
    <2>3. Message(c) \in Paid
        BY <2>1, <2>2 DEF OrderInv, NothingUnpaid
    <2>4. rows \subseteq rows' /\ rows' \subseteq rows \cup {Message(c)}
        BY <1>6 DEF InsertRow
    <2>5. \A q \in Requests : IsDuplicateKey(q) => IsDuplicateKey(q)'
        BY <2>4 DEF IsDuplicateKey, HasRow, IdTaken
    <2>6. Message(c)' = Message(c)
        BY <1>1, <1>6 DEF Message
    <2>7. InsertRow(c) => IsDuplicateKey(Message(c))'
        BY <2>1, <2>5, <2>6 DEF InsertRow, IsDuplicateKey, HasRow, IdTaken, SameOrder
    <2>8. \A q \in Requests : \/ queue'[q] = queue[q]
                              \/ /\ q = Message(c)
                                 /\ queue'[q] = "success" => cpc[c] = "set"
        BY <1>6, <2>1 DEF Resolve, TypeOK, TypeStores
    <2>9. NothingUnpaid'
        BY <1>2, <1>6, <2>3, <2>4, <2>8 DEF OrderInv, NothingUnpaid
    <2>10. SuccessHasRow'
        BY <2>5, <2>8 DEF OrderInv, SuccessHasRow, RowBeforeToken
    <2>11. RowBeforeToken'
        <3>1. SUFFICES ASSUME NEW d \in Consumers, cpc'[d] = "set"
                       PROVE  IsDuplicateKey(Message(d))'
            BY DEF RowBeforeToken
        <3>2. CASE d = c
            BY <1>6, <2>7, <3>1, <3>2
        <3>3. CASE d # c
            <4>1. IsDuplicateKey(Message(d)) /\ Message(d) \in Requests
                BY <1>1, <3>1, <3>3, MessageType DEF OrderInv, RowBeforeToken, HandlerSteps
            <4>2. QED
                BY <1>4, <2>5, <3>3, <4>1 DEF IsDuplicateKey, HasRow, IdTaken
        <3>4. QED
            BY <3>2, <3>3
    <2>12. QED
        BY <1>3, <2>9, <2>10, <2>11 DEF OrderInv
<1>7. QED
    BY <1>5, <1>6, ConsumeSteps

\* Joining the group, dying and being told to stop lose no store.
LEMMA OrderMember ==
    ASSUME TypeOK, OrderInv, NEW c \in Consumers, Assign(c) \/ Crash(c) \/ Stop(c)
    PROVE  OrderInv'
<1>1. UNCHANGED <<queue, log, dlq, rows, pc, resp, taken>>
    BY DEF Assign, Crash, Stop, storeVars, apiVars
<1>2. \A d \in Consumers : cpc'[d] = "set" => cpc[d] = "set" /\ off'[d] = off[d]
    BY DEF Assign, Crash, Stop, Leave, Goto, TypeOK, TypeGroup
<1>3. PaidFirst' /\ NothingUnpaid' /\ AnsweredOnce' /\ AckedIsLogged'
    BY <1>1 DEF OrderInv, PaidFirst, NothingUnpaid, AnsweredOnce, AckedIsLogged,
                Paid, InLog
<1>4. RowBeforeToken' /\ SuccessHasRow'
    BY <1>1, <1>2 DEF OrderInv, RowBeforeToken, SuccessHasRow, Message,
                      IsDuplicateKey, HasRow, IdTaken
<1>5. QED
    BY <1>3, <1>4 DEF OrderInv

LEMMA OrderNext == TypeOK /\ OrderInv /\ [Next]_vars => OrderInv'
<1> SUFFICES ASSUME TypeOK, OrderInv, [Next]_vars PROVE OrderInv'
    OBVIOUS
<1>1. CASE Shop
    BY <1>1, OrderShop
<1>2. CASE ApiCrash \/ PublishGarbage
    BY <1>2, OrderApiCrash, OrderPublish
<1>3. CASE \E r \in Requests : Serve(r)
    BY <1>3, OrderServe
<1>4. CASE \E c \in Consumers : Consume(c)
    BY <1>4, OrderConsume
<1>5. CASE \E c \in Consumers : Assign(c) \/ Crash(c) \/ Stop(c)
    BY <1>5, OrderMember
<1>6. CASE UNCHANGED vars
    <2>1. UNCHANGED <<queue, log, dlq, rows, pc, resp, taken, cpc, off>>
        BY <1>6 DEF vars, storeVars, apiVars, groupVars
    <2>2. QED
        BY <2>1 DEF OrderInv, PaidFirst, NothingUnpaid, AnsweredOnce,
           AckedIsLogged, RowBeforeToken, SuccessHasRow, IsDuplicateKey, HasRow, IdTaken,
       Message, Paid, InLog
<1>7. QED
    BY <1>1, <1>2, <1>3, <1>4, <1>5, <1>6 DEF Next

LEMMA OrderHolds == Spec => []OrderInv
<1>1. QED
    BY OrderInit, OrderNext, Typing, PTL DEF Spec

(***************************************************************************)
(* What it shows.                                                          *)
(***************************************************************************)

\* No message, DLQ entry, token or row exists for a request the Lua script
\* took nothing for.
THEOREM NothingUnpaidHolds == Spec => []NothingUnpaid
<1>1. OrderInv => NothingUnpaid
    BY DEF OrderInv
<1>2. QED
    BY <1>1, OrderHolds, PTL

\* A 202 means a paid unit and a stored message.
THEOREM AckedIsLoggedHolds == Spec => []AckedIsLogged
<1>1. OrderInv => AckedIsLogged
    BY DEF OrderInv
<1>2. QED
    BY <1>1, OrderHolds, PTL

\* A poll that reads success finds the order in MySQL, or another order there
\* that was given its id.
THEOREM SuccessHasRowHolds == Spec => []SuccessHasRow
<1>1. OrderInv => SuccessHasRow
    BY DEF OrderInv
<1>2. QED
    BY <1>1, OrderHolds, PTL

\* MySQL never holds more orders than units were warmed.
THEOREM NeverMoreOrdersThanUnits == Spec => []NoOversell
<1>1. TypeOK /\ LotInv /\ OrderInv => NoOversell
    <2> SUFFICES ASSUME TypeOK, LotInv, OrderInv PROVE NoOversell
        OBVIOUS
    <2>1. rows \subseteq Paid
        BY DEF OrderInv, NothingUnpaid, TypeOK, TypeStores
    <2>2. Cardinality(rows) \in Nat /\ Cardinality(rows) =< Cardinality(Paid)
        BY <2>1, PaidFinite, FS_Subset, FS_CardinalityType
    <2>3. Cardinality(sold) \in Nat /\ Live \in Nat /\ Total * warms \in Nat
        BY FS_CardinalityType, NumberAssumption
           DEF LotInv, Ledger, Live, TypeOK, TypeShop, NoKey
    <2>4. QED
        BY <2>2, <2>3, PaidFinite DEF LotInv, Ledger, NoOversell
<1>2. QED
    BY <1>1, LotHolds, OrderHolds, Typing, PTL

(***************************************************************************)
(* The order path implements Sale.                                         *)
(***************************************************************************)

SaleInv == TypeOK /\ LotInv /\ OrderInv

Promised == {r \in Requests : resp[r] = "queued"}

\* A step that leaves the units, the answers and the rows alone says nothing
\* to the sale.
LEMMA Silent ==
    ASSUME UNCHANGED <<warms, sold, Paid, Promised, rows>>
    PROVE  UNCHANGED S!saleVars
BY DEF S!saleVars, Promised

LEMMA SaleInit == Init => S!SaleInit
<1> SUFFICES ASSUME Init PROVE S!SaleInit
    OBVIOUS
<1>1. Total * warms = 0 /\ Cardinality(sold) = 0
    BY FS_EmptySet, NumberAssumption DEF Init
<1>2. Paid = {} /\ {r \in Requests : resp[r] = "queued"} = {} /\ rows = {}
    BY DEF Init, Paid
<1>3. QED
    BY <1>1, <1>2 DEF S!SaleInit

\* A Warm puts a lot on sale; the clock and the TTLs are not the sale's.
LEMMA SaleShop ==
    ASSUME SaleInv, Shop
    PROVE  S!Offer \/ UNCHANGED S!saleVars
<1>1. UNCHANGED <<rows, pc, resp, sold, taken>>
    BY DEF Shop, apiVars
<1>2. Paid' = Paid /\ Promised' = Promised
    BY <1>1 DEF Paid, Promised
<1>3. CASE Warm
    <2>1. (Total * warms)' = Total * warms + Total
        BY <1>3, NumberAssumption DEF Warm, SaleInv, TypeOK, TypeShop
    <2>2. QED
        BY <1>1, <1>2, <2>1 DEF S!Offer, Promised
<1>4. CASE ~Warm
    <2>1. UNCHANGED warms
        BY <1>4 DEF Shop, CreateActivity, Tick, ExpireStock, ExpireUserBuy,
                    ExpireQueueToken
    <2>2. QED
        BY <1>1, <1>2, <2>1, Silent
<1>5. QED
    BY <1>3, <1>4

\* The Lua script is the payment, whether or not its reply arrives.
LEMMA SalePays ==
    ASSUME SaleInv, NEW r \in Requests, Takes(r), UNCHANGED <<rows, Promised>>
    PROVE  S!Pay(r)
<1>1. Unit(r) \notin sold /\ sold' = sold \cup {Unit(r)} /\ Paid' = Paid \cup {r}
    BY UnitIsNew DEF SaleInv, LotInv
<1>2. IsFiniteSet(sold) /\ Cardinality(sold) \in Nat
    BY FS_CardinalityType DEF SaleInv, LotInv, Ledger
<1>3. Cardinality(sold)' = Cardinality(sold) + 1
    BY <1>1, <1>2, FS_AddElement
<1>4. Cardinality(sold) < Total * warms
    <2>1. stock \in Nat /\ stock >= 1 /\ Live = stock
        BY NumberAssumption DEF Takes, LuaAdmits, SaleInv, TypeOK, TypeShop, Live, NoKey
    <2>2. Total * warms \in Nat
        BY NumberAssumption DEF SaleInv, TypeOK, TypeShop
    <2>3. QED
        BY <1>2, <2>1, <2>2 DEF SaleInv, LotInv, Ledger
<1>5. UNCHANGED warms
    BY DEF Takes
<1>6. QED
    BY <1>1, <1>3, <1>4, <1>5 DEF S!Pay, Promised

\* A 202 is the promise; every other answer and every failure is silent.
LEMMA SaleServes ==
    ASSUME SaleInv, NEW r \in Requests, Serve(r)
    PROVE  S!Pay(r) \/ S!Promise(r) \/ UNCHANGED S!saleVars
<1>1. UNCHANGED <<warms, rows>>
    BY DEF Serve
<1>2. pc[r] # "done" => resp[r] = "none"
    BY DEF SaleInv, OrderInv, AnsweredOnce
<1>3. CASE DeductOk(r) \/ DeductLostReply(r)
    <2>1. Takes(r)
        BY <1>1, <1>3 DEF DeductOk, DeductLostReply, Takes
    <2>2. \A q \in Requests : resp'[q] = "queued" <=> resp[q] = "queued"
        BY <1>2, <1>3 DEF DeductOk, DeductLostReply, Answer, SaleInv, TypeOK, TypeApi
    <2>3. QED
        BY <1>1, <2>1, <2>2, SalePays DEF Promised
<1>4. CASE Produce(r) \/ ProduceTwice(r)
    <2>1. UNCHANGED <<sold, Paid>> /\ pc[r] = "produce" /\ Answer(r, "queued")
        BY <1>4 DEF Produce, ProduceTwice, unitVars, Paid
    <2>2. r \in Paid
        BY <2>1 DEF SaleInv, OrderInv, PaidFirst
    <2>3. Promised' = Promised \cup {r}
        BY <2>1 DEF Answer, Promised, SaleInv, TypeOK, TypeApi
    <2>4. QED
        BY <1>1, <2>1, <2>2, <2>3 DEF S!Promise, Promised
<1>5. CASE \/ FetchActivity(r) \/ ReadFails(r) \/ DeductRefused(r)
           \/ NewToken(r) \/ FallbackToken(r) \/ ProduceFails(r)
    <2>1. UNCHANGED <<sold, Paid>>
        BY <1>5 DEF FetchActivity, ReadFails, DeductRefused, NewToken, FallbackToken,
                    ProduceFails, unitVars, Paid
    <2>2. \A q \in Requests : resp'[q] = "queued" <=> resp[q] = "queued"
        BY <1>2, <1>5 DEF FetchActivity, ReadFails, DeductRefused, NewToken,
           FallbackToken, ProduceFails, Answer, Refusals, SaleInv, TypeOK, TypeApi
    <2>3. QED
        BY <1>1, <2>1, <2>2, Silent DEF Promised
<1>6. QED
    BY <1>3, <1>4, <1>5 DEF Serve

\* An insert that meets neither the buyer's token nor the order's id places the
\* order; a duplicate, a redelivery and every other step of Run are silent.
LEMMA SaleConsumes ==
    ASSUME SaleInv, NEW c \in Consumers, Consume(c)
    PROVE  (\E r \in Requests : S!Place(r)) \/ UNCHANGED S!saleVars
<1>1. UNCHANGED <<log, resp, sold, taken, warms>>
    BY DEF Consume, apiVars, shopVars
<1>2. Paid' = Paid /\ Promised' = Promised
    BY <1>1 DEF Paid, Promised
<1>3. CASE rows' = rows
    BY <1>1, <1>2, <1>3, Silent
<1>4. CASE rows' # rows
    <2>1. cpc[c] \in HandlerSteps /\ InsertRow(c)
        BY <1>4, ConsumeSteps DEF SaleInv
    <2>2. Message(c) \in Requests /\ off[c] \in 1..Len(log)
        BY <2>1, MessageType DEF SaleInv
    <2>3. Message(c) \in Paid
        BY <2>2 DEF SaleInv, OrderInv, NothingUnpaid, InLog, Message
    <2>4. ~HasRow(Message(c)) /\ rows' = rows \cup {Message(c)}
        BY <1>4, <2>1 DEF InsertRow, IsDuplicateKey
    <2>5. S!Place(Message(c))
        BY <1>1, <1>2, <2>3, <2>4 DEF S!Place, HasRow, SameOrder, Promised
    <2>6. QED
        BY <2>2, <2>5
<1>5. QED
    BY <1>3, <1>4

\* Crashes, foreign records, rebalances and SIGTERMs are silent.
LEMMA SaleCrashes ==
    ASSUME \/ ApiCrash \/ PublishGarbage \/ UNCHANGED vars
           \/ \E c \in Consumers : Assign(c) \/ Crash(c) \/ Stop(c)
    PROVE  UNCHANGED S!saleVars
<1>1. UNCHANGED <<warms, rows, resp, sold, taken>>
    BY DEF ApiCrash, PublishGarbage, vars, Assign, Crash, Stop, shopVars, storeVars, apiVars
<1>2. QED
    BY <1>1, Silent DEF Paid, Promised

LEMMA SaleNext == SaleInv /\ [Next]_vars => [S!SaleNext]_(S!saleVars)
<1> SUFFICES ASSUME SaleInv, [Next]_vars
             PROVE  S!SaleNext \/ UNCHANGED S!saleVars
    OBVIOUS
<1>1. CASE Shop
    BY <1>1, SaleShop DEF S!SaleNext
<1>2. CASE \E r \in Requests : Serve(r)
    BY <1>2, SaleServes DEF S!SaleNext
<1>3. CASE \E c \in Consumers : Consume(c)
    BY <1>3, SaleConsumes DEF S!SaleNext
<1>4. CASE \/ ApiCrash \/ PublishGarbage \/ UNCHANGED vars
           \/ \E c \in Consumers : Assign(c) \/ Crash(c) \/ Stop(c)
    BY <1>4, SaleCrashes
<1>5. QED
    BY <1>1, <1>2, <1>3, <1>4 DEF Next

\* Redis, Kafka, the consumer group and MySQL together behave as one sale: a
\* unit is paid before an order is promised or placed, no lot is overspent and
\* no buyer's token gets two orders, through every crash and redelivery.
THEOREM Implementation == Spec => ImplementsSale
<1>1. Spec => []SaleInv
    BY Typing, LotHolds, OrderHolds, PTL DEF SaleInv
<1>2. QED
    BY <1>1, SaleInit, SaleNext, PTL DEF Spec, ImplementsSale, S!SaleSpec

=============================================================================
