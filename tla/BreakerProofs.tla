---------------------------- MODULE BreakerProofs ----------------------------
(***************************************************************************)
(* What a circuit breaker can do to the orders, for any thresholds and any *)
(* order path around it.                                                   *)
(***************************************************************************)
EXTENDS Breaker, FlashDealLossProofs

allVars == <<vars, cb>>

(***************************************************************************)
(* The order path behind a breaker makes its own steps, and one more: an   *)
(* attempt that fails without a call.                                      *)
(***************************************************************************)

LEMMA BreakerStep ==
    ASSUME [BreakerNext]_allVars
    PROVE  [Next]_vars \/ \E c \in Consumers : Refused(c)
<1>1. ASSUME NEW c \in Consumers, Do(c) \/ Around(c) PROVE Consume(c)
    BY <1>1 DEF Do, Around, Consume, restVars
<1>2. ASSUME NEW c \in Consumers, Renew(c) PROVE Crash(c) \/ Stop(c) \/ Consume(c)
    BY <1>2 DEF Renew, Consume, restVars
<1>3. QED
    BY <1>1, <1>2 DEF BreakerNext, Next, TimePasses, allVars

\* A refusal moves only the consumer that is refused.
LEMMA RefusedSteps ==
    ASSUME TypeOK, NEW c \in Consumers, Refused(c)
    PROVE  /\ UNCHANGED <<log, queue, dlq, rows, pc, resp, sold, taken, warms, stock, userBuy>>
           /\ UNCHANGED <<phase, owner, off, stopping, committed, faults, stops, cb>>
           /\ cpc[c] = "insert" /\ cpc'[c] \in {"insert", "mark"}
           /\ cpc' \in [Consumers -> {"poll"} \cup Busy]
           /\ att' \in [Consumers -> 0..MaxRetries]
           /\ \A d \in Consumers \ {c} : cpc'[d] = cpc[d]
           /\ cb[c].state = "open"
<1>1. /\ UNCHANGED <<log, queue, dlq, rows, pc, resp, sold, taken, warms, stock, userBuy>>
      /\ UNCHANGED <<phase, owner, off, stopping, committed, faults, stops, cb>>
      /\ cpc[c] = "insert" /\ NextAttempt(c) /\ cb[c].state = "open"
    BY DEF Refused, restVars, shopVars, apiVars, memberVars, Allows
<1>2. cpc \in [Consumers -> {"poll"} \cup Busy] /\ att \in [Consumers -> 0..MaxRetries]
    BY DEF TypeOK, TypeGroup
<1>3. CASE MayRetry(c)
    <2>1. att' = [att EXCEPT ![c] = @ + 1] /\ Goto(c, "insert")
        BY <1>1, <1>3 DEF NextAttempt
    <2>2. att[c] + 1 \in 0..MaxRetries
        BY <1>2, <1>3, NumberAssumption DEF MayRetry
    <2>3. QED
        BY <1>1, <1>2, <2>1, <2>2 DEF Goto, Busy, HandlerSteps
<1>4. CASE ~MayRetry(c)
    <2>1. att' = att /\ Goto(c, "mark")
        BY <1>1, <1>4 DEF NextAttempt
    <2>2. QED
        BY <1>1, <1>2, <2>1 DEF Goto, Busy, HandlerSteps
<1>5. QED
    BY <1>3, <1>4

LEMMA RefusedKeeps ==
    ASSUME SaleInv, NEW c \in Consumers, Refused(c)
    PROVE  SaleInv' /\ TracesKept
<1> USE RefusedSteps DEF SaleInv
<1>1. \A d \in Consumers : Message(d)' = Message(d)
    BY DEF Message
<1>2. \A d \in Consumers : /\ cpc'[d] \in Busy => cpc[d] \in Busy
                           /\ cpc'[d] \in HandlerSteps => cpc[d] \in HandlerSteps
                           /\ cpc'[d] = "set" => cpc[d] = "set"
    BY DEF Busy, HandlerSteps, PoisonSteps
<1>3. TypeApi' /\ TypeShop' /\ TypeStores'
    BY DEF TypeOK, TypeApi, TypeShop, TypeStores
<1>4. TypeGroup'
    BY <1>1, <1>2 DEF TypeOK, TypeGroup
<1>5. TypeOK'
    BY <1>3, <1>4 DEF TypeOK
<1>6. LotInv'
    BY DEF LotInv, Ledger, StockConservation, UserLedger, Live, Paid, SoldSince, SoldTo
<1>7. PaidFirst' /\ NothingUnpaid' /\ AnsweredOnce' /\ AckedIsLogged' /\ SuccessHasRow'
    BY DEF OrderInv, PaidFirst, NothingUnpaid, AnsweredOnce, AckedIsLogged, SuccessHasRow,
           IsDuplicateKey, HasRow, IdTaken, Paid, InLog
<1>8. RowBeforeToken'
    BY <1>1, <1>2 DEF OrderInv, RowBeforeToken, IsDuplicateKey, HasRow, IdTaken
<1>9. TracesKept
    BY DEF TracesKept
<1>10. QED
    BY <1>5, <1>6, <1>7, <1>8, <1>9 DEF OrderInv

LEMMA BreakerKeeps ==
    ASSUME SaleInv, [BreakerNext]_allVars
    PROVE  SaleInv' /\ TracesKept
<1>1. [Next]_vars => SaleInv' /\ TracesKept
    BY NextTyped, LotNext, OrderNext, NextKeeps DEF SaleInv
<1>2. QED
    BY <1>1, BreakerStep, RefusedKeeps

\* The order path keeps behind a breaker what it keeps alone.
LEMMA BehindBreaker == BreakerSpec => []SaleInv
<1>1. BreakerInit => SaleInv
    BY InitTyped, LotInit, OrderInit DEF BreakerInit, SaleInv
<1>2. SaleInv /\ [BreakerNext]_allVars => SaleInv'
    BY BreakerKeeps
<1>3. QED
    BY <1>1, <1>2, PTL DEF BreakerSpec, allVars

(***************************************************************************)
(* The state of a breaker.                                                 *)
(***************************************************************************)

BreakerStates == [state : {"closed", "open", "half-open"}, requests : Nat, failures : Nat]

Fits(b) ==
    /\ b \in BreakerStates
    /\ b.state # "closed" => b.failures = 0
    /\ b.state = "half-open" => b.requests < MaxProbes

BreakersFit == cb \in [Consumers -> BreakerStates] /\ \A c \in Consumers : Fits(cb[c])

LEMMA FitOnes == Fits(Closed) /\ Fits(Open) /\ Fits(HalfOpen)
BY BreakerAssumption DEF Fits, BreakerStates, Closed, Open, HalfOpen

LEMMA SucceedFits ==
    ASSUME NEW b, Fits(b), Allows(b)
    PROVE  Fits(Succeed(b)) /\ Succeed(b).failures =< b.failures
           /\ (Succeed(b).state # "closed" => b.state # "closed")
<1>1. b \in BreakerStates /\ MaxProbes \in Nat
    BY BreakerAssumption DEF Fits
<1>2. CASE b.state = "half-open" /\ b.requests + 1 >= MaxProbes
    BY <1>1, <1>2, FitOnes DEF Succeed, Closed, BreakerStates
<1>3. CASE ~(b.state = "half-open" /\ b.requests + 1 >= MaxProbes)
    <2>1. Succeed(b) = [b EXCEPT !.requests = @ + 1]
        BY <1>3 DEF Succeed
    <2>2. QED
        BY <1>1, <1>3, <2>1 DEF Fits, Allows, BreakerStates
<1>4. QED
    BY <1>2, <1>3

\* A closed breaker opens only on enough failures.
LEMMA FailFits ==
    ASSUME NEW b, Fits(b), Allows(b)
    PROVE  /\ Fits(Fail(b)) /\ Fail(b).failures =< b.failures + 1
           /\ Fail(b).state # "closed" =>
                 \/ b.state # "closed"
                 \/ 100 * (b.failures + 1) >= Threshold * Volume
<1> DEFINE called == [b EXCEPT !.requests = @ + 1]
           counted == [called EXCEPT !.failures = @ + 1]
<1>1. b \in BreakerStates
    BY DEF Fits
<1>2. /\ counted \in BreakerStates /\ counted.state = b.state
      /\ counted.requests = b.requests + 1 /\ counted.failures = b.failures + 1
    <2>1. /\ called \in BreakerStates /\ called.state = b.state
          /\ called.requests = b.requests + 1 /\ called.failures = b.failures
        BY <1>1 DEF BreakerStates
    <2> HIDE DEF called
    <2>2. QED
        BY <2>1 DEF BreakerStates
<1>3. Fail(b) = IF b.state = "half-open" \/ ReadyToTrip(counted) THEN Open ELSE counted
    BY DEF Fail
<1>4. ReadyToTrip(counted) => 100 * (b.failures + 1) >= Threshold * Volume
    <2>1. SUFFICES ASSUME ReadyToTrip(counted)
                   PROVE  100 * (b.failures + 1) >= Threshold * Volume
        OBVIOUS
    <2>2. /\ b.requests + 1 >= Volume
          /\ 100 * (b.failures + 1) >= Threshold * (b.requests + 1)
        BY <1>2, <2>1 DEF ReadyToTrip
    <2>3. b.requests \in Nat /\ b.failures \in Nat
        BY <1>1 DEF BreakerStates
    <2>4. Threshold \in Nat /\ Volume \in Nat
        BY BreakerAssumption DEF Threshold
    <2>5. \A m, n, t \in Nat : n >= m => t * n >= t * m
        OBVIOUS
    <2>6. Threshold * (b.requests + 1) >= Threshold * Volume
        BY <2>2, <2>3, <2>4, <2>5
    <2>7. /\ Threshold * (b.requests + 1) \in Nat /\ Threshold * Volume \in Nat
          /\ 100 * (b.failures + 1) \in Nat
        BY <2>3, <2>4
    <2>8. QED
        BY <2>2, <2>6, <2>7
<1>5. CASE b.state = "half-open" \/ ReadyToTrip(counted)
    <2>1. Fail(b) = Open
        BY <1>3, <1>5
    <2>2. Open.failures = 0 /\ b.failures \in Nat
        BY <1>1 DEF Open, BreakerStates
    <2>3. QED
        BY <1>4, <1>5, <2>1, <2>2, FitOnes
<1>6. CASE ~(b.state = "half-open" \/ ReadyToTrip(counted))
    <2>1. Fail(b) = counted
        BY <1>3, <1>6
    <2>2. b.state = "closed"
        BY <1>1, <1>6 DEF Allows, BreakerStates
    <2>3. b.failures + 1 \in Nat
        BY <1>1 DEF BreakerStates
    <2>4. Fits(counted)
        BY <1>2, <2>2 DEF Fits
    <2>5. QED
        BY <1>2, <2>1, <2>2, <2>3, <2>4
<1>7. QED
    BY <1>5, <1>6

\* What a step can do to the breakers.
LEMMA BreakerMoves ==
    ASSUME BreakersFit, [BreakerNext]_allVars
    PROVE  \/ UNCHANGED cb
           \/ \E c \in Consumers :
                 /\ \A d \in Consumers \ {c} : cb'[d] = cb[d]
                 /\ \/ TimePasses(c)
                    \/ Do(c) /\ Allows(cb[c]) /\ cb'[c] \in {Succeed(cb[c]), Fail(cb[c])}
                    \/ Renew(c) /\ cb'[c] = Closed
                 /\ TimePasses(c) => cb'[c] \in {cb[c], Closed, HalfOpen}
                 /\ cb' \in [Consumers -> {cb'[c]} \cup BreakerStates]
<1> USE DEF BreakersFit
<1>1. ASSUME NEW c \in Consumers, TimePasses(c)
      PROVE  /\ \A d \in Consumers \ {c} : cb'[d] = cb[d]
             /\ cb'[c] \in {cb[c], Closed, HalfOpen}
             /\ cb' \in [Consumers -> {cb'[c]} \cup BreakerStates]
    BY <1>1 DEF TimePasses
<1>2. ASSUME NEW c \in Consumers, Do(c)
      PROVE  /\ \A d \in Consumers \ {c} : cb'[d] = cb[d]
             /\ Allows(cb[c]) /\ cb'[c] \in {Succeed(cb[c]), Fail(cb[c])}
             /\ cb' \in [Consumers -> {cb'[c]} \cup BreakerStates]
    BY <1>2 DEF Do
<1>3. ASSUME NEW c \in Consumers, Renew(c)
      PROVE  /\ \A d \in Consumers \ {c} : cb'[d] = cb[d]
             /\ cb'[c] = Closed
             /\ cb' \in [Consumers -> {cb'[c]} \cup BreakerStates]
    BY <1>3 DEF Renew
<1>4. CASE \E c \in Consumers : TimePasses(c) /\ ~Do(c) /\ ~Renew(c)
    BY <1>1, <1>4
<1>5. QED
    BY <1>1, <1>2, <1>3 DEF BreakerNext, Refused, Around, allVars

LEMMA BreakersNext ==
    ASSUME BreakersFit, [BreakerNext]_allVars
    PROVE  BreakersFit'
<1> USE DEF BreakersFit
<1>1. CASE UNCHANGED cb
    BY <1>1 DEF Fits
<1>2. ASSUME NEW c \in Consumers,
             \A d \in Consumers \ {c} : cb'[d] = cb[d],
             \/ TimePasses(c)
             \/ Do(c) /\ Allows(cb[c]) /\ cb'[c] \in {Succeed(cb[c]), Fail(cb[c])}
             \/ Renew(c) /\ cb'[c] = Closed,
             TimePasses(c) => cb'[c] \in {cb[c], Closed, HalfOpen},
             cb' \in [Consumers -> {cb'[c]} \cup BreakerStates]
      PROVE  BreakersFit'
    <2>1. Fits(cb'[c])
        BY <1>2, FitOnes, SucceedFits, FailFits
    <2>2. cb' \in [Consumers -> BreakerStates]
        BY <1>2, <2>1 DEF Fits
    <2>3. \A d \in Consumers : Fits(cb'[d])
        BY <1>2, <2>1
    <2>4. QED
        BY <2>2, <2>3 DEF Fits
<1>3. QED
    BY <1>1, <1>2, BreakerMoves

LEMMA BreakersHold == BreakerSpec => []BreakersFit
<1>1. BreakerInit => BreakersFit
    BY FitOnes DEF BreakerInit, BreakersFit, Fits
<1>2. BreakersFit /\ [BreakerNext]_allVars => BreakersFit'
    BY BreakersNext
<1>3. QED
    BY <1>1, <1>2, PTL DEF BreakerSpec, allVars

\* No breaker counts failures it has forgotten, and a half-open one never lets
\* more than max_requests probes through.
THEOREM BreakerTyping == BreakerSpec => []BreakerTypeOK
<1>1. SaleInv /\ BreakersFit => BreakerTypeOK
    BY DEF SaleInv, BreakersFit, Fits, BreakerStates, BreakerTypeOK
<1>2. QED
    BY <1>1, BehindBreaker, BreakersHold, PTL

(***************************************************************************)
(* With no SIGTERM, a message is committed away without a trace only for a *)
(* failed DLQ write of its own.                                            *)
(***************************************************************************)

\* The group has lost at most one order for each fault, breaker or not.
TraceInv ==
    stops = 0 =>
        /\ stopping = {}
        /\ \E L \in SUBSET Requests : Cardinality(L) =< faults /\ Trail(L)

LEMMA OneMoreLost ==
    ASSUME NEW L \in SUBSET Requests, NEW r \in Requests, NEW n \in Nat, Cardinality(L) =< n
    PROVE  L \cup {r} \in SUBSET Requests /\ Cardinality(L \cup {r}) =< n + 1
<1>1. IsFiniteSet(L) /\ Cardinality(L) \in Nat
    BY RequestAssumption, FS_Subset, FS_CardinalityType
<1>2. Cardinality(L \cup {r}) = IF r \in L THEN Cardinality(L) ELSE Cardinality(L) + 1
    BY <1>1, FS_AddElement
<1>3. QED
    BY <1>1, <1>2

LEMMA TraceConsume ==
    ASSUME SaleInv, PoisonIsGarbage, TraceInv, stops' = 0, NEW c \in Consumers, Consume(c)
    PROVE  stopping' = {} /\ \E L \in SUBSET Requests : Cardinality(L) =< faults' /\ Trail(L)'
<1> USE DEF SaleInv
<1>1. /\ stops = 0 /\ stopping' \subseteq stopping
      /\ faults \in Nat /\ faults' \in {faults, faults + 1}
    BY ConsumeCounts
<1>2. stopping = {} /\ stopping' = {}
    BY <1>1 DEF TraceInv
<1>3. PICK L \in SUBSET Requests : Cardinality(L) =< faults /\ Trail(L)
    BY <1>1 DEF TraceInv
<1>4. ASSUME SendDLQ(c) => Message(c) \in dlq'
      PROVE  Cardinality(L) =< faults' /\ Trail(L)'
    <2>1. Trail(L)'
        BY <1>3, <1>4, TrailConsume
    <2>2. Cardinality(L) \in Nat
        BY RequestAssumption, FS_Subset, FS_CardinalityType
    <2>3. QED
        BY <1>1, <1>3, <2>1, <2>2
<1>5. ASSUME SendDLQ(c), Message(c) \notin dlq'
      PROVE  \E K \in SUBSET Requests : Cardinality(K) =< faults' /\ Trail(K)'
    <2>1. Message(c) \in Requests
        BY <1>5, MessageType DEF SendDLQ, HandlerSteps
    <2>2. faults' = faults + 1
        BY <1>2, <1>5 DEF SendDLQ, CallFails, Fault
    <2>3. PICK m \in Requests : m = Message(c)
        BY <2>1
    <2>4. PICK K \in SUBSET Requests : K = L \cup {m}
        OBVIOUS
    <2>5. Cardinality(K) =< faults'
        BY <1>1, <1>3, <2>2, <2>4, OneMoreLost
    <2>6. Trail(K)
        BY <1>3, <2>4, TrailWidens
    <2>7. Trail(K)'
        BY <2>3, <2>4, <2>6, TrailConsume
    <2>8. QED
        BY <2>5, <2>7
<1>6. QED
    BY <1>2, <1>4, <1>5

LEMMA TraceNext ==
    ASSUME SaleInv, PoisonIsGarbage, TraceInv, [BreakerNext]_allVars
    PROVE  PoisonIsGarbage' /\ TraceInv'
<1> USE DEF SaleInv
<1>1. CASE [Next]_vars
    <2>1. PoisonIsGarbage'
        BY <1>1, PoisonNext
    <2>2. SUFFICES ASSUME stops' = 0
                   PROVE  /\ stopping' = {}
                          /\ \E L \in SUBSET Requests : Cardinality(L) =< faults' /\ Trail(L)'
        BY <2>1 DEF TraceInv
    <2>3. CASE ~ \E c \in Consumers : Consume(c)
        <3>1. /\ stops = 0 /\ stopping' \subseteq stopping
              /\ faults \in Nat /\ faults' \in Nat /\ faults =< faults'
            BY <1>1, <2>2, <2>3, ElsewhereSteps
        <3>2. PICK L \in SUBSET Requests : Cardinality(L) =< faults /\ Trail(L)
            BY <3>1 DEF TraceInv
        <3>3. Cardinality(L) \in Nat
            BY RequestAssumption, FS_Subset, FS_CardinalityType
        <3>4. Trail(L)'
            BY <1>1, <2>3, <3>2, TrailElsewhere
        <3>5. QED
            BY <3>1, <3>2, <3>3, <3>4 DEF TraceInv
    <2>4. CASE \E c \in Consumers : Consume(c)
        BY <2>2, <2>4, TraceConsume
    <2>5. QED
        BY <2>3, <2>4
<1>2. ASSUME NEW c \in Consumers, Refused(c) PROVE PoisonIsGarbage' /\ TraceInv'
    <2>1. /\ UNCHANGED <<log, dlq, rows, owner, off, stopping, committed, faults, stops>>
          /\ cpc[c] = "insert" /\ cpc'[c] \in {"insert", "mark"}
          /\ \A d \in Consumers \ {c} : cpc'[d] = cpc[d]
        BY <1>2, RefusedSteps
    <2>2. \A d \in Consumers : /\ cpc'[d] \in Busy => cpc[d] \in Busy
                               /\ cpc'[d] \in PoisonSteps => cpc[d] \in PoisonSteps
                               /\ cpc'[d] \in {"commit", "poll"} => cpc[d] = cpc'[d]
        BY <2>1 DEF Busy, HandlerSteps, PoisonSteps
    <2>3. PoisonIsGarbage'
        BY <2>1, <2>2 DEF PoisonIsGarbage, Message
    <2>4. ASSUME NEW L, Trail(L) PROVE Trail(L)'
        <3>1. \A r \in Requests : Accounted(r)' <=> Accounted(r)
            BY <2>1 DEF Accounted, IsDuplicateKey, HasRow, IdTaken
        <3>2. \A n : AccountedTo(n, L) => AccountedTo(n, L)'
            BY <2>1, <3>1 DEF AccountedTo
        <3>3. \A d \in Consumers : Message(d)' = Message(d)
            BY <2>1 DEF Message
        <3>4. \A d \in Consumers : cpc[d] = "commit" => Message(d) \in Requests
            BY MessageType DEF HandlerSteps
        <3>5. ASSUME NEW d \in Consumers, cpc'[d] = "commit"
              PROVE  (Accounted(Message(d)) \/ Message(d) \in L)'
            <4>1. /\ Message(d) \in Requests /\ Message(d)' = Message(d)
                  /\ Accounted(Message(d)) \/ Message(d) \in L
                BY <2>2, <2>4, <3>3, <3>4, <3>5 DEF Trail
            <4>2. QED
                BY <2>1, <4>1 DEF Accounted, IsDuplicateKey, HasRow, IdTaken
        <3>6. QED
            BY <2>1, <2>2, <2>4, <3>2, <3>5 DEF Trail, AccountedTo
    <2>5. QED
        BY <2>1, <2>3, <2>4 DEF TraceInv
<1>3. QED
    BY <1>1, <1>2, BreakerStep

LEMMA TraceHolds == BreakerSpec => [](PoisonIsGarbage /\ TraceInv)
<1>1. BreakerInit => PoisonIsGarbage /\ TraceInv
    <2> SUFFICES ASSUME BreakerInit PROVE PoisonIsGarbage /\ TraceInv
        OBVIOUS
    <2>1. PoisonIsGarbage
        BY DEF BreakerInit, Init, PoisonIsGarbage, PoisonSteps
    <2>2. stopping = {} /\ Trail({})
        BY GroupAssumption
           DEF BreakerInit, Init, Trail, AccountedTo, Busy, HandlerSteps, PoisonSteps
    <2>3. Cardinality({}) =< faults
        BY FS_EmptySet DEF BreakerInit, Init
    <2>4. QED
        BY <2>1, <2>2, <2>3 DEF TraceInv
<1>2. SaleInv /\ (PoisonIsGarbage /\ TraceInv) /\ [BreakerNext]_allVars =>
          (PoisonIsGarbage /\ TraceInv)'
    BY TraceNext
<1>3. QED
    BY <1>1, <1>2, BehindBreaker, PTL DEF BreakerSpec, allVars

\* Whatever the breakers refuse and whenever they open, as long as nobody is
\* stopped no more messages than there were faults are committed with neither a
\* row, nor another order's row under their id, nor a DLQ entry.
THEOREM NothingIsLost == BreakerSpec => []NothingSlipsAway
<1>1. SaleInv /\ TraceInv => NothingSlipsAway
    <2> SUFFICES ASSUME SaleInv, TraceInv, stops = 0 PROVE Cardinality(Lost) =< faults
        BY DEF NothingSlipsAway
    <2>1. PICK L \in SUBSET Requests : Cardinality(L) =< faults /\ Trail(L)
        BY DEF TraceInv
    <2>2. Lost \subseteq L
        BY <2>1 DEF Trail, AccountedTo, Lost
    <2>3. IsFiniteSet(L) /\ Cardinality(L) \in Nat
        BY RequestAssumption, FS_Subset, FS_CardinalityType
    <2>4. IsFiniteSet(Lost) /\ Cardinality(Lost) \in Nat /\ Cardinality(Lost) =< Cardinality(L)
        BY <2>2, <2>3, FS_Subset, FS_CardinalityType
    <2>5. faults \in Nat
        BY NumberAssumption DEF SaleInv, TypeOK
    <2>6. QED
        BY <2>1, <2>3, <2>4, <2>5
<1>2. QED
    BY <1>1, BehindBreaker, TraceHolds, PTL

(***************************************************************************)
(* A breaker opens only on clashes and on orders MySQL refuses.            *)
(***************************************************************************)

\* Enough of them to trip a breaker.
Cause == 100 * Cardinality(FailingCalls(Len(log))) >= Threshold * Volume

\* The messages whose insert c has behind it.
Inserted(c) == IF cpc[c] \in {"insert", "reject", "skip"} THEN off[c] - 1 ELSE off[c]

\* The failing attempts c has behind it.
Behind(c) ==
    {p \in FailingCalls(off[c]) :
        p[1] = off[c] /\ cpc[c] = "insert" => Message(c) \in Unstorable /\ p[2] < att[c]}

\* While nothing fails and no breaker has cause to open, one member has the
\* partition from the first assignment on; the rows are of messages it has
\* inserted, its breaker counts only attempts that had to fail, and only orders
\* that MySQL refuses run out of them.
Calm ==
    /\ stopping = {}
    /\ owner = NoConsumer => rows = {}
    /\ dlq \cap Requests \subseteq Unstorable
    /\ \A c \in Consumers :
          /\ cpc[c] # "poll" => owner = c
          /\ owner = c =>
                \A r \in rows : r \notin Unstorable /\ \E j \in 1..Inserted(c) : log[j] = r
          /\ cb[c].state = "closed"
          /\ cb[c].failures =< IF owner = c THEN Cardinality(Behind(c)) ELSE 0
          /\ cpc[c] \in {"mark", "dlq"} => Message(c) \in Unstorable

CauseInv == faults = 0 /\ stops = 0 => Cause \/ Calm

\* Sets of attempts are finite, and the larger the more.
LEMMA AttemptsFinite ==
    ASSUME NEW n \in Nat, NEW K, K \subseteq (1..n) \X (0..MaxRetries)
    PROVE  /\ IsFiniteSet(K) /\ Cardinality(K) \in Nat
           /\ \A J \in SUBSET K : Cardinality(J) \in Nat /\ Cardinality(J) =< Cardinality(K)
           /\ \A J \in SUBSET K : \A p \in K \ J : Cardinality(J) + 1 =< Cardinality(K)
<1>1. IsFiniteSet((1..n) \X (0..MaxRetries))
    <2>1. IsFiniteSet(1..n) /\ IsFiniteSet(0..MaxRetries)
        BY NumberAssumption, FS_Interval
    <2>2. QED
        BY <2>1, FS_Product
<1>2. IsFiniteSet(K) /\ Cardinality(K) \in Nat
    BY <1>1, FS_Subset, FS_CardinalityType
<1>3. \A J \in SUBSET K : /\ IsFiniteSet(J) /\ Cardinality(J) \in Nat
                          /\ Cardinality(J) =< Cardinality(K)
    BY <1>2, FS_Subset, FS_CardinalityType
<1>4. ASSUME NEW J \in SUBSET K, NEW p \in K \ J
      PROVE  Cardinality(J) + 1 =< Cardinality(K)
    <2>1. Cardinality(J \cup {p}) = Cardinality(J) + 1
        BY <1>3, FS_AddElement
    <2>2. J \cup {p} \in SUBSET K
        OBVIOUS
    <2>3. QED
        BY <1>3, <2>1, <2>2
<1>5. QED
    BY <1>2, <1>3, <1>4

LEMMA FailingType ==
    ASSUME TypeOK
    PROVE  /\ Len(log) \in Nat
           /\ \A n \in 0..Len(log) : /\ FailingCalls(n) \subseteq (1..n) \X (0..MaxRetries)
                                     /\ \A m \in 0..n : FailingCalls(m) \subseteq FailingCalls(n)
<1>1. Len(log) \in Nat
    BY DEF TypeOK, TypeStores
<1>2. \A n \in 0..Len(log) : \A m \in 0..n : 1..m \subseteq 1..n
    BY <1>1
<1>3. \A n \in 0..Len(log) : \A m \in 0..n : FailingCalls(m) \subseteq FailingCalls(n)
    BY <1>2 DEF FailingCalls
<1>4. QED
    BY <1>1, <1>3 DEF FailingCalls

LEMMA BehindType ==
    ASSUME TypeOK, NEW c \in Consumers
    PROVE  /\ off[c] \in 0..Len(log) /\ Len(log) \in Nat
           /\ cpc[c] # "poll" => off[c] \in 1..Len(log)
           /\ Behind(c) \subseteq FailingCalls(off[c])
           /\ cpc[c] # "insert" => Behind(c) = FailingCalls(off[c])
           /\ FailingCalls(off[c]) \subseteq FailingCalls(Len(log))
           /\ FailingCalls(Len(log)) \subseteq (1..Len(log)) \X (0..MaxRetries)
<1>1. off[c] \in 0..Len(log) /\ Len(log) \in Nat
    BY DEF TypeOK, TypeGroup, TypeStores
<1>2. cpc[c] # "poll" => off[c] >= 1
    BY DEF TypeOK, TypeGroup
<1>3. Len(log) \in 0..Len(log) /\ off[c] \in 0..Len(log)
    BY <1>1
<1>4. FailingCalls(off[c]) \subseteq FailingCalls(Len(log))
    BY <1>3, FailingType
<1>5. FailingCalls(Len(log)) \subseteq (1..Len(log)) \X (0..MaxRetries)
    BY DEF FailingCalls
<1>6. QED
    BY <1>1, <1>2, <1>4, <1>5 DEF Behind

\* A topic that grows keeps them.
LEMMA FailingKept ==
    ASSUME TypeOK, TypeOK', TracesKept
    PROVE  /\ \A n \in 0..Len(log) : FailingCalls(n)' = FailingCalls(n)
           /\ Cause => Cause'
<1>1. /\ Len(log) \in Nat /\ Len(log') \in Nat
      /\ \A i \in 1..Len(log) : i \in 1..Len(log') /\ log'[i] = log[i]
    BY DEF TypeOK, TypeStores, TracesKept
<1>2. ASSUME NEW i \in 1..Len(log), NEW k PROVE AttemptFails(i, k)' <=> AttemptFails(i, k)
    <2>1. log'[i] = log[i] /\ \A j \in 1..(i - 1) : log'[j] = log[j]
        BY <1>1
    <2>2. QED
        BY <2>1 DEF AttemptFails, Clashes, SameOrder, SameId
<1>3. \A n \in 0..Len(log) : FailingCalls(n)' = FailingCalls(n)
    <2>1. TAKE n \in 0..Len(log)
    <2>2. \A p \in (1..n) \X (0..MaxRetries) : p[1] \in 1..Len(log)
        BY <1>1
    <2>3. \A p \in (1..n) \X (0..MaxRetries) :
              AttemptFails(p[1], p[2])' <=> AttemptFails(p[1], p[2])
        BY <1>2, <2>2
    <2>4. QED
        BY <2>3 DEF FailingCalls
<1>4. Len(log) =< Len(log')
    <2>1. CASE Len(log) = 0
        BY <1>1, <2>1
    <2>2. CASE Len(log) # 0
        BY <1>1, <2>2
    <2>3. QED
        BY <2>1, <2>2
<1>5. FailingCalls(Len(log)) \subseteq FailingCalls(Len(log))'
    <2>1. FailingCalls(Len(log)) \subseteq (1..Len(log)) \X (0..MaxRetries)
        BY DEF FailingCalls
    <2>2. \A p \in (1..Len(log)) \X (0..MaxRetries) :
              /\ p \in (1..Len(log')) \X (0..MaxRetries)
              /\ AttemptFails(p[1], p[2])' <=> AttemptFails(p[1], p[2])
        BY <1>1, <1>2, <1>4
    <2>3. QED
        BY <2>1, <2>2 DEF FailingCalls
<1>6. Cause => Cause'
    <2>1. FailingCalls(Len(log))' \subseteq (1..Len(log')) \X (0..MaxRetries)
        BY DEF FailingCalls
    <2>2. /\ Cardinality(FailingCalls(Len(log))) \in Nat
          /\ Cardinality(FailingCalls(Len(log))') \in Nat
          /\ Cardinality(FailingCalls(Len(log))) =< Cardinality(FailingCalls(Len(log))')
        BY <1>1, <1>5, <2>1, AttemptsFinite
    <2>3. Threshold * Volume \in Int
        BY BreakerAssumption DEF Threshold
    <2>4. QED
        BY <2>2, <2>3 DEF Cause, Threshold
<1>7. QED
    BY <1>3, <1>6

\* One member works, the others are at rest.
LEMMA WorkKeeps ==
    ASSUME TypeOK, TypeOK', Calm, UNCHANGED <<owner, stopping>>,
           NEW c \in Consumers, owner = c,
           \A d \in Consumers \ {c} : cpc'[d] = cpc[d] /\ cb'[d] = cb[d],
           \A r \in rows' : r \notin Unstorable /\ \E j \in 1..Inserted(c)' : log'[j] = r,
           cb'[c].state = "closed",
           cb'[c].failures =< Cardinality(Behind(c)'),
           cpc'[c] \in {"mark", "dlq"} => Message(c)' \in Unstorable,
           dlq' \cap Requests \subseteq Unstorable
    PROVE  Calm'
<1>1. c # NoConsumer
    BY GroupAssumption
<1>2. \A d \in Consumers \ {c} :
         /\ cpc'[d] = "poll" /\ owner' # d
         /\ cb'[d].failures =< 0 /\ cb'[d].state = "closed"
    BY DEF Calm
<1>3. QED
    BY <1>1, <1>2 DEF Calm

\* A row that stands in the way of an order is of an earlier message.
LEMMA ClashIsEarlier ==
    ASSUME TypeOK, Calm, NEW c \in Consumers, owner = c, cpc[c] = "insert",
           Message(c) \in Requests, off[c] \in 1..Len(log), IsDuplicateKey(Message(c))
    PROVE  <<off[c], 0>> \in FailingCalls(off[c])
<1>1. PICK s \in rows : SameOrder(Message(c), s) \/ SameId(Message(c), s)
    BY DEF IsDuplicateKey, HasRow, IdTaken
<1>2. s \in Requests
    BY DEF TypeOK, TypeStores
<1>3. s \notin Unstorable /\ \E j \in 1..(off[c] - 1) : log[j] = s
    BY DEF Calm, Inserted
<1>4. AttemptFails(off[c], 0)
    BY <1>1, <1>2, <1>3 DEF AttemptFails, Clashes, Message
<1>5. <<off[c], 0>> \in (1..off[c]) \X (0..MaxRetries)
    BY NumberAssumption
<1>6. QED
    BY <1>4, <1>5 DEF FailingCalls

\* A failure the breaker counts is one of an attempt that had to fail, and so is
\* each it has counted before: it opens with cause.
LEMMA FailCounts ==
    ASSUME TypeOK, BreakersFit, Calm, NEW c \in Consumers, owner = c,
           NEW K, Behind(c) \subseteq K, K \subseteq FailingCalls(off[c]),
           NEW p \in K, p \notin Behind(c)
    PROVE  /\ Fail(cb[c]).failures =< Cardinality(K)
           /\ Fail(cb[c]).state # "closed" => Cause
<1> DEFINE b == cb[c]
<1>1. Fits(b) /\ b.failures \in Nat /\ b.state = "closed" /\ Allows(b)
    BY DEF BreakersFit, Fits, BreakerStates, Calm, Allows
<1>2. b.failures =< Cardinality(Behind(c))
    BY DEF Calm
<1>3. /\ K \subseteq FailingCalls(Len(log))
      /\ FailingCalls(Len(log)) \subseteq (1..Len(log)) \X (0..MaxRetries)
      /\ Len(log) \in Nat
    BY BehindType
<1>4. /\ Cardinality(FailingCalls(Len(log))) \in Nat
      /\ Cardinality(K) \in Nat /\ Cardinality(K) =< Cardinality(FailingCalls(Len(log)))
    BY <1>3, AttemptsFinite
<1>5. Cardinality(Behind(c)) \in Nat /\ Cardinality(Behind(c)) + 1 =< Cardinality(K)
    <2>1. K \subseteq (1..Len(log)) \X (0..MaxRetries)
        BY <1>3
    <2>2. Behind(c) \in SUBSET K /\ p \in K \ Behind(c)
        OBVIOUS
    <2>3. QED
        BY <1>3, <2>1, <2>2, AttemptsFinite
<1>6. /\ Fits(Fail(b)) /\ Fail(b).failures =< b.failures + 1
      /\ Fail(b).state # "closed" => 100 * (b.failures + 1) >= Threshold * Volume
    BY <1>1, FailFits
<1>7. Fail(b).failures \in Nat
    BY <1>6 DEF Fits, BreakerStates
<1>8. b.failures + 1 =< Cardinality(K)
    BY <1>1, <1>2, <1>4, <1>5
<1>9. 100 * (b.failures + 1) >= Threshold * Volume => Cause
    <2>1. Threshold * Volume \in Int
        BY BreakerAssumption DEF Threshold
    <2>2. QED
        BY <1>1, <1>4, <1>8, <2>1 DEF Cause
<1>10. Fail(b).failures =< Cardinality(K)
    BY <1>1, <1>4, <1>6, <1>7, <1>8
<1>11. QED
    BY <1>6, <1>9, <1>10

\* An insert the breaker lets through.
LEMMA InsertCalm ==
    ASSUME SaleInv, SaleInv', BreakersFit, Calm, NEW c \in Consumers, Do(c), Insert(c),
           cb' = [cb EXCEPT ![c] = IF IsDuplicateKey(Message(c)) THEN Fail(@) ELSE Succeed(@)]
    PROVE  Cause \/ Calm'
<1> USE DEF SaleInv
<1>1. /\ cpc[c] = "insert" /\ InsertRow(c) /\ cpc' = [cpc EXCEPT ![c] = "set"]
      /\ UNCHANGED <<log, owner, stopping, off, dlq>>
    BY DEF Do, Insert, Goto, restVars, memberVars
<1>2. owner = c /\ off[c] \in 1..Len(log) /\ Message(c) \in Requests
    BY <1>1, BehindType, MessageType DEF Calm, HandlerSteps
<1>3. cpc'[c] = "set" /\ \A d \in Consumers \ {c} : cpc'[d] = cpc[d] /\ cb'[d] = cb[d]
    BY <1>1 DEF TypeOK, TypeGroup, BreakersFit
<1>4. cb'[c] = IF IsDuplicateKey(Message(c)) THEN Fail(cb[c]) ELSE Succeed(cb[c])
    BY DEF BreakersFit
<1>5. Inserted(c) = off[c] - 1 /\ Inserted(c)' = off[c]
    BY <1>1, <1>3 DEF Inserted
<1>6. \A r \in rows' : r \notin Unstorable /\ \E j \in 1..off[c] : log[j] = r
    <2>1. \A r \in rows' : r \in rows \/ (r = log[off[c]] /\ r \notin Unstorable)
        BY <1>1 DEF InsertRow, Message
    <2>2. \A r \in rows : r \notin Unstorable /\ \E j \in 1..(off[c] - 1) : log[j] = r
        BY <1>2, <1>5 DEF Calm
    <2>3. off[c] \in 1..off[c] /\ \A j \in 1..(off[c] - 1) : j \in 1..off[c]
        BY <1>2
    <2>4. QED
        BY <2>1, <2>2, <2>3
<1>7. Behind(c)' = FailingCalls(off[c])
    <2>1. Behind(c)' = FailingCalls(off[c])'
        BY <1>3 DEF Behind
    <2>2. FailingCalls(off[c])' = FailingCalls(off[c])
        BY <1>1 DEF FailingCalls, AttemptFails, Clashes, SameOrder, SameId
    <2>3. QED
        BY <2>1, <2>2
<1>8. \/ Cause
      \/ cb'[c].state = "closed" /\ cb'[c].failures =< Cardinality(FailingCalls(off[c]))
    <2>1. CASE IsDuplicateKey(Message(c))
        <3>1. <<off[c], 0>> \in FailingCalls(off[c])
            BY <1>1, <1>2, <2>1, ClashIsEarlier
        <3>2. <<off[c], 0>> \notin Behind(c)
            BY <1>1 DEF Behind, InsertRow
        <3>3. Behind(c) \subseteq FailingCalls(off[c])
            BY DEF Behind
        <3>4. PICK K : K = FailingCalls(off[c])
            OBVIOUS
        <3>5. PICK p \in K : p \notin Behind(c)
            BY <3>1, <3>2, <3>4
        <3>6. /\ Fail(cb[c]).failures =< Cardinality(K)
              /\ Fail(cb[c]).state # "closed" => Cause
            BY <1>2, <3>3, <3>4, <3>5, FailCounts
        <3>7. QED
            BY <1>4, <2>1, <3>4, <3>6
    <2>2. CASE ~IsDuplicateKey(Message(c))
        <3>1. Fits(cb[c]) /\ Allows(cb[c]) /\ cb[c].state = "closed" /\ cb[c].failures \in Nat
            BY DEF BreakersFit, Fits, BreakerStates, Calm, Allows
        <3>2. /\ Fits(Succeed(cb[c])) /\ Succeed(cb[c]).failures =< cb[c].failures
              /\ Succeed(cb[c]).state = "closed"
            BY <3>1, SucceedFits
        <3>3. Succeed(cb[c]).failures \in Nat
            BY <3>2 DEF Fits, BreakerStates
        <3>4. cb[c].failures =< Cardinality(Behind(c))
            BY <1>2 DEF Calm
        <3>5. /\ Cardinality(Behind(c)) \in Nat /\ Cardinality(FailingCalls(off[c])) \in Nat
              /\ Cardinality(Behind(c)) =< Cardinality(FailingCalls(off[c]))
            <4>1. /\ FailingCalls(off[c]) \subseteq (1..Len(log)) \X (0..MaxRetries)
                  /\ Behind(c) \in SUBSET FailingCalls(off[c]) /\ Len(log) \in Nat
                BY BehindType
            <4>2. QED
                BY <4>1, AttemptsFinite
        <3>6. QED
            BY <1>4, <2>2, <3>1, <3>2, <3>3, <3>4, <3>5
    <2>3. QED
        BY <2>1, <2>2
<1>9. dlq' \cap Requests \subseteq Unstorable
    BY <1>1 DEF Calm
<1>10. QED
    BY <1>1, <1>2, <1>3, <1>5, <1>6, <1>7, <1>8, <1>9, WorkKeeps

\* An attempt at an order that MySQL refuses.
LEMMA RefusedRowCalm ==
    ASSUME SaleInv, SaleInv', BreakersFit, Calm, NEW c \in Consumers, Do(c), InsertFails(c),
           cb' = [cb EXCEPT ![c] = Fail(@)], faults' = faults
    PROVE  Cause \/ Calm'
<1> USE DEF SaleInv
<1>1. /\ cpc[c] = "insert" /\ Message(c) \in Unstorable /\ NextAttempt(c)
      /\ UNCHANGED <<log, owner, stopping, off, dlq, rows>>
    <2>1. faults \in Nat
        BY NumberAssumption DEF TypeOK
    <2>2. ~CallFails(c)
        BY <2>1 DEF CallFails, Fault, Calm
    <2>3. QED
        BY <2>2 DEF Do, InsertFails, restVars, memberVars
<1>2. owner = c /\ off[c] \in 1..Len(log) /\ Message(c) \in Requests
    BY <1>1, BehindType, MessageType DEF Calm, HandlerSteps
<1>3. att[c] \in 0..MaxRetries
    BY DEF TypeOK, TypeGroup
<1>4. /\ \A d \in Consumers \ {c} : cpc'[d] = cpc[d] /\ cb'[d] = cb[d]
      /\ \/ cpc'[c] = "insert" /\ att'[c] = att[c] + 1
         \/ cpc'[c] = "mark"
    BY <1>1 DEF NextAttempt, Goto, TypeOK, TypeGroup, BreakersFit
<1>5. cb'[c] = Fail(cb[c])
    BY DEF BreakersFit
<1>6. Message(c)' = Message(c)
    BY <1>1 DEF Message
<1>7. PICK K : K = Behind(c)'
    OBVIOUS
<1>8. FailingCalls(off[c])' = FailingCalls(off[c])
    BY <1>1 DEF FailingCalls, AttemptFails, Clashes, SameOrder, SameId
<1>9. Behind(c) \subseteq K /\ K \subseteq FailingCalls(off[c])
    <2>1. \A p \in FailingCalls(off[c]) : p[2] \in 0..MaxRetries
        BY DEF FailingCalls
    <2>2. K \subseteq FailingCalls(off[c])
        BY <1>7, <1>8 DEF Behind
    <2>3. ASSUME NEW p \in Behind(c) PROVE p \in Behind(c)'
        <3>1. p \in FailingCalls(off[c])' /\ (p[1] = off[c] => p[2] < att[c])
            BY <1>1, <1>8 DEF Behind
        <3>2. p[2] \in 0..MaxRetries
            BY <2>1 DEF Behind
        <3>3. cpc'[c] = "insert" /\ p[1] = off[c] => p[2] < att'[c]
            BY <1>3, <1>4, <3>1, <3>2
        <3>4. QED
            BY <1>1, <1>6, <3>1, <3>3 DEF Behind
    <2>4. QED
        BY <1>7, <2>2, <2>3
<1>10. <<off[c], att[c]>> \in K /\ <<off[c], att[c]>> \notin Behind(c)
    <2>1. AttemptFails(off[c], att[c])
        BY <1>1, <1>2 DEF AttemptFails, Message
    <2>2. <<off[c], att[c]>> \in (1..off[c]) \X (0..MaxRetries)
        BY <1>2, <1>3
    <2>3. <<off[c], att[c]>> \in FailingCalls(off[c])'
        BY <1>8, <2>1, <2>2 DEF FailingCalls
    <2>4. cpc'[c] = "insert" => att[c] < att'[c]
        BY <1>3, <1>4
    <2>5. <<off[c], att[c]>> \in Behind(c)'
        BY <1>1, <1>6, <2>3, <2>4 DEF Behind
    <2>6. <<off[c], att[c]>> \notin Behind(c)
        BY <1>1, <1>3 DEF Behind
    <2>7. QED
        BY <1>7, <2>5, <2>6
<1>11. /\ cb'[c].failures =< Cardinality(K)
       /\ cb'[c].state # "closed" => Cause
    <2>1. PICK p \in K : p \notin Behind(c)
        BY <1>10
    <2>2. QED
        BY <1>2, <1>5, <1>9, <2>1, FailCounts
<1>12. \A r \in rows' : r \notin Unstorable /\ \E j \in 1..Inserted(c)' : log'[j] = r
    <2>1. Inserted(c) = off[c] - 1 /\ Inserted(c)' \in {off[c] - 1, off[c]}
        BY <1>1, <1>4 DEF Inserted
    <2>2. \A j \in 1..Inserted(c) : j \in 1..Inserted(c)'
        BY <1>2, <2>1
    <2>3. \A r \in rows : r \notin Unstorable /\ \E j \in 1..Inserted(c) : log[j] = r
        BY <1>2 DEF Calm
    <2>4. QED
        BY <1>1, <2>2, <2>3
<1>13. /\ cpc'[c] \in {"mark", "dlq"} => Message(c)' \in Unstorable
       /\ dlq' \cap Requests \subseteq Unstorable
    BY <1>1, <1>6 DEF Calm
<1>14. QED
    BY <1>1, <1>2, <1>4, <1>7, <1>11, <1>12, <1>13, WorkKeeps

\* A member moves on: nothing is inserted and no breaker changes.
LEMMA MemberMoves ==
    ASSUME SaleInv, SaleInv', BreakersFit, Calm, UNCHANGED <<log, rows, owner, stopping, cb>>,
           NEW c \in Consumers, owner = c,
           \A d \in Consumers \ {c} : cpc'[d] = cpc[d],
           Inserted(c)' \in {Inserted(c), Inserted(c) + 1},
           Behind(c) \subseteq Behind(c)',
           cpc'[c] \in {"mark", "dlq"} => Message(c)' \in Unstorable,
           dlq' \cap Requests \subseteq Unstorable
    PROVE  Calm'
<1> USE DEF SaleInv
<1>1. Inserted(c) \in Nat
    <2>1. off[c] \in 0..Len(log) /\ Len(log) \in Nat /\ (cpc[c] # "poll" => off[c] \in 1..Len(log))
        BY BehindType
    <2>2. QED
        BY <2>1 DEF Inserted
<1>2. \A r \in rows' : r \notin Unstorable /\ \E j \in 1..Inserted(c)' : log'[j] = r
    <2>1. \A r \in rows : r \notin Unstorable /\ \E j \in 1..Inserted(c) : log[j] = r
        BY DEF Calm
    <2>2. \A j \in 1..Inserted(c) : j \in 1..Inserted(c)'
        BY <1>1
    <2>3. QED
        BY <2>1, <2>2
<1>3. cb'[c].failures =< Cardinality(Behind(c)')
    <2>1. Behind(c)' \subseteq (1..Len(log)) \X (0..MaxRetries) /\ Len(log) \in Nat
        <3>1. /\ Behind(c)' \subseteq FailingCalls(off[c])'
              /\ FailingCalls(off[c])' \subseteq (1..off'[c]) \X (0..MaxRetries)
            BY DEF Behind, FailingCalls
        <3>2. off'[c] \in 0..Len(log) /\ Len(log) \in Nat
            BY DEF TypeOK, TypeGroup, TypeStores
        <3>3. 1..off'[c] \subseteq 1..Len(log)
            BY <3>2
        <3>4. QED
            BY <3>1, <3>2, <3>3
    <2>2. /\ Cardinality(Behind(c)) \in Nat /\ Cardinality(Behind(c)') \in Nat
          /\ Cardinality(Behind(c)) =< Cardinality(Behind(c)')
        BY <2>1, AttemptsFinite
    <2>3. cb[c].failures =< Cardinality(Behind(c)) /\ cb[c].failures \in Nat
        BY DEF Calm, BreakersFit, BreakerStates
    <2>4. QED
        BY <2>2, <2>3
<1>4. cb'[c].state = "closed"
    BY DEF Calm
<1>5. QED
    BY <1>2, <1>3, <1>4, WorkKeeps

\* A message just fetched has no attempt behind it, and those before it keep
\* theirs.
LEMMA FetchCalm ==
    ASSUME SaleInv, SaleInv', BreakersFit, Calm, NEW c \in Consumers, Fetch(c),
           UNCHANGED <<log, cb>>
    PROVE  Calm'
<1> USE DEF SaleInv
<1>1. /\ owner = c /\ cpc[c] = "poll" /\ UNCHANGED <<rows, owner, stopping, dlq>>
      /\ off' = [off EXCEPT ![c] = @ + 1]
      /\ \E x \in {"insert", "reject"} : cpc' = [cpc EXCEPT ![c] = x]
    BY DEF Fetch, FirstStep, Goto
<1>2. /\ off'[c] = off[c] + 1 /\ off[c] \in 0..Len(log) /\ off[c] + 1 \in 0..Len(log)
      /\ cpc'[c] \in {"insert", "reject"}
      /\ \A d \in Consumers \ {c} : cpc'[d] = cpc[d]
    BY <1>1 DEF TypeOK, TypeGroup
<1>3. Inserted(c) = off[c] /\ Inserted(c)' = off[c]
    BY <1>1, <1>2 DEF Inserted
<1>4. Behind(c) \subseteq Behind(c)'
    <2>1. Len(log) \in Nat /\ 0..Len(log) \subseteq Nat
        BY DEF TypeOK, TypeStores
    <2>2. off[c] \in 0..(off[c] + 1)
        BY <1>2, <2>1
    <2>3. FailingCalls(off[c]) \subseteq FailingCalls(off[c] + 1)
        BY <1>2, <2>2, FailingType
    <2>4. FailingCalls(off[c] + 1) = FailingCalls(off[c])'
        BY <1>2 DEF FailingCalls, AttemptFails, Clashes, SameOrder, SameId
    <2>5. \A p \in FailingCalls(off[c]) : p[1] # off[c] + 1
        BY <1>2 DEF FailingCalls
    <2>6. QED
        BY <1>2, <2>3, <2>4, <2>5 DEF Behind
<1>5. QED
    BY <1>1, <1>2, <1>3, <1>4, MemberMoves DEF Calm

\* Around the insert nothing is counted, and only an order that MySQL refuses
\* goes to the DLQ.
LEMMA AroundCalm ==
    ASSUME SaleInv, SaleInv', BreakersFit, Calm, NEW c \in Consumers, Around(c),
           faults' = faults
    PROVE  Calm'
<1> USE DEF SaleInv
<1>1. UNCHANGED <<log, cb>>
    BY DEF Around, restVars
<1>2. c \notin stopping /\ faults \in Nat
    BY NumberAssumption DEF Calm, TypeOK
<1>3. ~ SetTokenFails(c)
    BY <1>2 DEF SetTokenFails, CallFails, Fault
<1>4. CASE Fetch(c)
    BY <1>1, <1>4, FetchCalm
<1>5. CASE Reject(c) \/ SetToken(c) \/ MarkFailed(c) \/ SendDLQ(c) \/ Commit(c) \/ Skip(c)
    <2>1. /\ \/ cpc[c] = "reject" /\ Goto(c, "skip") /\ dlq' \in {dlq, dlq \cup {Garbage}}
             \/ cpc[c] = "set" /\ Goto(c, "commit") /\ dlq' = dlq
             \/ cpc[c] = "mark" /\ Goto(c, "dlq") /\ dlq' = dlq
             \/ /\ cpc[c] = "dlq" /\ Goto(c, "commit")
                /\ dlq' \in {dlq, dlq \cup {Message(c)}}
             \/ cpc[c] = "commit" /\ Goto(c, "poll") /\ dlq' = dlq
             \/ cpc[c] = "skip" /\ Goto(c, "poll") /\ dlq' = dlq
          /\ UNCHANGED <<off, rows, owner, stopping>>
        BY <1>2, <1>5 DEF Reject, SetToken, MarkFailed, SendDLQ, Commit, Skip, memberVars
    <2>2. owner = c
        BY <2>1 DEF Calm
    <2>3. \A x : Goto(c, x) => cpc'[c] = x /\ \A d \in Consumers \ {c} : cpc'[d] = cpc[d]
        BY DEF Goto, TypeOK, TypeGroup
    <2>4. Message(c)' = Message(c)
        BY <1>1, <2>1 DEF Message
    <2>5. dlq' \cap Requests \subseteq Unstorable
        BY <2>1, RequestAssumption DEF Calm
    <2>6. cpc'[c] \in {"mark", "dlq"} => Message(c)' \in Unstorable
        BY <2>1, <2>3, <2>4 DEF Calm
    <2>7. Inserted(c)' \in {Inserted(c), Inserted(c) + 1}
        <3>1. off[c] \in Nat
            BY DEF TypeOK, TypeGroup
        <3>2. QED
            BY <2>1, <2>3, <3>1 DEF Inserted
    <2>8. Behind(c) \subseteq Behind(c)'
        <3>1. FailingCalls(off[c])' = FailingCalls(off[c])
            BY <1>1, <2>1 DEF FailingCalls, AttemptFails, Clashes, SameOrder, SameId
        <3>2. cpc'[c] # "insert"
            BY <2>1, <2>3
        <3>3. QED
            BY <3>1, <3>2 DEF Behind
    <2>9. QED
        BY <1>1, <2>1, <2>2, <2>3, <2>5, <2>6, <2>7, <2>8, MemberMoves
<1>6. QED
    BY <1>3, <1>4, <1>5 DEF Around

\* The group is at rest: the topic may grow, the counts may be forgotten, and
\* a first member may get the partition.
LEMMA RestCalm ==
    ASSUME SaleInv, SaleInv', BreakersFit, Calm, TracesKept,
           UNCHANGED <<dlq, rows, stopping, cpc, att>>,
           \A d \in Consumers : /\ cb'[d].failures \in {cb[d].failures, 0}
                                /\ cb'[d].state = "closed",
           \/ UNCHANGED <<owner, off>>
           \/ UNCHANGED log /\ owner = NoConsumer /\ \E c \in Consumers : owner' = c
    PROVE  Calm'
<1> USE DEF SaleInv
<1>1. \A n \in 0..Len(log) : FailingCalls(n)' = FailingCalls(n)
    BY FailingKept
<1>2. ASSUME NEW d \in Consumers
      PROVE  cb[d].failures \in Nat /\ (owner # d => cb[d].failures = 0)
    BY DEF BreakersFit, BreakerStates, Calm
<1>3. CASE UNCHANGED <<owner, off>>
    <2>1. ASSUME NEW d \in Consumers
          PROVE  /\ \A j \in 1..Inserted(d) : log'[j] = log[j]
                 /\ Inserted(d)' = Inserted(d)
                 /\ cpc[d] # "poll" => Message(d)' = Message(d)
                 /\ Behind(d)' = Behind(d)
        <3>1. /\ off[d] \in 0..Len(log) /\ Len(log) \in Nat
              /\ cpc[d] # "poll" => off[d] \in 1..Len(log)
            BY BehindType
        <3>2. Inserted(d)' = Inserted(d) /\ Inserted(d) \in 0..Len(log)
            BY <1>3, <3>1 DEF Inserted
        <3>3. \A j \in 1..Inserted(d) : j \in 1..Len(log)
            BY <3>1, <3>2
        <3>4. cpc[d] # "poll" => Message(d)' = Message(d)
            BY <1>3, <3>1 DEF Message, TracesKept
        <3>5. FailingCalls(off[d])' = FailingCalls(off[d])
            <4>1. PICK n \in 0..Len(log) : n = off[d]
                BY <3>1
            <4>2. FailingCalls(n)' = FailingCalls(n)
                BY <1>1
            <4>3. FailingCalls(off[d])' = FailingCalls(n)'
                BY <1>3, <4>1 DEF FailingCalls
            <4>4. QED
                BY <4>1, <4>2, <4>3
        <3>6. Behind(d)' = Behind(d)
            BY <1>3, <3>4, <3>5 DEF Behind
        <3>7. QED
            BY <3>2, <3>3, <3>4, <3>6 DEF TracesKept
    <2>2. ASSUME NEW d \in Consumers
          PROVE  cb'[d].failures =< IF owner = d THEN Cardinality(Behind(d)) ELSE 0
        <3>1. Cardinality(Behind(d)) \in Nat
            <4>1. Behind(d) \subseteq (1..Len(log)) \X (0..MaxRetries) /\ Len(log) \in Nat
                BY BehindType
            <4>2. QED
                BY <4>1, AttemptsFinite
        <3>2. cb[d].failures =< IF owner = d THEN Cardinality(Behind(d)) ELSE 0
            BY DEF Calm
        <3>3. QED
            BY <1>2, <3>1, <3>2
    <2>3. ASSUME NEW d \in Consumers, owner = d, NEW r \in rows
          PROVE  r \notin Unstorable /\ \E j \in 1..Inserted(d)' : log'[j] = r
        BY <2>1, <2>3 DEF Calm
    <2>4. ASSUME NEW d \in Consumers
          PROVE  /\ cpc'[d] # "poll" => owner' = d
                 /\ cpc'[d] \in {"mark", "dlq"} => Message(d)' \in Unstorable
        BY <1>3, <2>1 DEF Calm
    <2>5. QED
        BY <1>3, <2>1, <2>2, <2>3, <2>4 DEF Calm
<1>4. CASE UNCHANGED log /\ owner = NoConsumer /\ \E c \in Consumers : owner' = c
    <2>1. rows' = {} /\ owner' # NoConsumer /\ \A d \in Consumers : cpc'[d] = "poll" /\ owner # d
        BY <1>4, GroupAssumption DEF Calm
    <2>2. \A d \in Consumers : cb'[d].failures = 0
        BY <1>2, <2>1
    <2>3. ASSUME NEW d \in Consumers PROVE Cardinality(Behind(d)') \in Nat
        <3>1. /\ Behind(d)' \subseteq (1..off'[d]) \X (0..MaxRetries) /\ off'[d] \in Nat
            BY DEF Behind, FailingCalls, TypeOK, TypeGroup
        <3>2. QED
            BY <3>1, AttemptsFinite
    <2>4. QED
        BY <2>1, <2>2, <2>3 DEF Calm
<1>5. QED
    BY <1>3, <1>4

\* Without a failure no process is renewed and no partition changes hands, and a
\* closed breaker refuses nothing.
LEMMA CauseNext ==
    ASSUME SaleInv, BreakersFit, CauseInv, [BreakerNext]_allVars
    PROVE  CauseInv'
<1>1. SaleInv' /\ TracesKept
    BY BreakerKeeps
<1>2. SUFFICES ASSUME faults' = 0, stops' = 0 PROVE Cause' \/ Calm'
    BY DEF CauseInv
<1>3. faults = 0 /\ stops = 0 /\ UNCHANGED <<faults, stops>>
    <2>1. CASE [Next]_vars /\ ~ \E c \in Consumers : Consume(c)
        BY <1>2, <2>1, ElsewhereSteps DEF SaleInv
    <2>2. CASE \E c \in Consumers : Consume(c)
        BY <1>2, <2>2, ConsumeCounts DEF SaleInv
    <2>3. CASE \E c \in Consumers : Refused(c)
        BY <1>2, <2>3, RefusedSteps DEF SaleInv
    <2>4. QED
        BY <2>1, <2>2, <2>3, BreakerStep
<1>4. Cause => Cause'
    BY <1>1, FailingKept DEF SaleInv
<1>5. SUFFICES ASSUME Calm PROVE Cause \/ Calm'
    BY <1>3, <1>4 DEF CauseInv
<1>6. ~Fault /\ stops' # stops + 1
    BY <1>3 DEF Fault
<1>7. CASE \/ (Shop \/ ApiCrash \/ PublishGarbage) /\ UNCHANGED cb
           \/ \E r \in Requests : Serve(r) /\ UNCHANGED cb
           \/ UNCHANGED allVars
    <2>1. UNCHANGED <<dlq, rows, stopping, cpc, att, owner, off, cb>>
        BY <1>7 DEF Shop, ApiCrash, PublishGarbage, Serve, allVars, vars, storeVars, groupVars
    <2>2. QED
        BY <1>1, <1>5, <2>1, RestCalm DEF Calm
<1>8. ASSUME NEW c \in Consumers, Assign(c), UNCHANGED cb PROVE Calm'
    <2>1. UNCHANGED <<dlq, rows, log, stopping, cpc, att>> /\ owner = NoConsumer /\ owner' = c
        BY <1>6, <1>8 DEF Assign, storeVars
    <2>2. QED
        BY <1>1, <1>5, <1>8, <2>1, RestCalm DEF Calm
<1>9. ASSUME NEW c \in Consumers, TimePasses(c) PROVE Calm'
    <2>1. UNCHANGED <<dlq, rows, stopping, cpc, att, owner, off>>
        BY <1>9 DEF TimePasses, vars, storeVars, groupVars
    <2>2. \A d \in Consumers : /\ cb'[d].failures \in {cb[d].failures, 0}
                               /\ cb'[d].state = "closed"
        <3>1. cb[c].state = "closed" /\ cb'[c] = Closed
            BY <1>5, <1>9 DEF TimePasses, BreakersFit, Calm
        <3>2. \A d \in Consumers \ {c} : cb'[d] = cb[d]
            BY <1>9 DEF TimePasses, BreakersFit
        <3>3. QED
            BY <1>5, <3>1, <3>2 DEF Closed, Calm
    <2>3. QED
        BY <1>1, <1>5, <2>1, <2>2, RestCalm
<1>10. ASSUME NEW c \in Consumers, Do(c) PROVE Cause \/ Calm'
    <2>1. \/ /\ Insert(c)
             /\ cb' = [cb EXCEPT ![c] = IF IsDuplicateKey(Message(c))
                                          THEN Fail(@) ELSE Succeed(@)]
          \/ InsertFails(c) /\ cb' = [cb EXCEPT ![c] = Fail(@)]
        BY <1>10 DEF Do
    <2>2. QED
        BY <1>1, <1>3, <1>5, <1>10, <2>1, InsertCalm, RefusedRowCalm
<1>11. ASSUME NEW c \in Consumers, Around(c) PROVE Calm'
    BY <1>1, <1>3, <1>5, <1>11, AroundCalm
<1>12. ASSUME NEW c \in Consumers PROVE ~Renew(c) /\ ~Stop(c) /\ ~Refused(c)
    BY <1>5, <1>6 DEF Renew, Crash, Stop, CommitFails, CallFails, Refused, Allows, Calm
<1>13. QED
    BY <1>7, <1>8, <1>9, <1>10, <1>11, <1>12 DEF BreakerNext

LEMMA CauseHolds == BreakerSpec => []CauseInv
<1>1. BreakerInit => CauseInv
    <2> SUFFICES ASSUME BreakerInit PROVE Calm
        BY DEF CauseInv
    <2>1. \A c \in Consumers : owner # c /\ cb[c] = Closed /\ cpc[c] = "poll"
        BY GroupAssumption DEF BreakerInit, Init
    <2>2. QED
        BY <2>1 DEF BreakerInit, Init, Calm, Closed
<1>2. SaleInv /\ BreakersFit /\ CauseInv /\ [BreakerNext]_allVars => CauseInv'
    BY CauseNext
<1>3. QED
    BY <1>1, <1>2, BehindBreaker, BreakersHold, PTL DEF BreakerSpec, allVars

\* As long as no call fails and nobody is stopped, an order MySQL would take is
\* in the DLQ without a row only if clashes of keys and ids and attempts at orders
\* it refuses are together enough to trip a breaker, at any thresholds.
THEOREM ClashesOpenBreakers == BreakerSpec => []DeadLetterHasCause
<1>1. CauseInv => DeadLetterHasCause
    BY DEF CauseInv, Calm, Cause, DeadLetterHasCause, Unplaced
<1>2. QED
    BY <1>1, CauseHolds, PTL

=============================================================================
