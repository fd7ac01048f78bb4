-------------------------- MODULE FlashDealProofs --------------------------
(***************************************************************************)
(* Theorems about FlashDeal, for every value of its constants.             *)
(***************************************************************************)
EXTENDS FlashDealSale, FiniteSetTheorems, TLAPS

(***************************************************************************)
(* Typing.                                                                 *)
(***************************************************************************)

\* The message a busy consumer holds is one of the topic.
LEMMA MessageType ==
    ASSUME TypeOK, NEW c \in Consumers, cpc[c] \in HandlerSteps
    PROVE  /\ off[c] \in 1..Len(log)
           /\ Message(c) \in Requests
<1>1. off[c] \in 1..Len(log)
    BY DEF TypeOK, TypeGroup, TypeStores, Busy
<1>2. QED
    BY <1>1 DEF TypeOK, TypeGroup

\* Appending to the topic keeps its type and every offset within it.
LEMMA LogGrows ==
    ASSUME TypeOK, NEW r \in Records,
           log' \in {log, Append(log, r), log \o <<r, r>>}
    PROVE  /\ log' \in Seq(Records)
           /\ Len(log) =< Len(log')
           /\ Len(log') \in Nat /\ Len(log) \in Nat
           /\ \A i \in 1..Len(log) : log'[i] = log[i]
<1>1. log \in Seq(Records)
    BY DEF TypeOK, TypeStores
<1>2. CASE log' = log
    BY <1>1, <1>2
<1>3. CASE log' = Append(log, r)
    BY <1>1, <1>3
<1>4. CASE log' = log \o <<r, r>>
    <2>1. <<r, r>> \in Seq(Records) /\ Len(<<r, r>>) = 2
        OBVIOUS
    <2>2. /\ log' \in Seq(Records) /\ Len(log') = Len(log) + 2
          /\ Len(log) \in Nat
        BY <1>1, <1>4, <2>1
    <2>3. \A i \in 1..Len(log) : log'[i] = log[i]
        BY <1>1, <1>4, <2>1
    <2>4. QED
        BY <2>2, <2>3
<1>5. QED
    BY <1>2, <1>3, <1>4

\* Growing the topic moves no consumer and no message in its hands.
LEMMA GroupKeeps ==
    ASSUME TypeOK, NEW r \in Records, UNCHANGED groupVars,
           log' \in {log, Append(log, r), log \o <<r, r>>}
    PROVE  TypeGroup' /\ (committed \in 0..Len(log))'
<1>1. /\ Len(log) =< Len(log') /\ Len(log') \in Nat /\ Len(log) \in Nat
      /\ \A i \in 1..Len(log) : log'[i] = log[i]
    BY LogGrows
<1>2. \A n \in 0..Len(log) : n \in 0..Len(log')
    BY <1>1
<1>3. \A c \in Consumers : cpc[c] \in HandlerSteps => Message(c)' \in Requests
    <2>1. SUFFICES ASSUME NEW c \in Consumers, cpc[c] \in HandlerSteps
                   PROVE  Message(c)' \in Requests
        OBVIOUS
    <2>2. off[c] \in 1..Len(log) /\ Message(c) \in Requests
        BY <2>1, MessageType
    <2>3. Message(c)' = Message(c)
        BY <1>1, <2>2 DEF Message, groupVars
    <2>4. QED
        BY <2>2, <2>3
<1>4. TypeGroup'
    BY <1>2, <1>3 DEF TypeOK, TypeGroup, groupVars
<1>5. QED
    BY <1>2, <1>4 DEF TypeOK, TypeStores, groupVars

\* Taking a unit keeps the types of what the Lua script writes.
LEMMA UnitTyped ==
    ASSUME TypeOK, NEW r \in Requests, LuaAdmits(r), LuaTakes(r)
    PROVE  /\ stock' \in {NoKey} \cup 0..Total
           /\ userBuy' \in [Users -> 0..Limit]
           /\ taken' \in [Requests -> Nat]
           /\ sold' \subseteq [req : Requests, nth : Nat, warm : Nat]
<1>1. UserOf[r] \in Users
    BY RequestAssumption
<1>2. stock' \in 0..Total
    BY NumberAssumption DEF TypeOK, TypeShop, LuaAdmits, LuaTakes, NoKey
<1>3. userBuy' \in [Users -> 0..Limit]
    BY <1>1, NumberAssumption DEF TypeOK, TypeShop, LuaAdmits, LuaTakes
<1>4. taken' \in [Requests -> Nat]
    BY DEF TypeOK, TypeApi, LuaTakes
<1>5. sold' \subseteq [req : Requests, nth : Nat, warm : Nat]
    BY NumberAssumption DEF TypeOK, TypeApi, TypeShop, LuaTakes
<1>6. QED
    BY <1>2, <1>3, <1>4, <1>5

(***************************************************************************)
(* TypeOK is inductive: one lemma per actor, one step per action.          *)
(***************************************************************************)

LEMMA InitTyped == Init => TypeOK
<1> SUFFICES ASSUME Init PROVE TypeOK
    OBVIOUS
<1>1. TypeApi /\ TypeShop
    BY NumberAssumption DEF Init, TypeApi, TypeShop, Steps, Outcomes, Phases, NoKey
<1>2. TypeStores
    BY DEF Init, TypeStores, QueueStates
<1>3. TypeGroup
    BY NumberAssumption DEF Init, TypeGroup, HandlerSteps, PoisonSteps, Busy
<1>4. faults \in 0..MaxFaults /\ stops \in 0..MaxStops
    BY NumberAssumption DEF Init
<1>5. QED
    BY <1>1, <1>2, <1>3, <1>4 DEF TypeOK

\* The admin, the clock and the TTLs only touch the shop and the tokens.
LEMMA ShopTyped == TypeOK /\ Shop => TypeOK'
<1> SUFFICES ASSUME TypeOK, Shop PROVE TypeOK'
    OBVIOUS
<1> USE NumberAssumption DEF TypeOK, TypeShop, Phases
<1>1. UNCHANGED <<log, dlq, rows, apiVars, groupVars, faults, stops>>
    BY DEF Shop
<1>2. TypeApi' /\ TypeGroup' /\ (faults \in 0..MaxFaults)' /\ (stops \in 0..MaxStops)'
    BY <1>1 DEF apiVars, groupVars, TypeApi, TypeGroup, Message
<1>3. (queue \in [Requests -> QueueStates])' => TypeStores'
    BY <1>1 DEF groupVars, TypeStores
<1>4. CASE CreateActivity
    BY <1>2, <1>3, <1>4 DEF CreateActivity, TypeStores
<1>5. CASE Warm
    BY <1>2, <1>3, <1>5 DEF Warm, TypeStores
<1>6. CASE Tick
    BY <1>2, <1>3, <1>6 DEF Tick, TypeStores
<1>7. CASE ExpireStock
    BY <1>2, <1>3, <1>7 DEF ExpireStock, TypeStores
<1>8. CASE \E u \in Users : ExpireUserBuy(u)
    BY <1>2, <1>3, <1>8 DEF ExpireUserBuy, TypeStores
<1>9. CASE \E r \in Requests : ExpireQueueToken(r)
    BY <1>2, <1>3, <1>9 DEF ExpireQueueToken, TypeStores, QueueStates
<1>10. QED
    BY <1>4, <1>5, <1>6, <1>7, <1>8, <1>9 DEF Shop

\* Seckill: what its steps leave alone keeps its type because the topic only
\* grows, so each step has its own variables to account for.
LEMMA ServeTyped == ASSUME TypeOK, NEW r \in Requests, Serve(r) PROVE TypeOK'
<1>1. UNCHANGED <<phase, warms, dlq, rows, groupVars, stops>>
    BY DEF Serve
<1>2. ASSUME log' \in {log, Append(log, r), log \o <<r, r>>},
             (queue \in [Requests -> QueueStates])'
      PROVE  TypeStores' /\ TypeGroup' /\ (stops \in 0..MaxStops)'
    <2>1. r \in Records
        BY DEF Records
    <2>2. log' \in Seq(Records)
        BY <1>2, <2>1, LogGrows
    <2>3. TypeGroup' /\ (committed \in 0..Len(log))'
        BY <1>1, <1>2, <2>1, GroupKeeps
    <2>4. TypeStores'
        BY <1>1, <1>2, <2>2, <2>3 DEF TypeOK, TypeStores
    <2>5. QED
        BY <1>1, <2>3, <2>4 DEF TypeOK
<1>3. ASSUME UNCHANGED unitVars PROVE TypeShop' /\ (taken \in [Requests -> Nat])' /\ (sold \subseteq [req : Requests, nth : Nat, warm : Nat])'
    BY <1>1, <1>3 DEF TypeOK, TypeShop, TypeApi, unitVars
<1>4. ASSUME LuaAdmits(r), LuaTakes(r) PROVE TypeShop' /\ (taken \in [Requests -> Nat])' /\ (sold \subseteq [req : Requests, nth : Nat, warm : Nat])'
    BY <1>1, <1>4, UnitTyped DEF TypeOK, TypeShop
<1>5. Fault => (faults \in 0..MaxFaults)'
    BY NumberAssumption DEF TypeOK, Fault
<1>6. \A o \in Outcomes : Answer(r, o) =>
          (pc \in [Requests -> Steps])' /\ (resp \in [Requests -> Outcomes])'
    BY DEF TypeOK, TypeApi, Answer, Steps
<1>7. CASE FetchActivity(r)
    <2>1. (pc \in [Requests -> Steps])' /\ (resp \in [Requests -> Outcomes])'
        BY <1>6, <1>7 DEF FetchActivity, TypeOK, TypeApi, Steps, Outcomes
    <2>2. QED
        BY <1>2, <1>3, <1>7, <2>1 DEF FetchActivity, TypeOK, TypeApi, TypeStores
<1>8. CASE ReadFails(r)
    <2>1. (pc \in [Requests -> Steps])' /\ (resp \in [Requests -> Outcomes])'
        BY <1>6, <1>8 DEF ReadFails, Outcomes
    <2>2. QED
        BY <1>2, <1>3, <1>5, <1>8, <2>1 DEF ReadFails, TypeOK, TypeApi, TypeStores
<1>9. CASE DeductOk(r)
    <2>1. (pc \in [Requests -> Steps])' /\ (resp \in [Requests -> Outcomes])'
        BY <1>9 DEF DeductOk, TypeOK, TypeApi, Steps
    <2>2. QED
        BY <1>2, <1>4, <1>9, <2>1 DEF DeductOk, TypeOK, TypeApi, TypeStores
<1>10. CASE DeductRefused(r)
    <2>1. (pc \in [Requests -> Steps])' /\ (resp \in [Requests -> Outcomes])'
        BY <1>6, <1>10 DEF DeductRefused, Outcomes
    <2>2. QED
        BY <1>2, <1>3, <1>10, <2>1 DEF DeductRefused, TypeOK, TypeApi, TypeStores
<1>11. CASE DeductLostReply(r)
    <2>1. (pc \in [Requests -> Steps])' /\ (resp \in [Requests -> Outcomes])'
        BY <1>6, <1>11 DEF DeductLostReply, TypeOK, TypeApi, Outcomes
    <2>2. QED
        BY <1>2, <1>4, <1>5, <1>11, <2>1 DEF DeductLostReply, TypeOK, TypeApi, TypeStores
<1>12. CASE NewToken(r)
    <2>1. (pc \in [Requests -> Steps])' /\ (queue \in [Requests -> QueueStates])'
        BY <1>12 DEF NewToken, TypeOK, TypeApi, TypeStores, Steps, QueueStates
    <2>2. QED
        BY <1>2, <1>3, <1>12, <2>1 DEF NewToken, TypeOK, TypeApi
<1>13. CASE FallbackToken(r)
    <2>1. (pc \in [Requests -> Steps])'
        BY <1>13 DEF FallbackToken, TypeOK, TypeApi, Steps
    <2>2. QED
        BY <1>2, <1>3, <1>5, <1>13, <2>1 DEF FallbackToken, TypeOK, TypeApi, TypeStores
<1>14. CASE Produce(r)
    <2>1. (pc \in [Requests -> Steps])' /\ (resp \in [Requests -> Outcomes])'
        BY <1>6, <1>14 DEF Produce, Outcomes
    <2>2. QED
        BY <1>2, <1>3, <1>14, <2>1 DEF Produce, TypeOK, TypeApi, TypeStores
<1>15. CASE ProduceTwice(r)
    <2>1. (pc \in [Requests -> Steps])' /\ (resp \in [Requests -> Outcomes])'
        BY <1>6, <1>15 DEF ProduceTwice, Outcomes
    <2>2. QED
        BY <1>2, <1>3, <1>5, <1>15, <2>1 DEF ProduceTwice, TypeOK, TypeApi, TypeStores
<1>16. CASE ProduceFails(r)
    <2>1. (pc \in [Requests -> Steps])' /\ (resp \in [Requests -> Outcomes])'
        BY <1>6, <1>16 DEF ProduceFails, Outcomes
    <2>2. QED
        BY <1>2, <1>3, <1>5, <1>16, <2>1 DEF ProduceFails, TypeOK, TypeApi, TypeStores
<1>17. QED
    BY <1>7, <1>8, <1>9, <1>10, <1>11, <1>12, <1>13, <1>14, <1>15, <1>16 DEF Serve

LEMMA ApiCrashTyped == TypeOK /\ ApiCrash => TypeOK'
<1> SUFFICES ASSUME TypeOK, ApiCrash PROVE TypeOK'
    OBVIOUS
<1>1. (pc \in [Requests -> Steps])'
    BY DEF ApiCrash, TypeOK, TypeApi, Steps
<1>2. (faults \in 0..MaxFaults)'
    BY NumberAssumption DEF ApiCrash, Fault, TypeOK
<1>3. QED
    BY <1>1, <1>2 DEF ApiCrash, TypeOK, TypeApi, TypeShop, TypeStores,
                      TypeGroup, Message, shopVars, storeVars, groupVars

\* A foreign record is one more of the topic.
LEMMA PublishTyped == TypeOK /\ PublishGarbage => TypeOK'
<1> SUFFICES ASSUME TypeOK, PublishGarbage PROVE TypeOK'
    OBVIOUS
<1>1. Garbage \in Records /\ log' = Append(log, Garbage) /\ UNCHANGED groupVars
    BY DEF PublishGarbage, Records
<1>2. TypeGroup' /\ (committed \in 0..Len(log))' /\ log' \in Seq(Records)
    BY <1>1, LogGrows, GroupKeeps
<1>3. QED
    BY <1>2 DEF PublishGarbage, TypeOK, TypeApi, TypeShop, TypeStores, shopVars, apiVars

\* The Run loop: the shop, the requests and the topic stay as they are.
LEMMA ConsumeTyped ==
    ASSUME TypeOK, NEW c \in Consumers, Consume(c)
    PROVE  TypeOK'
<1> DEFINE Places == {"poll"} \cup Busy
<1>1. UNCHANGED <<shopVars, apiVars, log, stops>>
    BY DEF Consume
<1>2. TypeApi' /\ TypeShop' /\ (stops \in 0..MaxStops)'
    BY <1>1 DEF TypeOK, TypeApi, TypeShop, shopVars, apiVars
<1>3. ASSUME (queue \in [Requests -> QueueStates])', (dlq \subseteq Records)',
             (rows \subseteq Requests)', (committed \in 0..Len(log))'
      PROVE  TypeStores'
    BY <1>1, <1>3 DEF TypeOK, TypeStores
<1>4. Fault => (faults \in 0..MaxFaults)'
    BY NumberAssumption DEF TypeOK, Fault
<1>5. CallFails(c) => (faults \in 0..MaxFaults)'
    BY <1>4 DEF TypeOK, CallFails
<1>6. \A step \in Places : Goto(c, step) => cpc' = [cpc EXCEPT ![c] = step]
    BY DEF Goto
<1>7. cpc[c] \in HandlerSteps => Message(c) \in Requests /\ off[c] \in 1..Len(log)
    BY MessageType
<1>8. ASSUME cpc[c] \in Busy, NEW step \in Places, Goto(c, step),
             step \in HandlerSteps => cpc[c] \in HandlerSteps,
             UNCHANGED <<owner, off, stopping>>, (att \in [Consumers -> 0..MaxRetries])'
      PROVE  TypeGroup'
    <2>1. \A d \in Consumers : Message(d)' = Message(d)
        BY <1>1, <1>8 DEF Message
    <2>2. /\ cpc' \in [Consumers -> Places]
          /\ \A d \in Consumers : cpc'[d] = IF d = c THEN step ELSE cpc[d]
        BY <1>8 DEF TypeOK, TypeGroup, Goto
    <2>3. \A d \in Consumers : cpc'[d] \in Busy => off'[d] >= 1
        BY <1>8, <2>2 DEF TypeOK, TypeGroup
    <2>4. \A d \in Consumers : cpc'[d] \in HandlerSteps => Message(d)' \in Requests
        BY <1>8, <2>1, <2>2 DEF TypeOK, TypeGroup
    <2>5. QED
        BY <1>1, <1>8, <2>2, <2>3, <2>4 DEF TypeOK, TypeGroup
<1>9. ASSUME cpc[c] \in HandlerSteps, NextAttempt(c), UNCHANGED <<owner, off, stopping>>
      PROVE  TypeGroup'
    <2>1. (att \in [Consumers -> 0..MaxRetries])'
        BY <1>9, NumberAssumption DEF TypeOK, TypeGroup, NextAttempt, MayRetry
    <2>2. PICK step \in Places : Goto(c, step)
        BY <1>9 DEF NextAttempt, HandlerSteps, Busy
    <2>3. QED
        BY <1>8, <1>9, <2>1, <2>2 DEF Busy
<1>10. ASSUME cpc[c] \in HandlerSteps
       PROVE  \A state \in QueueStates :
                  Resolve(c, state) => (queue \in [Requests -> QueueStates])'
    BY <1>10 DEF TypeOK, TypeStores, Resolve
<1>11. ASSUME cpc[c] \in HandlerSteps, InsertRow(c) \/ UNCHANGED rows
       PROVE  (rows \subseteq Requests)'
    BY <1>7, <1>11 DEF TypeOK, TypeStores, InsertRow
<1>12. CASE Fetch(c)
    <2> DEFINE first == FirstStep(log[off[c] + 1])
    <2>1. off[c] + 1 \in 1..Len(log) /\ log[off[c] + 1] \in Records
        BY <1>12 DEF Fetch, TypeOK, TypeGroup, TypeStores
    <2>2. /\ first \in Busy
          /\ first \in HandlerSteps => log[off[c] + 1] \in Requests
        BY <2>1 DEF FirstStep, Busy, HandlerSteps, PoisonSteps, Records
    <2>3. /\ cpc' \in [Consumers -> Places]
          /\ \A d \in Consumers : cpc'[d] = IF d = c THEN first ELSE cpc[d]
          /\ off' \in [Consumers -> 0..Len(log)]
          /\ \A d \in Consumers : off'[d] = IF d = c THEN off[c] + 1 ELSE off[d]
        <3> HIDE DEF first
        <3>1. Goto(c, first) /\ off' = [off EXCEPT ![c] = @ + 1]
            BY <1>12 DEF Fetch, first
        <3>2. QED
            BY <2>1, <2>2, <3>1 DEF Goto, TypeOK, TypeGroup
    <2>4. \A d \in Consumers : cpc'[d] \in Busy => off'[d] >= 1
        <3> HIDE DEF first
        <3>1. QED
            BY <2>1, <2>3 DEF TypeOK, TypeGroup
    <2>5. \A d \in Consumers : cpc'[d] \in HandlerSteps => Message(d)' \in Requests
        <3> HIDE DEF first
        <3>1. Message(c)' = log[off[c] + 1] /\ cpc'[c] = first
            BY <1>1, <2>3 DEF Message
        <3>2. \A d \in Consumers \ {c} : Message(d)' = Message(d) /\ cpc'[d] = cpc[d]
            BY <1>1, <2>3 DEF Message
        <3>3. QED
            BY <2>2, <3>1, <3>2 DEF TypeOK, TypeGroup
    <2>6. (att \in [Consumers -> 0..MaxRetries])'
        BY <1>12, NumberAssumption DEF Fetch, TypeOK, TypeGroup
    <2>7. TypeGroup'
        BY <1>1, <1>12, <2>3, <2>4, <2>5, <2>6 DEF Fetch, TypeOK, TypeGroup
    <2>8. QED
        BY <1>1, <1>2, <1>3, <1>12, <2>7 DEF Fetch, TypeOK, TypeStores
<1>13. CASE Insert(c)
    <2>1. cpc[c] \in HandlerSteps /\ cpc[c] \in Busy /\ Goto(c, "set") /\ "set" \in Places
        BY <1>13 DEF Insert, HandlerSteps, PoisonSteps, Busy
    <2>2. TypeGroup' /\ (rows \subseteq Requests)'
        BY <1>8, <1>11, <1>13, <2>1 DEF Insert, memberVars, TypeOK, TypeGroup
    <2>3. QED
        BY <1>1, <1>2, <1>3, <1>13, <2>2 DEF Insert, TypeOK, TypeStores
<1>14. CASE InsertFails(c)
    <2>1. cpc[c] \in HandlerSteps
        BY <1>14 DEF InsertFails, HandlerSteps, PoisonSteps, Busy
    <2>2. TypeGroup' /\ (rows \subseteq Requests)'
        BY <1>9, <1>11, <1>14, <2>1 DEF InsertFails, memberVars
    <2>3. QED
        BY <1>1, <1>2, <1>3, <1>5, <1>14, <2>2 DEF InsertFails, TypeOK, TypeStores
<1>15. CASE SetToken(c)
    <2>1. cpc[c] \in HandlerSteps /\ cpc[c] \in Busy /\ Goto(c, "commit") /\ "commit" \in Places
        BY <1>15 DEF SetToken, HandlerSteps, PoisonSteps, Busy
    <2>2. TypeGroup' /\ (queue \in [Requests -> QueueStates])'
        BY <1>8, <1>10, <1>15, <2>1 DEF SetToken, memberVars, QueueStates, TypeOK, TypeGroup
    <2>3. QED
        BY <1>1, <1>2, <1>3, <1>15, <2>2 DEF SetToken, TypeOK, TypeStores
<1>16. CASE SetTokenFails(c)
    <2>1. cpc[c] \in HandlerSteps
        BY <1>16 DEF SetTokenFails, HandlerSteps, PoisonSteps, Busy
    <2>2. TypeGroup' /\ (queue \in [Requests -> QueueStates])'
        BY <1>9, <1>10, <1>16, <2>1
           DEF SetTokenFails, memberVars, QueueStates, TypeOK, TypeStores
    <2>3. QED
        BY <1>1, <1>2, <1>3, <1>5, <1>16, <2>2 DEF SetTokenFails, TypeOK, TypeStores
<1>17. CASE MarkFailed(c)
    <2>1. cpc[c] \in HandlerSteps /\ cpc[c] \in Busy /\ Goto(c, "dlq") /\ "dlq" \in Places
        BY <1>17 DEF MarkFailed, HandlerSteps, PoisonSteps, Busy
    <2>2. TypeGroup' /\ (queue \in [Requests -> QueueStates])' /\ (faults \in 0..MaxFaults)'
        BY <1>5, <1>8, <1>10, <1>17, <2>1
           DEF MarkFailed, memberVars, QueueStates, TypeOK, TypeStores, TypeGroup
    <2>3. QED
        BY <1>1, <1>2, <1>3, <1>17, <2>2 DEF MarkFailed, TypeOK, TypeStores
<1>18. CASE SendDLQ(c)
    <2>1. cpc[c] \in HandlerSteps /\ cpc[c] \in Busy /\ Goto(c, "commit") /\ "commit" \in Places
        BY <1>18 DEF SendDLQ, HandlerSteps, PoisonSteps, Busy
    <2>2. TypeGroup'
        BY <1>8, <1>18, <2>1 DEF SendDLQ, memberVars, TypeOK, TypeGroup
    <2>3. (dlq \subseteq Records)' /\ (faults \in 0..MaxFaults)'
        BY <1>5, <1>7, <1>18, <2>1 DEF SendDLQ, TypeOK, TypeStores, Records
    <2>4. QED
        BY <1>1, <1>2, <1>3, <1>18, <2>2, <2>3 DEF SendDLQ, TypeOK, TypeStores
<1>19. CASE Commit(c)
    <2>1. cpc[c] \in HandlerSteps /\ cpc[c] \in Busy /\ Goto(c, "poll") /\ "poll" \in Places
        BY <1>19 DEF Commit, HandlerSteps, PoisonSteps, Busy
    <2>2. TypeGroup' /\ (committed \in 0..Len(log))'
        BY <1>1, <1>7, <1>8, <1>19, <2>1 DEF Commit, memberVars, TypeOK, TypeGroup
    <2>3. QED
        BY <1>1, <1>2, <1>3, <1>19, <2>2 DEF Commit, TypeOK, TypeStores
<1>20. ASSUME Leave(c), UNCHANGED <<off, att>>
       PROVE  TypeGroup'
    <2>1. \A d \in Consumers : Message(d)' = Message(d)
        BY <1>1, <1>20 DEF Message
    <2>2. QED
        BY <1>1, <1>20, <2>1
           DEF Leave, Goto, TypeOK, TypeGroup, HandlerSteps, PoisonSteps, Busy
<1>21. CASE CommitFails(c)
    <2>1. (committed \in 0..Len(log))'
        BY <1>1, <1>21 DEF CommitFails, TypeOK, TypeStores, TypeGroup
    <2>2. TypeGroup'
        BY <1>20, <1>21 DEF CommitFails
    <2>3. QED
        BY <1>1, <1>2, <1>3, <1>5, <1>21, <2>1, <2>2 DEF CommitFails, TypeOK, TypeStores
<1>22. CASE Reject(c)
    <2>1. cpc[c] \in Busy /\ Goto(c, "skip") /\ "skip" \in Places
          /\ "skip" \notin HandlerSteps
        BY <1>22 DEF Reject, HandlerSteps, PoisonSteps, Busy
    <2>2. TypeGroup' /\ (dlq \subseteq Records)'
        BY <1>8, <1>22, <2>1
           DEF Reject, memberVars, TypeOK, TypeStores, TypeGroup, Records
    <2>3. QED
        BY <1>1, <1>2, <1>3, <1>22, <2>2 DEF Reject, TypeOK, TypeStores
<1>23. CASE Skip(c)
    <2>1. (committed \in 0..Len(log))' /\ (faults \in 0..MaxFaults)'
        BY <1>1, <1>5, <1>23 DEF Skip, TypeOK, TypeStores, TypeGroup
    <2>2. ASSUME Leave(c) PROVE TypeGroup'
        BY <1>20, <1>23, <2>2 DEF Skip
    <2>3. ASSUME Goto(c, "poll"), UNCHANGED <<owner, stopping>> PROVE TypeGroup'
        <3>1. cpc[c] \in Busy /\ "poll" \in Places /\ "poll" \notin HandlerSteps
            BY <1>23 DEF Skip, HandlerSteps, PoisonSteps, Busy
        <3>2. QED
            BY <1>8, <1>23, <2>3, <3>1 DEF Skip, TypeOK, TypeGroup
    <2>4. TypeGroup'
        BY <1>23, <2>2, <2>3 DEF Skip
    <2>5. QED
        BY <1>1, <1>2, <1>3, <1>23, <2>1, <2>4 DEF Skip, TypeOK, TypeStores
<1>24. QED
    BY <1>12, <1>13, <1>14, <1>15, <1>16, <1>17, <1>18, <1>19, <1>21, <1>22, <1>23
       DEF Consume

\* Joining, dying and being told to stop move the partition and the member.
LEMMA MemberTyped ==
    ASSUME TypeOK, NEW c \in Consumers, Assign(c) \/ Crash(c) \/ Stop(c)
    PROVE  TypeOK'
<1> USE NumberAssumption DEF TypeOK
<1>1. TypeApi' /\ TypeShop' /\ UNCHANGED <<log, queue, dlq, rows, committed>>
    BY DEF Assign, Crash, Stop, TypeApi, TypeShop, shopVars, storeVars, apiVars
<1>2. TypeStores'
    BY <1>1 DEF TypeStores
<1>3. ASSUME Leave(c), UNCHANGED <<off, att>> PROVE TypeGroup'
    <2>1. \A d \in Consumers : Message(d)' = Message(d)
        BY <1>1, <1>3 DEF Message
    <2>2. QED
        BY <1>1, <1>3, <2>1
           DEF Leave, Goto, TypeGroup, HandlerSteps, PoisonSteps, Busy
<1>4. CASE Assign(c)
    <2>1. /\ cpc' = cpc /\ cpc[c] = "poll" /\ "poll" \notin Busy
          /\ "poll" \notin HandlerSteps
        BY <1>4 DEF Assign, Busy, HandlerSteps, PoisonSteps
    <2>2. /\ off' \in [Consumers -> 0..Len(log)]
          /\ \A d \in Consumers \ {c} : off'[d] = off[d] /\ Message(d)' = Message(d)
        BY <1>1, <1>4 DEF Assign, TypeGroup, TypeStores, Message
    <2>3. TypeGroup'
        BY <1>1, <1>4, <2>1, <2>2 DEF Assign, TypeGroup
    <2>4. QED
        BY <1>1, <1>2, <1>4, <2>3 DEF Assign, Fault
<1>5. CASE Crash(c)
    <2>1. TypeGroup'
        BY <1>3, <1>5 DEF Crash
    <2>2. QED
        BY <1>1, <1>2, <1>5, <2>1 DEF Crash, Fault
<1>6. CASE Stop(c)
    <2>1. ASSUME Leave(c) PROVE TypeGroup'
        BY <1>3, <1>6, <2>1 DEF Stop
    <2>2. ASSUME stopping' = stopping \cup {c}, UNCHANGED <<cpc, owner>>
          PROVE  TypeGroup'
        <3>1. \A d \in Consumers : Message(d)' = Message(d)
            BY <1>1, <1>6 DEF Stop, Message
        <3>2. QED
            BY <1>1, <1>6, <2>2, <3>1 DEF Stop, TypeGroup
    <2>3. TypeGroup'
        BY <1>6, <2>1, <2>2 DEF Stop
    <2>4. QED
        BY <1>1, <1>2, <1>6, <2>3 DEF Stop
<1>7. QED
    BY <1>4, <1>5, <1>6

LEMMA NextTyped == TypeOK /\ [Next]_vars => TypeOK'
<1> SUFFICES ASSUME TypeOK, [Next]_vars PROVE TypeOK'
    OBVIOUS
<1>1. CASE Shop
    BY <1>1, ShopTyped
<1>2. CASE ApiCrash \/ PublishGarbage
    BY <1>2, ApiCrashTyped, PublishTyped
<1>3. CASE \E r \in Requests : Serve(r)
    BY <1>3, ServeTyped
<1>4. CASE \E c \in Consumers : Consume(c)
    BY <1>4, ConsumeTyped
<1>5. CASE \E c \in Consumers : Assign(c) \/ Crash(c) \/ Stop(c)
    BY <1>5, MemberTyped
<1>6. CASE UNCHANGED vars
    BY <1>6 DEF vars, shopVars, storeVars, apiVars, groupVars, TypeOK, TypeApi,
                TypeShop, TypeStores, TypeGroup, Message
<1>7. QED
    BY <1>1, <1>2, <1>3, <1>4, <1>5, <1>6 DEF Next

\* Every reachable state is well typed: offsets stay within the topic, the
\* stock within 0..TotalStock and the attempts within the retries, whatever
\* fails, is redelivered or restarts.
THEOREM Typing == Spec => []TypeOK
<1>1. QED
    BY InitTyped, NextTyped, PTL DEF Spec

=============================================================================
