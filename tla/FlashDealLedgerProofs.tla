----------------------- MODULE FlashDealLedgerProofs -----------------------
(***************************************************************************)
(* The ledger of units: what Redis has left, what the Lua script took, what *)
(* each user bought.  StockConservation and PerUserLimit for every value of *)
(* the constants.                                                          *)
(***************************************************************************)
EXTENDS FlashDealProofs

(***************************************************************************)
(* Few steps touch the units.                                              *)
(***************************************************************************)

Takes(r) == pc[r] = "deduct" /\ LuaAdmits(r) /\ LuaTakes(r) /\ UNCHANGED warms

LEMMA UnitSteps ==
    ASSUME [Next]_vars
    PROVE  \/ \E r \in Requests : Takes(r)
           \/ Warm /\ UNCHANGED <<sold, taken>>
           \/ ExpireStock /\ UNCHANGED <<sold, taken>>
           \/ \E u \in Users : ExpireUserBuy(u) /\ UNCHANGED <<sold, taken>>
           \/ UNCHANGED <<warms, stock, userBuy, sold, taken>>
<1> USE DEF shopVars, apiVars, unitVars
<1>1. CASE Shop
    BY <1>1 DEF Shop, CreateActivity, Tick, ExpireQueueToken
<1>2. CASE ApiCrash \/ PublishGarbage
    BY <1>2 DEF ApiCrash, PublishGarbage
<1>3. ASSUME NEW r \in Requests, Serve(r)
      PROVE  Takes(r) \/ UNCHANGED <<warms, stock, userBuy, sold, taken>>
    <2>1. UNCHANGED <<phase, warms, dlq, rows, groupVars, stops>>
        BY <1>3 DEF Serve
    <2>2. CASE DeductOk(r) \/ DeductLostReply(r)
        BY <2>1, <2>2 DEF DeductOk, DeductLostReply, Takes
    <2>3. CASE ~(DeductOk(r) \/ DeductLostReply(r))
        BY <1>3, <2>1, <2>3
           DEF Serve, FetchActivity, ReadFails, DeductRefused, NewToken,
               FallbackToken, Produce, ProduceTwice, ProduceFails
    <2>4. QED
        BY <2>2, <2>3
<1>4. CASE \E c \in Consumers : Consume(c)
    BY <1>4 DEF Consume
<1>5. CASE \E c \in Consumers : Assign(c) \/ Crash(c) \/ Stop(c)
    BY <1>5 DEF Assign, Crash, Stop
<1>6. CASE UNCHANGED vars
    BY <1>6 DEF vars
<1>7. QED
    BY <1>1, <1>2, <1>3, <1>4, <1>5, <1>6 DEF Next

(***************************************************************************)
(* Counting.                                                               *)
(***************************************************************************)

LEMMA PaidFinite == IsFiniteSet(Paid) /\ Cardinality(Paid) \in Nat
<1>1. Paid \subseteq Requests
    BY DEF Paid
<1>2. QED
    BY <1>1, RequestAssumption, FS_Subset, FS_CardinalityType

\* The units of one lot, and of one user in a lot, are finitely many.
LEMMA LotFinite ==
    ASSUME IsFiniteSet(sold), NEW w
    PROVE  /\ IsFiniteSet(SoldSince(w))
           /\ Cardinality(SoldSince(w)) \in Nat
           /\ \A u : /\ IsFiniteSet(SoldTo(u, w))
                     /\ Cardinality(SoldTo(u, w)) \in Nat
<1>1. SoldSince(w) \subseteq sold /\ \A u : SoldTo(u, w) \subseteq sold
    BY DEF SoldSince, SoldTo
<1>2. QED
    BY <1>1, FS_Subset, FS_CardinalityType

Unit(r) == [req |-> r, nth |-> taken[r] + 1, warm |-> warms]

\* The record of a unit just taken is new, so every count it enters grows by
\* one.
LEMMA UnitIsNew ==
    ASSUME TypeOK, Ledger, NEW r \in Requests, Takes(r)
    PROVE  /\ Unit(r) \notin sold
           /\ sold' = sold \cup {Unit(r)}
           /\ SoldSince(warms)' = SoldSince(warms) \cup {Unit(r)}
           /\ SoldTo(UserOf[r], warms)' = SoldTo(UserOf[r], warms) \cup {Unit(r)}
           /\ \A u \in Users \ {UserOf[r]} : SoldTo(u, warms)' = SoldTo(u, warms)
           /\ Paid' = Paid \cup {r}
<1>1. Unit(r) \notin sold
    BY DEF Ledger, Unit, TypeOK, TypeApi
<1>2. sold' = sold \cup {Unit(r)} /\ warms' = warms
    BY DEF Takes, LuaTakes, Unit
<1>3. SoldSince(warms)' = SoldSince(warms) \cup {Unit(r)}
    BY <1>2 DEF SoldSince, Unit
<1>4. \A u \in Users : SoldTo(u, warms)' = {d \in SoldSince(warms)' : UserOf[d.req] = u}
    BY <1>2 DEF SoldTo, SoldSince
<1>5. Unit(r).req = r
    BY DEF Unit
<1>6. SoldTo(UserOf[r], warms)' = SoldTo(UserOf[r], warms) \cup {Unit(r)}
    BY <1>3, <1>5, <1>2 DEF SoldTo, SoldSince
<1>7. \A u \in Users \ {UserOf[r]} : SoldTo(u, warms)' = SoldTo(u, warms)
    BY <1>3, <1>5, <1>2 DEF SoldTo, SoldSince
<1>8. Paid' = Paid \cup {r}
    BY DEF Takes, LuaTakes, Paid, TypeOK, TypeApi
<1>9. QED
    BY <1>1, <1>2, <1>3, <1>6, <1>7, <1>8

(***************************************************************************)
(* The ledger and the conservation of the lot on sale.                     *)
(***************************************************************************)

LotInv == Ledger /\ StockConservation /\ UserLedger

LEMMA LotInit == Init => LotInv
<1> SUFFICES ASSUME Init PROVE LotInv
    OBVIOUS
<1>1. sold = {} /\ Paid = {} /\ stock = NoKey /\ warms = 0
    BY DEF Init, Paid
<1>2. IsFiniteSet(sold) /\ Cardinality(sold) = 0 /\ Cardinality(Paid) = 0
    BY <1>1, FS_EmptySet
<1>3. Ledger
    BY <1>1, <1>2, NumberAssumption DEF Ledger, Live
<1>4. QED
    BY <1>1, <1>3 DEF LotInv, StockConservation, UserLedger

\* A unit taken moves from the stock to the record, and counts for its user.
LEMMA LotTakes ==
    ASSUME TypeOK, LotInv, NEW r \in Requests, Takes(r)
    PROVE  LotInv'
<1>1. Ledger /\ StockConservation /\ UserLedger
    BY DEF LotInv
<1>2. /\ Unit(r) \notin sold
      /\ sold' = sold \cup {Unit(r)}
      /\ SoldSince(warms)' = SoldSince(warms) \cup {Unit(r)}
      /\ SoldTo(UserOf[r], warms)' = SoldTo(UserOf[r], warms) \cup {Unit(r)}
      /\ \A u \in Users \ {UserOf[r]} : SoldTo(u, warms)' = SoldTo(u, warms)
      /\ Paid' = Paid \cup {r}
    BY <1>1, UnitIsNew
<1>3. /\ warms' = warms /\ warms \in Nat
      /\ stock # NoKey /\ stock \in Nat /\ stock >= 1 /\ stock' = stock - 1
      /\ stock' # NoKey
    BY NumberAssumption DEF Takes, LuaAdmits, LuaTakes, TypeOK, TypeShop, NoKey
<1>4. IsFiniteSet(sold)' /\ Cardinality(sold)' = Cardinality(sold) + 1
    BY <1>1, <1>2, FS_AddElement DEF Ledger
<1>5. IsFiniteSet(sold) /\ Cardinality(sold) \in Nat
    BY <1>1, FS_CardinalityType DEF Ledger
<1>6. Unit(r) \notin SoldSince(warms) /\ Unit(r) \notin SoldTo(UserOf[r], warms)
    BY <1>2 DEF SoldSince, SoldTo
<1>7. Ledger'
    <2>1. \A d \in sold' : d.nth =< taken'[d.req] /\ d.warm =< warms'
        <3>1. \A d \in sold : d.nth =< taken'[d.req] /\ d.warm =< warms'
            BY <1>1, <1>3 DEF Ledger, Takes, LuaTakes, TypeOK, TypeApi
        <3>2. Unit(r).nth =< taken'[Unit(r).req] /\ Unit(r).warm =< warms'
            BY <1>3 DEF Unit, Takes, LuaTakes, TypeOK, TypeApi
        <3>3. QED
            BY <1>2, <3>1, <3>2
    <2>2. Cardinality(sold)' + Live' =< (Total * warms)'
        BY <1>1, <1>3, <1>4, <1>5, NumberAssumption DEF Ledger, Live
    <2>3. /\ Cardinality(Paid \cup {r}) \in Nat
          /\ Cardinality(Paid \cup {r}) =< Cardinality(Paid) + 1
        <3>1. IsFiniteSet(Paid) /\ Cardinality(Paid) \in Nat
            BY PaidFinite
        <3>2. CASE r \in Paid
            <4>1. Paid \cup {r} = Paid
                BY <3>2
            <4>2. Cardinality(Paid \cup {r}) = Cardinality(Paid)
                BY <4>1, Zenon
            <4>3. QED
                BY <3>1, <4>2
        <3>3. CASE r \notin Paid
            <4>1. Cardinality(Paid \cup {r}) = Cardinality(Paid) + 1
                BY <3>1, <3>3, FS_AddElement
            <4>2. QED
                BY <3>1, <4>1
        <3>4. QED
            BY <3>2, <3>3
    <2>4. Cardinality(Paid)' =< Cardinality(sold)'
        <3>1. Cardinality(Paid)' = Cardinality(Paid \cup {r})
            BY <1>2
        <3>2. QED
            BY <1>1, <1>4, <1>5, <2>3, <3>1, PaidFinite DEF Ledger
    <2>5. QED
        BY <1>4, <2>1, <2>2, <2>4 DEF Ledger
<1>8. StockConservation'
    <2>1. Cardinality(SoldSince(warms))' = Cardinality(SoldSince(warms)) + 1
        BY <1>2, <1>5, <1>6, LotFinite, FS_AddElement
    <2>2. Cardinality(SoldSince(warms)) \in Nat
        BY <1>5, LotFinite
    <2>3. QED
        BY <1>1, <1>3, <2>1, <2>2, NumberAssumption DEF StockConservation
<1>9. UserLedger'
    <2>1. UserOf[r] \in Users /\ userBuy \in [Users -> Nat]
        BY RequestAssumption, NumberAssumption DEF TypeOK, TypeShop
    <2>2. userBuy' = [userBuy EXCEPT ![UserOf[r]] = @ + 1]
        BY DEF Takes, LuaTakes
    <2>3. SUFFICES ASSUME NEW u \in Users
                   PROVE  Cardinality(SoldTo(u, warms)') =< userBuy'[u]
        BY <1>3 DEF UserLedger
    <2>4. Cardinality(SoldTo(u, warms)) \in Nat
          /\ Cardinality(SoldTo(u, warms)) =< userBuy[u]
        BY <1>1, <1>3, <1>5, LotFinite DEF UserLedger
    <2>5. CASE u = UserOf[r]
        <3>1. Cardinality(SoldTo(u, warms)') = Cardinality(SoldTo(u, warms)) + 1
            BY <1>2, <1>5, <1>6, <2>5, LotFinite, FS_AddElement
        <3>2. QED
            BY <2>1, <2>2, <2>4, <2>5, <3>1
    <2>6. CASE u # UserOf[r]
        BY <1>2, <2>1, <2>2, <2>4, <2>6
    <2>7. QED
        BY <2>5, <2>6
<1>10. QED
    BY <1>7, <1>8, <1>9 DEF LotInv

\* A new lot has sold nothing yet, whatever is left of the old one.
LEMMA LotWarm ==
    ASSUME TypeOK, LotInv, Warm, UNCHANGED <<sold, taken>>
    PROVE  LotInv'
<1>1. Ledger
    BY DEF LotInv
<1>2. warms \in Nat /\ warms' = warms + 1 /\ stock' = Total /\ stock' # NoKey
    BY NumberAssumption DEF Warm, TypeOK, TypeShop, NoKey
<1>3. IsFiniteSet(sold) /\ Cardinality(sold) \in Nat
    BY <1>1, FS_CardinalityType DEF Ledger
<1>4. SoldSince(warms') = {} /\ \A u \in Users : SoldTo(u, warms') = {}
    BY <1>1, <1>2 DEF Ledger, SoldSince, SoldTo, TypeOK, TypeApi
<1>5. SoldSince(warms)' = {} /\ \A u \in Users : SoldTo(u, warms)' = {}
    BY <1>4 DEF SoldSince, SoldTo
<1>6. Ledger'
    <2>1. \A d \in sold : d.nth =< taken[d.req] /\ d.warm =< warms + 1
        BY <1>1, <1>2 DEF Ledger, TypeOK, TypeApi
    <2>2. Cardinality(sold) =< Total * warms
        BY <1>1, <1>2, <1>3, NumberAssumption
           DEF Ledger, Live, TypeOK, TypeShop, NoKey
    <2>3. Total * (warms + 1) = Total * warms + Total
        BY <1>2, NumberAssumption
    <2>4. Cardinality(sold) + Total =< Total * (warms + 1)
        BY <1>2, <1>3, <2>2, <2>3, NumberAssumption
    <2>5. Live' = Total
        BY <1>2 DEF Live
    <2>6. Paid' = Paid
        BY DEF Paid
    <2>7. QED
        BY <1>1, <1>2, <2>1, <2>4, <2>5, <2>6 DEF Ledger
<1>7. StockConservation'
    BY <1>2, <1>5, FS_EmptySet, NumberAssumption DEF StockConservation
<1>8. UserLedger'
    <2>1. \A u \in Users : userBuy'[u] \in 0..Limit
        BY DEF Warm, TypeOK, TypeShop
    <2>2. \A u \in Users : Cardinality(SoldTo(u, warms)') = 0
        BY <1>5, FS_EmptySet
    <2>3. QED
        BY <2>1, <2>2, NumberAssumption DEF UserLedger
<1>9. QED
    BY <1>6, <1>7, <1>8 DEF LotInv

\* Expiry of the stock key takes its units off the ledger.
LEMMA LotExpires ==
    ASSUME TypeOK, LotInv, ExpireStock, UNCHANGED <<sold, taken>>
    PROVE  LotInv'
<1>1. stock' = NoKey /\ warms' = warms /\ warms \in Nat
    BY NumberAssumption DEF ExpireStock, TypeOK, TypeShop
<1>2. Cardinality(sold) \in Nat
    BY FS_CardinalityType DEF LotInv, Ledger
<1>3. Cardinality(sold) =< Total * warms
    BY <1>1, <1>2, NumberAssumption DEF LotInv, Ledger, Live, TypeOK, TypeShop, NoKey
<1>4. Ledger'
    BY <1>1, <1>2, <1>3, NumberAssumption DEF LotInv, Ledger, Live, Paid
<1>5. QED
    BY <1>1, <1>4 DEF LotInv, StockConservation, UserLedger

\* user_buy expires only for a user with nothing from the lot on sale.
LEMMA LotForgetsUser ==
    ASSUME TypeOK, LotInv, NEW v \in Users, ExpireUserBuy(v),
           UNCHANGED <<sold, taken>>
    PROVE  LotInv'
<1>1. UNCHANGED <<stock, warms>>
    BY DEF ExpireUserBuy
<1>2. Ledger' /\ StockConservation'
    BY <1>1 DEF LotInv, Ledger, StockConservation, Live, Paid, SoldSince
<1>3. UserLedger'
    <2>1. SUFFICES ASSUME stock # NoKey, NEW u \in Users
                   PROVE  Cardinality(SoldTo(u, warms)) =< userBuy'[u]
        BY <1>1 DEF UserLedger, SoldTo, SoldSince
    <2>2. CASE u = v
        <3>1. SoldTo(u, warms) = {}
            BY <2>1, <2>2 DEF ExpireUserBuy, UserBuyMayExpire, SoldTo, SoldSince,
                              TypeOK, TypeApi
        <3>2. QED
            BY <2>2, <3>1, FS_EmptySet DEF ExpireUserBuy, TypeOK, TypeShop
    <2>3. CASE u # v
        BY <2>1, <2>3 DEF ExpireUserBuy, LotInv, UserLedger, TypeOK, TypeShop
    <2>4. QED
        BY <2>2, <2>3
<1>4. QED
    BY <1>2, <1>3 DEF LotInv

LEMMA LotNext == TypeOK /\ LotInv /\ [Next]_vars => LotInv'
<1> SUFFICES ASSUME TypeOK, LotInv, [Next]_vars PROVE LotInv'
    OBVIOUS
<1>1. CASE \E r \in Requests : Takes(r)
    BY <1>1, LotTakes
<1>2. CASE Warm /\ UNCHANGED <<sold, taken>>
    BY <1>2, LotWarm
<1>3. CASE ExpireStock /\ UNCHANGED <<sold, taken>>
    BY <1>3, LotExpires
<1>4. CASE \E u \in Users : ExpireUserBuy(u) /\ UNCHANGED <<sold, taken>>
    BY <1>4, LotForgetsUser
<1>5. CASE UNCHANGED <<warms, stock, userBuy, sold, taken>>
    BY <1>5 DEF LotInv, Ledger, StockConservation, UserLedger, Live, Paid,
                SoldSince, SoldTo
<1>6. QED
    BY <1>1, <1>2, <1>3, <1>4, <1>5, UnitSteps

LEMMA LotHolds == Spec => []LotInv
<1>1. QED
    BY LotInit, LotNext, Typing, PTL DEF Spec

\* No unit is created or lost inside Redis while the stock key lives: what is
\* left and what the script took since the last Warm add up to TotalStock.
THEOREM Conservation == Spec => []StockConservation
<1>1. LotInv => StockConservation
    BY DEF LotInv
<1>2. QED
    BY <1>1, LotHolds, PTL

\* The per-user limit holds within one warmed stock although user_buy expires.
THEOREM UserLimitHolds == Spec => []PerUserLimit
<1>1. TypeOK /\ LotInv => PerUserLimit
    <2> SUFFICES ASSUME TypeOK, LotInv, stock # NoKey, NEW u \in Users
                 PROVE  Cardinality(SoldTo(u, warms)) =< Limit
        BY DEF PerUserLimit
    <2>1. Cardinality(SoldTo(u, warms)) =< userBuy[u]
        BY DEF LotInv, UserLedger
    <2>2. Cardinality(SoldTo(u, warms)) \in Nat
        BY LotFinite DEF LotInv, Ledger
    <2>3. QED
        BY <2>1, <2>2, NumberAssumption DEF TypeOK, TypeShop
<1>2. QED
    BY <1>1, LotHolds, Typing, PTL

=============================================================================
