--------------------------- MODULE ReconcileProofs ---------------------------
(***************************************************************************)
(* What a finding of the sweeper means, for any order path, any number of  *)
(* shards and any distribution of the users over them.                     *)
(***************************************************************************)
EXTENDS Reconcile, FlashDealOrderProofs

\* Orders of the shards the check has counted, and of those it has yet to.
Behind == {r \in rows : ShardOf[UserOf[r]] < sweep}
Ahead == {r \in rows : ShardOf[UserOf[r]] >= sweep}

\* While a check is under way it has counted no order that is not there, and
\* missed none that was there when it began; and the stock it read goes with
\* the units it found sold.
CheckInv ==
    sweep # 0 =>
        /\ start.rows =< start.sold
        /\ start.sold =< Cardinality(sold)
        /\ start.rows =< Cardinality(rows)
        /\ cnt =< Cardinality(Behind)
        /\ start.rows =< cnt + Cardinality(Ahead)
        /\ warms =< 1 => rem + start.sold = Total

sweepAll == <<vars, sweepVars>>

(***************************************************************************)
(* The order path goes on as without the sweeper.                          *)
(***************************************************************************)

\* A failed count changes nothing of the order path but the number of faults.
LEMMA FailedCount ==
    ASSUME SaleInv, CheckFails
    PROVE  SaleInv'
<1> USE DEF SaleInv
<1>1. UNCHANGED <<shopVars, storeVars, apiVars, groupVars, stops>> /\ Fault
    BY DEF CheckFails
<1>2. faults' \in 0..MaxFaults
    BY <1>1, NumberAssumption DEF Fault, TypeOK
<1>3. TypeOK'
    BY <1>1, <1>2 DEF TypeOK, TypeApi, TypeShop, TypeStores, TypeGroup, Message,
                      shopVars, storeVars, apiVars, groupVars
<1>4. LotInv'
    BY <1>1 DEF LotInv, Ledger, StockConservation, UserLedger, Live, Paid, SoldSince,
                SoldTo, shopVars, apiVars
<1>5. OrderInv'
    BY <1>1 DEF OrderInv, PaidFirst, NothingUnpaid, AnsweredOnce, AckedIsLogged,
                RowBeforeToken, SuccessHasRow, IsDuplicateKey, HasRow, IdTaken, Message, Paid, InLog,
                storeVars, apiVars, groupVars
<1>6. QED
    BY <1>3, <1>4, <1>5

LEMMA SweepStep ==
    ASSUME [SweepNext]_sweepAll
    PROVE  \/ [Next]_vars /\ UNCHANGED sweepVars
           \/ UNCHANGED vars /\ (ReadStock \/ CountShard)
           \/ CheckFails
BY DEF SweepNext, sweepAll, OrderPath, ReadStock, CountShard, vars

LEMMA PathNext == SaleInv /\ [SweepNext]_sweepAll => SaleInv'
<1> SUFFICES ASSUME SaleInv, [SweepNext]_sweepAll PROVE SaleInv'
    OBVIOUS
<1>1. [Next]_vars => SaleInv'
    BY NextTyped, LotNext, OrderNext DEF SaleInv
<1>2. QED
    BY <1>1, FailedCount, SweepStep

\* The order path keeps under the sweeper what it keeps alone.
LEMMA PathHolds == SweepSpec => []SaleInv
<1>1. SweepInit => SaleInv
    BY InitTyped, LotInit, OrderInit DEF SweepInit, SaleInv
<1>2. QED
    BY <1>1, PathNext, PTL DEF SweepSpec, sweepAll

(***************************************************************************)
(* Counting.                                                               *)
(***************************************************************************)

\* Units and orders can be counted, and an order has a unit.
LEMMA Counted ==
    ASSUME SaleInv
    PROVE  /\ IsFiniteSet(sold) /\ Cardinality(sold) \in Nat
           /\ IsFiniteSet(rows) /\ Cardinality(rows) \in Nat
           /\ Cardinality(rows) =< Cardinality(sold)
           /\ Cardinality(rows) =< Cardinality(Requests)
           /\ Cardinality(Requests) \in Nat
<1>1. IsFiniteSet(sold) /\ Cardinality(sold) \in Nat
    BY FS_CardinalityType DEF SaleInv, LotInv, Ledger
<1>2. rows \subseteq Paid /\ rows \subseteq Requests
    BY DEF SaleInv, OrderInv, NothingUnpaid, TypeOK, TypeStores
<1>3. IsFiniteSet(rows) /\ Cardinality(rows) \in Nat
    BY <1>2, RequestAssumption, FS_Subset, FS_CardinalityType
<1>4. Cardinality(rows) =< Cardinality(Requests) /\ Cardinality(Requests) \in Nat
    BY <1>2, RequestAssumption, FS_Subset, FS_CardinalityType
<1>5. Cardinality(rows) =< Cardinality(Paid) /\ Cardinality(Paid) \in Nat
    BY <1>2, PaidFinite, FS_Subset
<1>6. Cardinality(Paid) =< Cardinality(sold)
    BY DEF SaleInv, LotInv, Ledger
<1>7. QED
    BY <1>1, <1>3, <1>4, <1>5, <1>6

LEMMA Part ==
    ASSUME NEW A, IsFiniteSet(A), NEW B \in SUBSET A
    PROVE  /\ IsFiniteSet(B)
           /\ Cardinality(A) \in Nat /\ Cardinality(B) \in Nat
           /\ Cardinality(B) =< Cardinality(A)
BY FS_Subset, FS_CardinalityType

\* The rows are those behind the check and those ahead of it.
LEMMA Parts ==
    ASSUME SaleInv
    PROVE  /\ IsFiniteSet(Behind) /\ Cardinality(Behind) \in Nat
           /\ IsFiniteSet(Ahead) /\ Cardinality(Ahead) \in Nat
           /\ IsFiniteSet(RowsIn(sweep)) /\ Cardinality(RowsIn(sweep)) \in Nat
<1>1. Behind \subseteq rows /\ Ahead \subseteq rows /\ RowsIn(sweep) \subseteq rows
    BY DEF Behind, Ahead, RowsIn
<1>2. QED
    BY <1>1, Counted, Part

\* Of a stock warmed at most once, what is left and what was sold make it up.
LEMMA FirstLot ==
    ASSUME SaleInv, stock # NoKey, warms =< 1
    PROVE  stock + Cardinality(sold) = Total
<1>1. /\ stock \in Nat /\ warms \in {0, 1} /\ Total \in Nat
    BY NumberAssumption DEF SaleInv, TypeOK, TypeShop, NoKey
<1>2. Total * warms =< Total
    BY <1>1
<1>3. Cardinality(sold) + stock =< Total * warms
    BY DEF SaleInv, LotInv, Ledger, Live
<1>4. stock + Cardinality(SoldSince(warms)) = Total
    BY DEF SaleInv, LotInv, StockConservation
<1>5. /\ Cardinality(SoldSince(warms)) =< Cardinality(sold)
      /\ Cardinality(SoldSince(warms)) \in Nat /\ Cardinality(sold) \in Nat
    <2>1. SoldSince(warms) \subseteq sold
        BY DEF SoldSince
    <2>2. QED
        BY <2>1, Counted, Part
<1>6. Total * warms \in Nat
    BY <1>1
<1>7. QED
    BY <1>1, <1>2, <1>3, <1>4, <1>5, <1>6

(***************************************************************************)
(* A check, step by step.                                                  *)
(***************************************************************************)

SweepTyped ==
    /\ sweep \in 0..Shards
    /\ rem \in 0..Total /\ cnt \in 0..Cardinality(Requests)
    /\ finding \in [drift : Int, missing : Nat, late : Nat, sales : Nat]
    /\ start \in [sold : Nat, rows : Nat]

SweepInv == SweepTyped /\ CheckInv /\ FindingExplained

LEMMA SweepInitInv == SweepInit => SweepInv
<1> SUFFICES ASSUME SweepInit PROVE SweepInv
    OBVIOUS
<1>1. Cardinality(Requests) \in Nat
    BY RequestAssumption, FS_CardinalityType
<1>2. SweepTyped
    BY <1>1, NumberAssumption, ShardAssumption DEF SweepInit, SweepTyped
<1>3. CheckInv /\ FindingExplained
    BY DEF SweepInit, CheckInv, FindingExplained
<1>4. QED
    BY <1>2, <1>3 DEF SweepInv

\* Units and rows only come, in whatever shard, and warms are not undone.
LEMMA PathGrows ==
    ASSUME SaleInv, [Next]_vars
    PROVE  /\ sold \subseteq sold' /\ rows \subseteq rows'
           /\ warms \in Nat /\ warms' \in Nat /\ warms =< warms'
<1>1. warms \in Nat
    BY NumberAssumption DEF SaleInv, TypeOK, TypeShop
<1>2. sold \subseteq sold' /\ warms' \in {warms, warms + 1}
    BY UnitSteps DEF Takes, LuaTakes, Warm, ExpireStock, ExpireUserBuy
<1>3. rows \subseteq rows'
    <2>1. ASSUME NEW c \in Consumers, Consume(c) PROVE rows \subseteq rows'
        BY <2>1, ConsumeSteps DEF InsertRow, SaleInv
    <2>2. QED
        BY <2>1 DEF Next, vars, Shop, ApiCrash, PublishGarbage, Serve, Assign, Crash, Stop,
                    storeVars
<1>4. QED
    BY <1>1, <1>2, <1>3

\* While the order path moves, the check has still counted no more than there
\* is and missed no more than there was.
LEMMA CheckGoesOn ==
    ASSUME SaleInv, SaleInv', SweepInv, [Next]_vars, UNCHANGED sweepVars
    PROVE  SweepInv'
<1>1. UNCHANGED <<sweep, rem, cnt, finding, start>>
    BY DEF sweepVars
<1>2. /\ sold \subseteq sold' /\ rows \subseteq rows'
      /\ warms \in Nat /\ warms' \in Nat /\ warms =< warms'
    BY PathGrows
<1>3. SweepTyped' /\ FindingExplained'
    BY <1>1, <1>2 DEF SweepInv, SweepTyped, FindingExplained
<1>4. /\ Cardinality(sold) \in Nat /\ Cardinality(sold') \in Nat
      /\ Cardinality(sold) =< Cardinality(sold')
    <2>1. IsFiniteSet(sold')
        BY DEF SaleInv, LotInv, Ledger
    <2>2. QED
        BY <1>2, <2>1, Part
<1>5. /\ Cardinality(rows) \in Nat /\ Cardinality(rows') \in Nat
      /\ Cardinality(rows) =< Cardinality(rows')
      /\ IsFiniteSet(rows')
    <2>1. rows' \subseteq Requests
        BY DEF SaleInv, TypeOK, TypeStores
    <2>2. IsFiniteSet(rows')
        BY <2>1, RequestAssumption, FS_Subset
    <2>3. QED
        BY <1>2, <2>2, Part
<1>6. /\ Cardinality(Behind) \in Nat /\ Cardinality(Behind') \in Nat
      /\ Cardinality(Behind) =< Cardinality(Behind')
    <2>1. Behind \subseteq Behind' /\ Behind' \subseteq rows'
        BY <1>1, <1>2 DEF Behind
    <2>2. QED
        BY <1>5, <2>1, Part
<1>7. /\ Cardinality(Ahead) \in Nat /\ Cardinality(Ahead') \in Nat
      /\ Cardinality(Ahead) =< Cardinality(Ahead')
    <2>1. Ahead \subseteq Ahead' /\ Ahead' \subseteq rows'
        BY <1>1, <1>2 DEF Ahead
    <2>2. QED
        BY <1>5, <2>1, Part
<1>8. CheckInv'
    BY <1>1, <1>2, <1>4, <1>5, <1>6, <1>7 DEF SweepInv, SweepTyped, CheckInv
<1>9. QED
    BY <1>3, <1>8 DEF SweepInv

\* A check begins with all shards ahead of it.
LEMMA CheckBegins ==
    ASSUME SaleInv, SweepInv, ReadStock, UNCHANGED vars
    PROVE  SweepInv'
<1> USE Counted
<1>1. UNCHANGED <<sold, rows, warms, stock>>
    BY DEF vars, shopVars, apiVars, storeVars
<1>2. /\ stock # NoKey
      /\ rem' = stock /\ cnt' = 0 /\ sweep' = 1 /\ finding' = finding
      /\ start' = [sold |-> Cardinality(sold), rows |-> Cardinality(rows)]
    BY DEF ReadStock
<1>3. SweepTyped'
    BY <1>2, ShardAssumption DEF SweepInv, SweepTyped, SaleInv, TypeOK, TypeShop
<1>4. FindingExplained'
    BY <1>1, <1>2 DEF SweepInv, FindingExplained
<1>5. Behind' = {} /\ Ahead' = rows
    <2>1. rows \subseteq Requests
        BY DEF SaleInv, TypeOK, TypeStores
    <2>2. \A r \in rows : ShardOf[UserOf[r]] \in 1..Shards
        BY <2>1, RequestAssumption, ShardAssumption
    <2>3. \A r \in rows : ~(ShardOf[UserOf[r]] < 1) /\ ShardOf[UserOf[r]] >= 1
        BY <2>2, ShardAssumption
    <2>4. QED
        BY <1>1, <1>2, <2>3 DEF Behind, Ahead
<1>6. Cardinality(Behind') = 0 /\ Cardinality(Ahead') = Cardinality(rows)
    BY <1>5, FS_EmptySet
<1>7. warms =< 1 => stock + Cardinality(sold) = Total
    BY <1>2, FirstLot
<1>8. CheckInv'
    BY <1>1, <1>2, <1>6, <1>7 DEF CheckInv
<1>9. QED
    BY <1>3, <1>4, <1>8 DEF SweepInv

\* Each count moves one shard from ahead of the check to behind it.
LEMMA ShardMoves ==
    ASSUME SaleInv, sweep \in 1..Shards, UNCHANGED rows
    PROVE  /\ sweep' = sweep + 1 =>
                 Cardinality(Behind') = Cardinality(Behind) + Cardinality(RowsIn(sweep))
           /\ sweep' = sweep + 1 =>
                 Cardinality(Ahead) = Cardinality(RowsIn(sweep)) + Cardinality(Ahead')
           /\ sweep = Shards =>
                 Cardinality(rows) = Cardinality(Behind) + Cardinality(RowsIn(sweep))
           /\ sweep = Shards => Cardinality(Ahead) = Cardinality(RowsIn(sweep))
<1> DEFINE Here == RowsIn(sweep)
           Later == {r \in rows : ShardOf[UserOf[r]] >= sweep + 1}
<1>1. sweep \in Nat /\ Shards \in Nat
    BY ShardAssumption
<1>2. \A r \in rows : ShardOf[UserOf[r]] \in 1..Shards
    BY RequestAssumption, ShardAssumption DEF SaleInv, TypeOK, TypeStores
<1>3. /\ IsFiniteSet(Behind) /\ Cardinality(Behind) \in Nat
      /\ IsFiniteSet(Ahead) /\ Cardinality(Ahead) \in Nat
      /\ IsFiniteSet(Here) /\ Cardinality(Here) \in Nat
    BY Parts
<1>4. IsFiniteSet(Later) /\ Cardinality(Later) \in Nat
    <2>1. Later \subseteq rows
        OBVIOUS
    <2>2. QED
        BY <2>1, Counted, Part
<1>5. Behind \cap Here = {} /\ Here \cap Later = {}
    <2>1. \A r \in rows : ShardOf[UserOf[r]] = sweep =>
              ~(ShardOf[UserOf[r]] < sweep) /\ ~(ShardOf[UserOf[r]] >= sweep + 1)
        BY <1>1
    <2>2. QED
        BY <2>1 DEF Behind, RowsIn
<1>6. Ahead = Here \cup Later
    <2>1. \A r \in rows : ShardOf[UserOf[r]] >= sweep <=>
              (ShardOf[UserOf[r]] = sweep \/ ShardOf[UserOf[r]] >= sweep + 1)
        BY <1>1, <1>2
    <2>2. QED
        BY <2>1 DEF Ahead, RowsIn
<1>7. /\ Cardinality(Behind \cup Here) = Cardinality(Behind) + Cardinality(Here)
      /\ Cardinality(Ahead) = Cardinality(Here) + Cardinality(Later)
    <2>1. Cardinality(Behind \cap Here) = 0 /\ Cardinality(Here \cap Later) = 0
        BY <1>5, FS_EmptySet
    <2>2. /\ Cardinality(Behind \cup Here) =
                Cardinality(Behind) + Cardinality(Here) - Cardinality(Behind \cap Here)
          /\ Cardinality(Here \cup Later) =
                Cardinality(Here) + Cardinality(Later) - Cardinality(Here \cap Later)
        BY <1>3, <1>4, FS_Union
    <2>3. QED
        BY <1>3, <1>4, <1>6, <2>1, <2>2
<1>8. ASSUME sweep' = sweep + 1
      PROVE  Behind' = Behind \cup Here /\ Ahead' = Later
    <2>1. \A r \in rows : ShardOf[UserOf[r]] < sweep + 1 <=>
              (ShardOf[UserOf[r]] < sweep \/ ShardOf[UserOf[r]] = sweep)
        BY <1>1, <1>2
    <2>2. QED
        BY <1>8, <2>1 DEF Behind, Ahead, RowsIn
<1>9. ASSUME sweep = Shards
      PROVE  rows = Behind \cup Here /\ Later = {}
    <2>1. \A r \in rows : /\ ShardOf[UserOf[r]] < sweep \/ ShardOf[UserOf[r]] = sweep
                          /\ ~(ShardOf[UserOf[r]] >= sweep + 1)
        BY <1>1, <1>2, <1>9
    <2>2. QED
        BY <2>1 DEF Behind, RowsIn
<1>10. sweep = Shards => Cardinality(Later) = 0
    BY <1>9, FS_EmptySet
<1>11. ASSUME sweep' = sweep + 1
       PROVE  /\ Cardinality(Behind') = Cardinality(Behind) + Cardinality(Here)
              /\ Cardinality(Ahead) = Cardinality(Here) + Cardinality(Ahead')
    BY <1>7, <1>8, <1>11
<1>12. ASSUME sweep = Shards
       PROVE  /\ Cardinality(rows) = Cardinality(Behind) + Cardinality(Here)
              /\ Cardinality(Ahead) = Cardinality(Here)
    <2>1. Cardinality(rows) = Cardinality(Behind \cup Here)
        BY <1>9, <1>12
    <2>2. Cardinality(Ahead) = Cardinality(Here) + 0
        BY <1>7, <1>10, <1>12
    <2>3. QED
        BY <1>3, <1>7, <2>1, <2>2
<1>13. QED
    BY <1>11, <1>12

LEMMA CheckCounts ==
    ASSUME SaleInv, SweepInv, CountShard, UNCHANGED vars
    PROVE  SweepInv'
<1> DEFINE NSold == Cardinality(sold)
           NRows == Cardinality(rows)
           NBehind == Cardinality(Behind)
           NAhead == Cardinality(Ahead)
           NHere == Cardinality(RowsIn(sweep))
<1>1. UNCHANGED <<sold, rows, warms>>
    BY DEF vars, shopVars, apiVars, storeVars
<1>2. /\ sweep # 0 /\ sweep \in 0..Shards /\ Shards \in Nat \ {0}
      /\ rem' = rem /\ start' = start /\ cnt' = cnt + NHere
      /\ \/ sweep < Shards /\ sweep' = sweep + 1 /\ finding' = finding
         \/ sweep = Shards /\ sweep' = 0 /\ finding' = Finding(cnt')
    BY ShardAssumption DEF CountShard, SweepInv, SweepTyped
<1>3. /\ start.rows =< start.sold /\ start.sold =< NSold /\ start.rows =< NRows
      /\ cnt =< NBehind /\ start.rows =< cnt + NAhead
      /\ warms =< 1 => rem + start.sold = Total
    BY <1>2 DEF SweepInv, CheckInv
<1>4. /\ NSold \in Nat /\ NRows \in Nat /\ NRows =< NSold
      /\ NRows =< Cardinality(Requests) /\ Cardinality(Requests) \in Nat
      /\ NBehind \in Nat /\ NAhead \in Nat /\ NHere \in Nat
    BY Counted, Parts
<1>5. /\ rem \in Nat /\ rem \in 0..Total /\ cnt \in Nat
      /\ start.sold \in Nat /\ start.rows \in Nat
      /\ start \in [sold : Nat, rows : Nat]
      /\ finding \in [drift : Int, missing : Nat, late : Nat, sales : Nat]
    BY <1>4, NumberAssumption DEF SweepInv, SweepTyped
<1>6. CASE sweep < Shards /\ sweep' = sweep + 1 /\ finding' = finding
    <2>1. /\ Cardinality(Behind') = NBehind + NHere
          /\ NAhead = NHere + Cardinality(Ahead')
          /\ Cardinality(Ahead') \in Nat /\ Cardinality(Behind') =< NRows
        <3>1. Ahead' \subseteq rows /\ Behind' \subseteq rows
            BY <1>1 DEF Ahead, Behind
        <3>2. Cardinality(Ahead') \in Nat /\ Cardinality(Behind') =< NRows
            BY <3>1, Counted, Part
        <3>3. QED
            BY <1>1, <1>2, <1>6, <3>2, ShardMoves
    <2>2. cnt' =< Cardinality(Behind') /\ start.rows =< cnt' + Cardinality(Ahead')
        BY <1>2, <1>3, <1>4, <1>5, <2>1
    <2>3. cnt' \in 0..Cardinality(Requests)
        BY <1>2, <1>3, <1>4, <1>5, <2>1
    <2>4. SweepTyped'
        BY <1>2, <1>5, <1>6, <2>3 DEF SweepTyped
    <2>5. CheckInv'
        BY <1>1, <1>2, <1>3, <2>2 DEF CheckInv
    <2>6. FindingExplained'
        BY <1>1, <1>6 DEF SweepInv, FindingExplained
    <2>7. QED
        BY <2>4, <2>5, <2>6 DEF SweepInv
<1>7. CASE sweep = Shards /\ sweep' = 0 /\ finding' = Finding(cnt')
    <2>1. NRows = NBehind + NHere /\ NAhead = NHere
        BY <1>1, <1>2, <1>7, ShardMoves
    <2>2. cnt' \in Nat /\ cnt' =< NRows /\ start.rows =< cnt'
        BY <1>2, <1>3, <1>4, <1>5, <2>1
    <2>3. finding' = [drift |-> Total - (rem + cnt'), missing |-> start.sold - start.rows,
                      late |-> NRows - start.rows, sales |-> NSold - start.sold]
        BY <1>7 DEF Finding
    <2>4. SweepTyped'
        BY <1>2, <1>3, <1>4, <1>5, <1>7, <2>2, <2>3, NumberAssumption DEF SweepTyped
    <2>5. CheckInv'
        BY <1>7 DEF CheckInv
    <2>6. FindingExplained'
        <3>1. SUFFICES ASSUME warms =< 1
                       PROVE  /\ finding'.missing - finding'.late =< finding'.drift
                              /\ finding'.drift =< finding'.missing
                              /\ -finding'.drift =< finding'.sales
            BY <1>1 DEF FindingExplained
        <3>2. finding'.drift = start.sold - cnt'
            BY <1>3, <1>5, <2>2, <2>3, <3>1, NumberAssumption
        <3>3. QED
            BY <1>3, <1>4, <1>5, <2>2, <2>3, <3>2
    <2>7. QED
        BY <2>4, <2>5, <2>6 DEF SweepInv
<1>8. QED
    BY <1>2, <1>6, <1>7

LEMMA SweepInvNext ==
    ASSUME SaleInv, SaleInv', SweepInv, [SweepNext]_sweepAll
    PROVE  SweepInv'
<1>1. CASE CheckFails
    <2>1. /\ sweep' = 0 /\ UNCHANGED <<rem, cnt, finding, start, warms>>
        BY <1>1 DEF CheckFails, shopVars
    <2>2. SweepTyped' /\ FindingExplained'
        BY <2>1, ShardAssumption DEF SweepInv, SweepTyped, FindingExplained
    <2>3. CheckInv'
        BY <2>1 DEF CheckInv
    <2>4. QED
        BY <2>2, <2>3 DEF SweepInv
<1>2. QED
    BY <1>1, CheckGoesOn, CheckBegins, CheckCounts, SweepStep

LEMMA SweepHolds == SweepSpec => []SweepInv
<1>1. SaleInv /\ SaleInv' /\ SweepInv /\ [SweepNext]_sweepAll => SweepInv'
    BY SweepInvNext
<1>2. QED
    BY <1>1, SweepInitInv, PathHolds, PTL DEF SweepSpec, sweepAll

(***************************************************************************)
(* What it shows.                                                          *)
(***************************************************************************)

\* A check counts each order at most once and reads a stock within
\* 0..TotalStock.
THEOREM SweepTyping == SweepSpec => []SweepTypeOK
<1>1. SaleInv /\ SweepInv => SweepTypeOK
    BY DEF SaleInv, SweepInv, SweepTyped, SweepTypeOK
<1>2. QED
    BY <1>1, PathHolds, SweepHolds, PTL

\* Whatever is bought, inserted, retried or lost while ReconcileService.Check
\* goes from Redis to the last shard, the drift it reports is at most the units
\* that had no order when it began, falls short of them by no more than the
\* orders written since, and is negative only by units sold since.
THEOREM FindingIsExplained == SweepSpec => []FindingExplained
<1>1. SweepInv => FindingExplained
    BY DEF SweepInv
<1>2. QED
    BY <1>1, SweepHolds, PTL

=============================================================================
