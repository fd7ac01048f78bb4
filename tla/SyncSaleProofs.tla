--------------------------- MODULE SyncSaleProofs ---------------------------
(***************************************************************************)
(* The shard key and the synchronous mode, for any requests, processes,    *)
(* widths and bounds.                                                      *)
(***************************************************************************)
EXTENDS SyncSale, FiniteSetTheorems, TLAPS

(***************************************************************************)
(* The shard index is in range, for every width of the integers.           *)
(***************************************************************************)

LEMMA RemRange ==
    ASSUME NEW i \in Int, NEW n \in Nat \ {0}
    PROVE  Rem(i, n) \in Int /\ Rem(i, n) > -n /\ Rem(i, n) < n
<1>1. CASE i >= 0
  <2>1. i % n \in 0..(n - 1)
    OBVIOUS
  <2> QED
    BY <1>1, <2>1 DEF Rem
<1>2. CASE i < 0
  <2>1. (-i) % n \in 0..(n - 1)
    OBVIOUS
  <2> QED
    BY <1>2, <2>1 DEF Rem
<1> QED
  BY <1>1, <1>2

\* DBIndex never leaves the shards that are configured.
LEMMA DBIndexInRange ==
    ASSUME NEW userID \in IntRange, NEW n \in Nat \ {0}, n =< MaxInt
    PROVE  DBIndex(userID, n) \in 0..(n - 1)
<1>1. userID \in Int
  BY WidthAssumption DEF IntRange, MinInt
<1>2. Rem(userID, n) \in Int /\ Rem(userID, n) > -n /\ Rem(userID, n) < n
  BY <1>1, RemRange
<1>3. Rem(userID, n) # MinInt
  BY <1>2, WidthAssumption DEF MinInt
<1> QED
  BY <1>2, <1>3 DEF DBIndex, Negate

\* The quotient of a wide id stays wide unless the divisor is 1.
LEMMA QuoRange ==
    ASSUME NEW i \in IntRange, NEW n \in Nat \ {0}, i # MinInt \/ n # 1
    PROVE  Quo(i, n) \in Int /\ Quo(i, n) # MinInt
<1>1. i \in Int /\ MaxInt \in Nat \ {0} /\ MinInt = -MaxInt - 1 /\ i >= MinInt
  BY WidthAssumption DEF IntRange, MinInt
<1>2. CASE i >= 0
  <2>1. i \div n \in Int /\ i \div n >= 0
    BY <1>1, <1>2
  <2> QED
    BY <1>1, <1>2, <2>1 DEF Quo
<1>3. CASE i < 0
  <2> DEFINE q == (-i) \div n
  <2>1. q \in Int /\ q * n =< -i /\ q >= 0
    BY <1>1, <1>3
  <2>2. n = 1 => q = -i
    BY <1>1, <1>3
  <2>3. n >= 2 => q * n >= q * 2
    BY <2>1
  <2>4. -q # MinInt
    BY <1>1, <1>3, <2>1, <2>2, <2>3
  <2> QED
    BY <1>1, <1>3, <2>1, <2>4 DEF Quo
<1> QED
  BY <1>1, <1>2, <1>3

\* TableIndex never leaves the tables of a database, but for the least id with
\* a single database: there the negation of the bucket wraps.
LEMMA TableIndexInRange ==
    ASSUME NEW userID \in IntRange, NEW n \in Nat \ {0}, NEW t \in Nat \ {0},
           userID # MinInt \/ n # 1
    PROVE  TableIndex(userID, n, t) \in 0..(t - 1)
<1> DEFINE bucket == Quo(userID, n)
           b == IF bucket < 0 THEN Negate(bucket) ELSE bucket
<1>1. bucket \in Int /\ bucket # MinInt
  BY QuoRange
<1>2. b \in Int /\ b >= 0
  BY <1>1 DEF Negate
<1>3. b % t \in 0..(t - 1)
  BY <1>2
<1>4. TableIndex(userID, n, t) = Rem(b, t)
  BY DEF TableIndex
<1> HIDE DEF b
<1> QED
  BY <1>2, <1>3, <1>4 DEF Rem

\* Every user id, negative or wide, has a shard among those that are configured
\* and a table among those of a shard (pkg/shardkey), with the one exception.
THEOREM IndexesAreInRange == IndexesInRange
<1> SUFFICES ASSUME NEW userID \in IntRange,
                    NEW dbCount \in 1..MaxInt, NEW tableCount \in 1..MaxInt
             PROVE  /\ DBIndex(userID, dbCount) \in 0..(dbCount - 1)
                    /\ \/ TableIndex(userID, dbCount, tableCount) \in 0..(tableCount - 1)
                       \/ userID = MinInt /\ dbCount = 1
  BY DEF IndexesInRange
<1>1. dbCount \in Nat \ {0} /\ dbCount =< MaxInt /\ tableCount \in Nat \ {0}
  BY WidthAssumption
<1>2. DBIndex(userID, dbCount) \in 0..(dbCount - 1)
  BY <1>1, DBIndexInRange
<1>3. TableIndex(userID, dbCount, tableCount) \in 0..(tableCount - 1)
      \/ (userID = MinInt /\ dbCount = 1)
  BY <1>1, TableIndexInRange
<1> QED
  BY <1>2, <1>3

(***************************************************************************)
(* Where a request is tells what it has.                                   *)
(***************************************************************************)

PaidSteps == {"select", "clock", "count", "token", "insert", "reply", "duplicate"}
WithID == {"token", "insert", "reply", "duplicate"}

\* The shard of a request is one of those that are configured.
LEMMA ShardInRange ==
    ASSUME NEW r \in Requests
    PROVE  Shard(r) \in Nat /\ (Shard(r) = 0 \/ Shard(r) \in 1..(DBCount - 1))
<1>1. UserOf[r] \in IntRange /\ DBCount \in Nat /\ DBCount =< MaxInt
  BY SyncAssumption, WidthAssumption
<1>2. CASE DBCount = 0
  BY <1>2 DEF Shard, DBIndex
<1>3. CASE DBCount # 0
  BY <1>1, <1>3, DBIndexInRange DEF Shard
<1> QED
  BY <1>2, <1>3

\* Whatever the state, Create finds its database.
THEOREM ShardsExist == Spec => []ShardExists
<1>1. ShardExists
  BY ShardInRange DEF ShardExists
<1> QED
  BY <1>1, PTL

-----------------------------------------------------------------------------
LEMMA FaultType ==
    ASSUME faults \in 0..MaxFaults, Fault
    PROVE  faults' \in 0..MaxFaults
BY SyncAssumption DEF Fault

LEMMA TypeInit == Init => TypeOK
<1> SUFFICES ASSUME Init PROVE TypeOK
  OBVIOUS
<1>1. stepped \in BOOLEAN
  BY DEF Init
<1> QED
  BY <1>1, SyncAssumption DEF Init, TypeOK, Steps, Outcomes

LEMMA RowType ==
    ASSUME TypeOK, NEW r \in Requests
    PROVE  Row(r) \in [req : Requests, shard : Nat, id : Nat]
BY ShardInRange DEF TypeOK, Row

LEMMA TypeServe ==
    ASSUME TypeOK, NEW r \in Requests, Serve(r)
    PROVE  TypeOK'
<1> USE DEF TypeOK, Steps, Outcomes, Goto, Answer, idVars, sqlVars
<1>1. CASE FetchActivity(r) \/ SelectStock(r) \/ InsertDuplicate(r) \/ Reply(r)
  BY <1>1 DEF Serve, FetchActivity, SelectStock, InsertDuplicate, Reply
<1>2. CASE UpdateStock(r)
  BY <1>2, SyncAssumption DEF Serve, UpdateStock, TakeUnit
<1>3. CASE SqlFails(r)
  <2>1. faults' \in 0..MaxFaults
    BY <1>3, FaultType DEF SqlFails
  <2>2. stock' \in 0..Total /\ paid' \subseteq Requests
    BY <1>3, SyncAssumption DEF SqlFails, TakeUnit
  <2> QED
    BY <1>3, <2>1, <2>2 DEF Serve, SqlFails
<1>4. CASE ReadClock(r)
  BY <1>4 DEF Serve, ReadClock, Numbered
<1>5. CASE NextID(r)
  <2>1. counter[ProcOf[r]] + 1 \in Nat /\ read[r] + (counter[ProcOf[r]] + 1) \in Nat
    BY SyncAssumption
  <2> QED
    BY <1>5, <2>1 DEF Serve, NextID
<1>6. CASE NewToken(r)
  BY <1>6, FaultType DEF Serve, NewToken
<1>7. CASE Insert(r)
  BY <1>7, RowType DEF Serve, Insert
<1>8. CASE InsertFails(r)
  <2>1. faults' \in 0..MaxFaults
    BY <1>8, FaultType DEF InsertFails
  <2>2. rows' \subseteq [req : Requests, shard : Nat, id : Nat]
    BY <1>8, RowType DEF InsertFails
  <2> QED
    BY <1>8, <2>1, <2>2 DEF Serve, InsertFails
<1> QED
  BY <1>1, <1>2, <1>3, <1>4, <1>5, <1>6, <1>7, <1>8 DEF Serve

LEMMA TypeNext == TypeOK /\ [Next]_vars => TypeOK'
<1> SUFFICES ASSUME TypeOK, [Next]_vars PROVE TypeOK'
  OBVIOUS
<1> USE DEF TypeOK
<1>1. CASE CreateActivity
  BY <1>1, SyncAssumption DEF CreateActivity, idVars
<1>2. CASE Tick
  BY <1>2, SyncAssumption DEF Tick, sqlVars
<1>6. CASE StepBack
  BY <1>6, FaultType, SyncAssumption DEF StepBack, sqlVars
<1>3. ASSUME NEW p \in Processes, Crash(p) PROVE TypeOK'
  BY <1>3, FaultType DEF Crash, sqlVars, idVars, Steps
<1>4. ASSUME NEW r \in Requests, Serve(r) PROVE TypeOK'
  BY <1>4, TypeServe
<1>5. CASE UNCHANGED vars
  BY <1>5 DEF vars, sqlVars, idVars
<1> QED
  BY <1>1, <1>2, <1>3, <1>4, <1>5, <1>6 DEF Next

\* The stock stays within 0..TotalStock and every id is a number.
THEOREM SyncTyping == Spec => []TypeOK
BY TypeInit, TypeNext, PTL DEF Spec

-----------------------------------------------------------------------------
(***************************************************************************)
(* Units: those past the UPDATE have one, and nobody before it.            *)
(***************************************************************************)
PaidOnce ==
    /\ phase = "absent" => paid = {} /\ \A r \in Requests : pc[r] \in {"fetch", "done"}
    /\ \A r \in Requests : /\ pc[r] \in {"fetch", "update"} => r \notin paid
                           /\ pc[r] \in PaidSteps => r \in paid
                           /\ pc[r] # "done" => resp[r] = "none"
    /\ \A o \in rows : o.req \in paid

UnitInv == TypeOK /\ PaidOnce /\ UnitsAddUp

LEMMA UnitInit == Init => UnitInv
<1> SUFFICES ASSUME Init PROVE UnitInv
  OBVIOUS
<1>1. TypeOK
  BY TypeInit
<1>2. PaidOnce /\ UnitsAddUp
  BY DEF Init, PaidOnce, UnitsAddUp, PaidSteps
<1> QED
  BY <1>1, <1>2 DEF UnitInv

\* The UPDATE takes one unit, for a request that has none.
LEMMA OneUnit ==
    ASSUME UnitInv, NEW r \in Requests, pc[r] = "update", stock >= 1, TakeUnit(r)
    PROVE  /\ stock' >= 0 /\ stock' + Cardinality(paid') = Total
           /\ Cardinality(paid') = Cardinality(paid) + 1 /\ Cardinality(paid) < Total
<1>1. IsFiniteSet(paid) /\ Cardinality(paid) \in Nat
  BY SyncAssumption, FS_Subset, FS_CardinalityType DEF UnitInv, TypeOK
<1>2. r \notin paid
  BY DEF UnitInv, PaidOnce
<1>3. Cardinality(paid') = Cardinality(paid) + 1
  BY <1>1, <1>2, FS_AddElement DEF TakeUnit
<1>4. stock + Cardinality(paid) = Total /\ stock \in Nat
  BY SyncAssumption DEF UnitInv, UnitsAddUp, PaidOnce, TypeOK
<1> QED
  BY <1>1, <1>3, <1>4, SyncAssumption DEF TakeUnit

\* What a step of r may do to the unit, the answer and the row of r.
LEMMA ServeMoves ==
    ASSUME UnitInv, NEW r \in Requests, Serve(r)
    PROVE  /\ UNCHANGED phase
           /\ phase = "absent" => pc'[r] = "done"
           /\ \A q \in Requests \ {r} : pc'[q] = pc[q] /\ resp'[q] = resp[q]
           /\ pc'[r] # "done" => resp'[r] = resp[r]
           /\ pc[r] # "done"
           /\ pc'[r] # "fetch"
           /\ rows' = rows \/ (pc[r] = "insert" /\ rows' = rows \cup {Row(r)})
           /\ \/ /\ UNCHANGED sqlVars
                 /\ pc'[r] = "update" => pc[r] = "fetch"
                 /\ pc'[r] \in PaidSteps => pc[r] \in PaidSteps
              \/ /\ pc[r] = "update" /\ stock >= 1 /\ TakeUnit(r)
                 /\ pc'[r] \in {"select", "done"}
<1> USE DEF Goto, Answer, idVars, sqlVars, PaidSteps, UnitInv, TypeOK
<1>1. CASE FetchActivity(r)
  BY <1>1 DEF Serve, FetchActivity
<1>2. CASE UpdateStock(r) \/ SqlFails(r)
  BY <1>2 DEF Serve, UpdateStock, SqlFails, PaidOnce
<1>3. CASE SelectStock(r) \/ ReadClock(r) \/ NextID(r) \/ NewToken(r)
  BY <1>3 DEF Serve, SelectStock, ReadClock, NextID, NewToken, PaidOnce
<1>4. CASE Insert(r) \/ InsertFails(r)
  BY <1>4 DEF Serve, Insert, InsertFails, PaidOnce
<1>5. CASE InsertDuplicate(r) \/ Reply(r)
  BY <1>5 DEF Serve, InsertDuplicate, Reply, PaidOnce
<1> QED
  BY <1>1, <1>2, <1>3, <1>4, <1>5 DEF Serve

LEMMA UnitServe ==
    ASSUME UnitInv, NEW r \in Requests, Serve(r)
    PROVE  UnitInv'
<1>1. TypeOK'
  BY TypeServe DEF UnitInv
<1>2. \A o \in rows' : o \in rows \/ (o.req = r /\ pc[r] = "insert")
  BY ServeMoves DEF Row
<1>3. CASE UNCHANGED sqlVars
  <2>1. UNCHANGED <<phase, paid, stock>>
    BY <1>3, ServeMoves DEF sqlVars
  <2>2. PaidOnce'
    BY <1>2, <2>1, ServeMoves DEF UnitInv, PaidOnce, PaidSteps, TakeUnit
  <2> QED
    BY <1>1, <2>1, <2>2 DEF UnitInv, UnitsAddUp
<1>4. CASE ~UNCHANGED sqlVars
  <2>1. pc[r] = "update" /\ stock >= 1 /\ TakeUnit(r) /\ pc'[r] \in {"select", "done"}
        /\ UNCHANGED phase
    BY <1>4, ServeMoves
  <2>2. phase # "absent" /\ r \notin paid /\ paid' = paid \cup {r}
    BY <2>1 DEF UnitInv, PaidOnce, TakeUnit
  <2>3. PaidOnce'
    BY <1>2, <2>1, <2>2, ServeMoves DEF UnitInv, PaidOnce, PaidSteps
  <2>4. UnitsAddUp'
    BY <2>1, OneUnit DEF UnitsAddUp
  <2> QED
    BY <1>1, <2>3, <2>4 DEF UnitInv
<1> QED
  BY <1>3, <1>4

LEMMA UnitNext == UnitInv /\ [Next]_vars => UnitInv'
<1> SUFFICES ASSUME UnitInv, [Next]_vars PROVE UnitInv'
  OBVIOUS
<1>0. TypeOK /\ TypeOK'
  BY TypeNext DEF UnitInv
<1>1. CASE CreateActivity
  <2>1. UnitsAddUp'
    BY <1>1, FS_EmptySet, SyncAssumption DEF CreateActivity, UnitInv, PaidOnce, UnitsAddUp
  <2> QED
    BY <1>0, <1>1, <2>1 DEF CreateActivity, UnitInv, PaidOnce
<1>2. CASE Tick \/ StepBack
  <2>1. phase' = "absent" <=> phase = "absent"
    BY <1>0, <1>2 DEF Tick, StepBack, TypeOK
  <2> QED
    BY <1>0, <1>2, <2>1 DEF Tick, StepBack, UnitInv, PaidOnce, UnitsAddUp, sqlVars
<1>3. ASSUME NEW p \in Processes, Crash(p) PROVE UnitInv'
  <2>1. \A r \in Requests : pc'[r] = pc[r] \/ pc'[r] = "done"
    BY <1>3 DEF Crash
  <2>2. UNCHANGED <<phase, stock, paid, rows, resp>>
    BY <1>3 DEF Crash, sqlVars
  <2> QED
    BY <1>0, <2>1, <2>2 DEF UnitInv, PaidOnce, UnitsAddUp, PaidSteps
<1>4. ASSUME NEW r \in Requests, Serve(r) PROVE UnitInv'
  BY <1>4, UnitServe
<1>5. CASE UNCHANGED vars
  BY <1>0, <1>5 DEF vars, sqlVars, UnitInv, PaidOnce, UnitsAddUp
<1> QED
  BY <1>1, <1>2, <1>3, <1>4, <1>5 DEF Next

\* Every unit the UPDATE takes is missing from total_stock and no other is.
THEOREM UnitsAreKept == Spec => []UnitsAddUp
<1>1. UnitInv => UnitsAddUp
  BY DEF UnitInv
<1> QED
  BY <1>1, UnitInit, UnitNext, PTL DEF Spec

-----------------------------------------------------------------------------
(***************************************************************************)
(* Ids: while the clock is not set back an id is at most the clock plus    *)
(* the counter of its process, and a call that has read the clock is past  *)
(* the ids that were made by then.                                         *)
(***************************************************************************)
IdPast ==
    /\ \A r \in Requests :
          /\ pc[r] \in {"fetch", "update", "select", "clock", "count"} => id[r] = 0
          /\ pc[r] \in WithID => id[r] # 0
          /\ \A s \in older[r] : id[s] # 0
    /\ ~stepped =>
          \A r \in Requests :
             /\ read[r] =< clock
             /\ id[r] =< clock + counter[ProcOf[r]]
             /\ \A s \in older[r] : id[s] =< read[r] + counter[ProcOf[r]]

IdInv == TypeOK /\ IdPast /\ IdsIncrease

LEMMA IdInit == Init => IdInv
<1> SUFFICES ASSUME Init PROVE IdInv
  OBVIOUS
<1>1. TypeOK
  BY TypeInit
<1>2. IdPast /\ IdsIncrease
  BY SyncAssumption DEF Init, IdPast, IdsIncrease, WithID
<1> QED
  BY <1>1, <1>2 DEF IdInv

\* A step that makes no id.
LEMMA NoNewId ==
    ASSUME IdInv, TypeOK', UNCHANGED <<counter, read, id, older>>,
           stepped' \/ (clock' >= clock /\ UNCHANGED stepped),
           \A r \in Requests :
              \/ pc'[r] = pc[r] \/ pc'[r] = "done"
              \/ pc[r] \in WithID /\ pc'[r] \in WithID
              \/ /\ pc[r] \in {"fetch", "update", "select"}
                 /\ pc'[r] \in {"update", "select", "clock"}
    PROVE  IdInv'
<1>1. \A r \in Requests : id[r] \in Nat /\ counter[ProcOf[r]] \in Nat /\ read[r] \in Nat
      /\ clock \in Nat /\ clock' \in Nat
  BY SyncAssumption DEF IdInv, TypeOK
<1>2. IdPast'
  BY <1>1 DEF IdInv, IdPast, WithID
<1>3. IdsIncrease'
  BY DEF IdInv, IdsIncrease
<1> QED
  BY <1>2, <1>3 DEF IdInv

LEMMA ReadClockKeeps ==
    ASSUME IdInv, TypeOK', NEW r \in Requests, ReadClock(r), UNCHANGED phase
    PROVE  IdInv'
<1> USE DEF Goto, sqlVars, idVars
<1>1. \A q \in Requests : id[q] \in Nat /\ counter[ProcOf[q]] \in Nat /\ read[q] \in Nat
      /\ clock \in Nat
  BY SyncAssumption DEF IdInv, TypeOK
<1>2. /\ \A q \in Requests \ {r} : read'[q] = read[q] /\ older'[q] = older[q] /\ pc'[q] = pc[q]
      /\ read'[r] = clock /\ older'[r] = Numbered(ProcOf[r]) /\ pc'[r] = "count"
      /\ pc[r] = "clock" /\ UNCHANGED <<clock, counter, id, stepped>>
  BY DEF ReadClock, IdInv, TypeOK
<1>3. id[r] = 0
  BY <1>2 DEF IdInv, IdPast
<1>4. \A s \in Numbered(ProcOf[r]) :
         id[s] # 0 /\ (~stepped => id[s] =< clock + counter[ProcOf[r]])
  BY DEF Numbered, IdInv, IdPast
<1>5. IdPast'
  BY <1>1, <1>2, <1>3, <1>4 DEF IdInv, IdPast, WithID
<1>6. IdsIncrease'
  BY <1>2, <1>3 DEF IdInv, IdsIncrease
<1> QED
  BY <1>5, <1>6 DEF IdInv

LEMMA NextIDKeeps ==
    ASSUME IdInv, TypeOK', NEW r \in Requests, NextID(r), UNCHANGED phase
    PROVE  IdInv'
<1> DEFINE n == counter[ProcOf[r]] + 1
<1>1. /\ \A q \in Requests : id[q] \in Nat /\ counter[ProcOf[q]] \in Nat /\ read[q] \in Nat
      /\ clock \in Nat /\ ProcOf[r] \in Processes /\ n \in Nat /\ n > counter[ProcOf[r]]
  BY SyncAssumption DEF IdInv, TypeOK
<1>2. /\ \A q \in Requests \ {r} : id'[q] = id[q] /\ pc'[q] = pc[q]
      /\ id'[r] = read[r] + n /\ pc'[r] = "token" /\ pc[r] = "count"
      /\ UNCHANGED <<clock, read, older, stepped>>
  BY DEF NextID, IdInv, TypeOK, Goto
<1>3. \A q \in Requests : /\ counter'[ProcOf[q]] \in Nat
                          /\ counter'[ProcOf[q]] >= counter[ProcOf[q]]
                          /\ ProcOf[q] = ProcOf[r] => counter'[ProcOf[q]] = n
  BY <1>1, SyncAssumption DEF NextID, IdInv, TypeOK
<1>4. id[r] = 0 /\ (~stepped => read[r] =< clock)
  BY <1>2 DEF IdInv, IdPast
<1>5. \A q \in Requests : r \notin older[q]
  BY <1>4 DEF IdInv, IdPast
<1> HIDE DEF n
<1>6. ~stepped => \A s \in older[r] : s \in Requests /\ id[s] < read[r] + n /\ s # r
  <2> SUFFICES ASSUME ~stepped, NEW s \in older[r]
               PROVE  s \in Requests /\ id[s] < read[r] + n /\ s # r
    OBVIOUS
  <2>1. s \in Requests
    BY DEF IdInv, TypeOK
  <2>2. id[s] =< read[r] + counter[ProcOf[r]]
    BY DEF IdInv, IdPast
  <2> QED
    BY <1>1, <1>5, <2>1, <2>2
<1>7. IdPast'
  <2>0. read[r] + n # 0
    BY <1>1
  <2>1. \A q \in Requests :
          /\ pc'[q] \in {"fetch", "update", "select", "clock", "count"} => id'[q] = 0
          /\ pc'[q] \in WithID => id'[q] # 0
    <3>1. id'[r] # 0 /\ pc'[r] = "token"
      BY <1>1, <1>2, <2>0
    <3> QED
      BY <1>2, <3>1 DEF IdInv, IdPast, WithID
  <2>2. ASSUME NEW q \in Requests, ~stepped
        PROVE  read'[q] =< clock' /\ id'[q] =< clock' + counter'[ProcOf[q]]
    <3>1. CASE q = r
      BY <1>1, <1>2, <1>3, <1>4, <2>2, <3>1
    <3>2. CASE q # r
      <4>1. id[q] =< clock + counter[ProcOf[q]] /\ read[q] =< clock
        BY <2>2 DEF IdInv, IdPast
      <4> QED
        BY <1>1, <1>2, <1>3, <3>2, <4>1
    <3> QED
      BY <3>1, <3>2
  <2>3. ASSUME NEW q \in Requests, NEW s \in older[q]
        PROVE  id'[s] # 0 /\ (~stepped => id'[s] =< read[q] + counter'[ProcOf[q]])
    <3>1. s \in Requests /\ s # r
      BY <1>5 DEF IdInv, TypeOK
    <3>2. id[s] # 0 /\ (~stepped => id[s] =< read[q] + counter[ProcOf[q]])
      BY DEF IdInv, IdPast
    <3> QED
      BY <1>1, <1>2, <1>3, <3>1, <3>2
  <2> QED
    BY <1>2, <2>1, <2>2, <2>3 DEF IdPast
<1>8. IdsIncrease'
  <2> SUFFICES ASSUME ~stepped, NEW q \in Requests, id'[q] # 0, NEW s \in older[q]
               PROVE  id'[s] < id'[q]
    BY <1>2 DEF IdsIncrease
  <2>1. s \in Requests /\ s # r
    BY <1>5 DEF IdInv, TypeOK
  <2>2. CASE q = r
    BY <1>2, <1>6, <2>1, <2>2
  <2>3. CASE q # r
    BY <1>2, <2>1, <2>3 DEF IdInv, IdsIncrease
  <2> QED
    BY <2>2, <2>3
<1> QED
  BY <1>7, <1>8 DEF IdInv

LEMMA IdNext == IdInv /\ [Next]_vars => IdInv'
<1> SUFFICES ASSUME IdInv, [Next]_vars PROVE IdInv'
  OBVIOUS
<1>0. TypeOK /\ TypeOK'
  BY TypeNext DEF IdInv
<1>1. CASE CreateActivity
  BY <1>0, <1>1, NoNewId DEF CreateActivity, idVars, TypeOK
<1>2. CASE Tick
  BY <1>0, <1>2, NoNewId DEF Tick, TypeOK
<1>6. CASE StepBack
  BY <1>0, <1>6, NoNewId DEF StepBack
<1>3. ASSUME NEW p \in Processes, Crash(p) PROVE IdInv'
  <2>1. \A r \in Requests : pc'[r] = pc[r] \/ pc'[r] = "done"
    BY <1>3 DEF Crash
  <2>2. UNCHANGED idVars /\ clock' >= clock
    BY <1>0, <1>3 DEF Crash, idVars, TypeOK
  <2> QED
    BY <1>0, <2>1, <2>2, NoNewId DEF idVars
<1>4. ASSUME NEW r \in Requests, Serve(r) PROVE IdInv'
  <2>1. CASE ReadClock(r)
    BY <1>0, <1>4, <2>1, ReadClockKeeps DEF Serve
  <2>2. CASE NextID(r)
    BY <1>0, <1>4, <2>2, NextIDKeeps DEF Serve
  <2>3. CASE ~ReadClock(r) /\ ~NextID(r)
    <3>1. UNCHANGED idVars
      BY <1>4, <2>3 DEF Serve, FetchActivity, UpdateStock, SelectStock, SqlFails, NewToken,
                        Insert, InsertDuplicate, InsertFails, Reply
    <3>2. \/ pc'[r] = "done"
          \/ pc[r] \in WithID /\ pc'[r] \in WithID
          \/ pc[r] \in {"fetch", "update", "select"} /\ pc'[r] \in {"update", "select", "clock"}
      BY <1>0, <1>4, <2>3 DEF Serve, FetchActivity, UpdateStock, SelectStock, SqlFails, NewToken,
                        Insert, InsertDuplicate, InsertFails, Reply, Goto, Answer, WithID, TypeOK
    <3>3. \A q \in Requests \ {r} : pc'[q] = pc[q]
      BY <1>0, <1>4, <2>3 DEF Serve, FetchActivity, UpdateStock, SelectStock, SqlFails, NewToken,
                        Insert, InsertDuplicate, InsertFails, Reply, Goto, Answer, TypeOK
    <3>4. clock' >= clock
      BY <1>0, <3>1 DEF idVars, TypeOK
    <3> QED
      BY <1>0, <3>1, <3>2, <3>3, <3>4, NoNewId DEF idVars
  <2> QED
    BY <2>1, <2>2, <2>3
<1>5. CASE UNCHANGED vars
  BY <1>0, <1>5, NoNewId DEF vars, idVars, TypeOK
<1> QED
  BY <1>1, <1>2, <1>3, <1>4, <1>5, <1>6 DEF Next

\* As long as the clock is not set back, an order id of a process is above all
\* that were made before its nextID call began.
THEOREM IdsGrow == Spec => []IdsIncrease
<1>1. IdInv => IdsIncrease
  BY DEF IdInv
<1> QED
  BY <1>1, IdInit, IdNext, PTL DEF Spec

-----------------------------------------------------------------------------
(***************************************************************************)
(* Rows: each is the row of its request, ids are unique within a shard,    *)
(* and what Create found is still there when the client is answered.       *)
(***************************************************************************)
Clash(r) ==
    \E o \in rows :
        \/ SameOrder(o.req, r)
        \/ /\ o.id = id[r] /\ o.shard = Shard(r)
           /\ ProcOf[o.req] # ProcOf[r] \/ Overlap(o.req, r) \/ stepped

RowsKeyed ==
    /\ \A o \in rows : o = Row(o.req) /\ id[o.req] # 0
    /\ \A o, p \in rows : o.shard = p.shard /\ o.id = p.id => o = p

Answers ==
    \A r \in Requests :
        /\ (pc[r] = "reply" \/ resp[r] = "queued") => Row(r) \in rows
        /\ (pc[r] = "duplicate" \/ resp[r] = "duplicate") => id[r] # 0 /\ Clash(r)

RowInv == UnitInv /\ IdInv /\ RowsKeyed /\ Answers

LEMMA RowInit == Init => RowInv
<1> SUFFICES ASSUME Init PROVE RowInv
  OBVIOUS
<1>1. RowsKeyed /\ Answers
  BY DEF Init, RowsKeyed, Answers
<1> QED
  BY <1>1, UnitInit, IdInit DEF RowInv

\* A request whose id is made keeps its row, its id and its reasons.
LEMMA RowsStay ==
    ASSUME RowInv, UnitInv', IdInv', rows \subseteq rows',
           \A q \in Requests : id[q] # 0 => id'[q] = id[q] /\ older'[q] = older[q],
           stepped => stepped',
           \A o \in rows' \ rows : o = Row(o.req)' /\ id'[o.req] # 0,
           \A o \in rows' \ rows, p \in rows : ~(o.shard = p.shard /\ o.id = p.id),
           \A o, p \in rows' \ rows : o = p,
           NEW r \in Requests,
           \A q \in Requests \ {r} : /\ pc'[q] \in {"reply", "duplicate"} => pc'[q] = pc[q]
                                     /\ resp'[q] = resp[q],
           (pc'[r] = "reply" \/ resp'[r] = "queued") =>
                (Row(r)' \in rows' \/ pc[r] = "reply" \/ resp[r] = "queued"),
           (pc'[r] = "duplicate" \/ resp'[r] = "duplicate") =>
                (id[r] # 0 /\ (Clash(r) \/ pc[r] = "duplicate" \/ resp[r] = "duplicate"))
    PROVE  RowInv'
<1>1. \A o \in rows : /\ o.req \in Requests /\ o = Row(o.req) /\ id[o.req] # 0
                      /\ o = Row(o.req)' /\ id'[o.req] # 0
  <2> SUFFICES ASSUME NEW o \in rows
               PROVE  /\ o.req \in Requests /\ o = Row(o.req) /\ id[o.req] # 0
                      /\ o = Row(o.req)' /\ id'[o.req] # 0
    OBVIOUS
  <2>1. o.req \in Requests
    BY DEF RowInv, UnitInv, TypeOK
  <2>2. o = Row(o.req) /\ id[o.req] # 0
    BY DEF RowInv, RowsKeyed
  <2>3. id'[o.req] = id[o.req]
    BY <2>1, <2>2
  <2>4. Row(o.req)' = Row(o.req)
    BY <2>3 DEF Row, Shard
  <2> QED
    BY <2>1, <2>2, <2>3, <2>4
<1>2. RowsKeyed'
  <2>1. \A o \in rows' : o = Row(o.req)' /\ id'[o.req] # 0
    BY <1>1
  <2>2. \A o, p \in rows' : o.shard = p.shard /\ o.id = p.id => o = p
    BY DEF RowInv, RowsKeyed
  <2> QED
    BY <2>1, <2>2 DEF RowsKeyed
<1>3. \A q \in Requests : id[q] # 0 /\ Clash(q) => id'[q] # 0 /\ Clash(q)'
  <2> SUFFICES ASSUME NEW q \in Requests, id[q] # 0, NEW o \in rows,
                      \/ SameOrder(o.req, q)
                      \/ /\ o.id = id[q] /\ o.shard = Shard(q)
                         /\ ProcOf[o.req] # ProcOf[q] \/ Overlap(o.req, q) \/ stepped
               PROVE  id'[q] # 0 /\ Clash(q)'
    BY DEF Clash
  <2>1. id'[q] = id[q] /\ older'[q] = older[q] /\ older'[o.req] = older[o.req] /\ o \in rows'
    BY <1>1
  <2>2. Overlap(o.req, q) => Overlap(o.req, q)'
    BY <2>1 DEF Overlap
  <2> QED
    BY <2>1, <2>2 DEF Clash, SameOrder, Shard
<1>4. \A q \in Requests : Row(q) \in rows => Row(q)' \in rows'
  <2> SUFFICES ASSUME NEW q \in Requests, Row(q) \in rows PROVE Row(q)' \in rows'
    OBVIOUS
  <2>1. Row(q).req = q
    BY DEF Row
  <2> QED
    BY <1>1, <2>1
<1>5. \A q \in Requests : /\ pc[q] = "reply" \/ resp[q] = "queued" => Row(q)' \in rows'
                          /\ pc[q] = "duplicate" \/ resp[q] = "duplicate"
                                => id'[q] # 0 /\ Clash(q)'
  BY <1>3, <1>4 DEF RowInv, Answers
<1>6. Answers'
  BY <1>3, <1>5 DEF Answers
<1> QED
  BY <1>2, <1>6 DEF RowInv

\* An id is made once, and what was older when it was made stays so.
LEMMA IdsStay ==
    ASSUME RowInv, [Next]_vars
    PROVE  /\ \A q \in Requests : id[q] # 0 => id'[q] = id[q] /\ older'[q] = older[q]
           /\ stepped => stepped'
<1>0. /\ id \in [Requests -> Nat] /\ older \in [Requests -> SUBSET Requests]
      /\ \A q \in Requests : pc[q] \in {"clock", "count"} => id[q] = 0
  BY DEF RowInv, UnitInv, TypeOK, IdInv, IdPast
<1>1. ASSUME NEW r \in Requests, Serve(r)
      PROVE  /\ \A q \in Requests : id[q] # 0 => id'[q] = id[q] /\ older'[q] = older[q]
             /\ stepped => stepped'
  <2>1. CASE ReadClock(r) \/ NextID(r)
    BY <1>0, <2>1 DEF ReadClock, NextID
  <2>2. CASE ~ReadClock(r) /\ ~NextID(r)
    BY <1>1, <2>2 DEF Serve, FetchActivity, UpdateStock, SelectStock, SqlFails, NewToken,
                      Insert, InsertDuplicate, InsertFails, Reply, idVars
  <2> QED
    BY <2>1, <2>2
<1>2. CASE CreateActivity \/ Tick \/ StepBack \/ UNCHANGED vars \/ \E p \in Processes : Crash(p)
  BY <1>2 DEF CreateActivity, Tick, StepBack, vars, Crash, idVars
<1> QED
  BY <1>1, <1>2 DEF Next

\* Two rows of one process that share a shard and an id are of overlapping calls.
LEMMA DuplicateIsClash ==
    ASSUME RowInv, NEW r \in Requests, id[r] # 0, IsDuplicateKey(r)
    PROVE  Clash(r)
<1>1. PICK o \in rows : o.shard = Shard(r) /\ (o.id = id[r] \/ SameOrder(o.req, r))
  BY DEF IsDuplicateKey
<1>2. o.req \in Requests /\ o.id = id[o.req] /\ id[o.req] # 0
  BY DEF RowInv, UnitInv, TypeOK, RowsKeyed, Row
<1>3. id[r] \in Nat /\ id[o.req] \in Nat
  BY <1>2 DEF RowInv, UnitInv, TypeOK
<1>4. ASSUME o.id = id[r], ~stepped PROVE Overlap(o.req, r)
  <2>1. \A s \in older[r] : id[s] < id[r]
    BY <1>4 DEF RowInv, IdInv, IdsIncrease
  <2>2. \A s \in older[o.req] : id[s] < id[o.req]
    BY <1>2, <1>4 DEF RowInv, IdInv, IdsIncrease
  <2>3. o.req \notin older[r]
    <3> SUFFICES ASSUME o.req \in older[r] PROVE FALSE
      OBVIOUS
    <3>1. id[o.req] < id[r]
      BY <2>1
    <3>2. id[o.req] = id[r]
      BY <1>2, <1>4
    <3> QED
      BY <1>3, <3>1, <3>2
  <2>4. r \notin older[o.req]
    <3> SUFFICES ASSUME r \in older[o.req] PROVE FALSE
      OBVIOUS
    <3>1. id[r] < id[o.req]
      BY <2>2
    <3>2. id[o.req] = id[r]
      BY <1>2, <1>4
    <3> QED
      BY <1>3, <3>1, <3>2
  <2> QED
    BY <2>3, <2>4 DEF Overlap
<1> QED
  BY <1>1, <1>4 DEF Clash

\* The row Create writes is the only one with its shard and id.
LEMMA NewRow ==
    ASSUME RowInv, UnitInv', IdInv', NEW r \in Requests, Serve(r),
           rows' = rows \cup {Row(r)}, ~IsDuplicateKey(r), pc[r] = "insert",
           UNCHANGED <<id, older, stepped>>, pc'[r] # "duplicate", resp'[r] # "duplicate"
    PROVE  RowInv'
<1>1. Row(r)' = Row(r) /\ Row(r).req = r /\ id[r] # 0
  BY DEF Row, Shard, RowInv, IdInv, IdPast, WithID
<1>2. \A p \in rows : ~(Row(r).shard = p.shard /\ Row(r).id = p.id)
  BY DEF Row, IsDuplicateKey
<1>3. \A o \in rows' \ rows : o = Row(r)
  OBVIOUS
<1>4. \A q \in Requests \ {r} : pc'[q] = pc[q] /\ resp'[q] = resp[q]
  BY ServeMoves DEF RowInv
<1> QED
  BY <1>1, <1>2, <1>3, <1>4, RowsStay

LEMMA RowNext == RowInv /\ [Next]_vars => RowInv'
<1> SUFFICES ASSUME RowInv, [Next]_vars PROVE RowInv'
  OBVIOUS
<1>0. UnitInv' /\ IdInv' /\ TypeOK
  BY UnitNext, IdNext DEF RowInv, UnitInv
<1>1. /\ \A q \in Requests : id[q] # 0 => id'[q] = id[q] /\ older'[q] = older[q]
      /\ stepped => stepped'
  BY IdsStay
<1>2. ASSUME NEW r \in Requests, Serve(r) PROVE RowInv'
  <2>1. \A q \in Requests \ {r} : pc'[q] = pc[q] /\ resp'[q] = resp[q]
    BY <1>2, ServeMoves DEF RowInv
  <2>2. CASE UNCHANGED rows /\ pc'[r] \notin {"reply", "duplicate"} /\
             (resp'[r] \in {"queued", "duplicate"} => resp'[r] = resp[r])
    BY <1>0, <1>1, <2>1, <2>2, RowsStay DEF RowInv, IdInv, Answers
  <2>3. CASE FetchActivity(r) \/ UpdateStock(r) \/ SelectStock(r) \/ SqlFails(r)
             \/ ReadClock(r) \/ NextID(r) \/ NewToken(r)
    BY <1>0, <2>2, <2>3 DEF FetchActivity, UpdateStock, SelectStock, SqlFails, ReadClock,
                      NextID, NewToken, Goto, Answer, TypeOK
  <2>4. CASE Insert(r)
    <3>1. /\ rows' = rows \cup {Row(r)} /\ ~IsDuplicateKey(r) /\ pc[r] = "insert"
          /\ UNCHANGED <<id, older, stepped, resp>> /\ pc'[r] = "reply"
      BY <1>0, <2>4 DEF Insert, Goto, idVars, TypeOK
    <3>2. resp'[r] # "duplicate"
      BY <3>1 DEF RowInv, UnitInv, PaidOnce
    <3> QED
      BY <1>0, <1>2, <3>1, <3>2, NewRow
  <2>5. CASE InsertFails(r)
    <3>1. /\ pc[r] = "insert" /\ pc'[r] = "done" /\ resp'[r] = "internal"
          /\ UNCHANGED <<id, older, stepped>>
          /\ UNCHANGED rows \/ (rows' = rows \cup {Row(r)} /\ ~IsDuplicateKey(r))
      BY <1>0, <2>5 DEF InsertFails, Goto, Answer, idVars, TypeOK
    <3>2. CASE UNCHANGED rows
      BY <2>2, <3>1, <3>2
    <3>3. CASE rows' = rows \cup {Row(r)} /\ ~IsDuplicateKey(r)
      BY <1>0, <1>2, <3>1, <3>3, NewRow
    <3> QED
      BY <3>1, <3>2, <3>3
  <2>6. CASE InsertDuplicate(r)
    <3>1. /\ pc[r] = "insert" /\ pc'[r] = "duplicate" /\ UNCHANGED <<rows, resp>>
          /\ IsDuplicateKey(r)
      BY <1>0, <2>6 DEF InsertDuplicate, Goto, TypeOK
    <3>2. id[r] # 0 /\ resp[r] = "none"
      BY <3>1 DEF RowInv, IdInv, IdPast, WithID, UnitInv, PaidOnce
    <3>3. Clash(r)
      BY <3>1, <3>2, DuplicateIsClash
    <3> QED
      BY <1>0, <1>1, <2>1, <3>1, <3>2, <3>3, RowsStay
  <2>7. CASE Reply(r)
    <3>1. /\ pc'[r] = "done" /\ UNCHANGED rows
          /\ \/ pc[r] = "reply" /\ resp'[r] = "queued"
             \/ pc[r] = "duplicate" /\ resp'[r] = "duplicate"
      BY <1>0, <2>7 DEF Reply, Answer, Goto, TypeOK
    <3>2. pc[r] = "duplicate" => id[r] # 0
      BY DEF RowInv, Answers
    <3> QED
      BY <1>0, <1>1, <2>1, <3>1, <3>2, RowsStay
  <2> QED
    BY <1>2, <2>3, <2>4, <2>5, <2>6, <2>7 DEF Serve
<1>3. CASE UNCHANGED <<rows, resp, id, older>> /\ (stepped => stepped') /\
           \A q \in Requests : pc'[q] = pc[q] \/ pc'[q] = "done"
  <2>1. \A q \in Requests : Row(q)' = Row(q) /\ (Clash(q) => Clash(q)')
    BY <1>3 DEF Row, Shard, Clash, Overlap
  <2>2. RowsKeyed'
    BY <1>3 DEF RowInv, RowsKeyed, Row, Shard
  <2>3. Answers'
    BY <1>3, <2>1 DEF RowInv, Answers
  <2> QED
    BY <1>0, <2>2, <2>3 DEF RowInv
<1>4. CASE CreateActivity \/ Tick \/ StepBack \/ UNCHANGED vars
  BY <1>3, <1>4 DEF CreateActivity, Tick, StepBack, vars, idVars
<1>5. ASSUME NEW p \in Processes, Crash(p) PROVE RowInv'
  <2>1. UNCHANGED <<rows, resp, id, older, stepped>>
    BY <1>5 DEF Crash, idVars
  <2>2. \A q \in Requests : pc'[q] = pc[q] \/ pc'[q] = "done"
    BY <1>5 DEF Crash
  <2> QED
    BY <1>3, <2>1, <2>2
<1> QED
  BY <1>2, <1>4, <1>5 DEF Next

\* An order that was promised is the one row GetByID finds for its buyer.
THEOREM OrdersAreFound == Spec => []ReadYourOrder
<1>1. RowInv => ReadYourOrder
  <2> SUFFICES ASSUME RowInv, NEW r \in Requests, resp[r] = "queued"
               PROVE  GetByID(UserOf[r], id[r]) = {r}
    BY DEF ReadYourOrder
  <2>1. Row(r) \in rows
    BY DEF RowInv, Answers
  <2>2. Row(r).req = r /\ Row(r).shard = DBIndex(UserOf[r], DBCount) /\ Row(r).id = id[r]
    BY DEF Row, Shard
  <2>3. \A o \in rows : o.shard = DBIndex(UserOf[r], DBCount) /\ o.id = id[r] => o = Row(r)
    BY <2>1, <2>2 DEF RowInv, RowsKeyed
  <2> QED
    BY <2>1, <2>2, <2>3 DEF GetByID
<1> QED
  BY <1>1, RowInit, RowNext, PTL DEF Spec

\* A 409 has one of four causes: the buyer's order is there, or one id was made
\* by two processes, by two overlapping calls, or after the clock was set back.
THEOREM DuplicatesHaveCause == Spec => []DuplicateHasCause
<1>1. RowInv => DuplicateHasCause
  BY DEF RowInv, Answers, Clash, DuplicateHasCause
<1> QED
  BY <1>1, RowInit, RowNext, PTL DEF Spec

-----------------------------------------------------------------------------
(***************************************************************************)
(* The synchronous mode implements Sale.                                   *)
(***************************************************************************)
Promised == {r \in Requests : resp[r] = "queued"}
Orders == {o.req : o \in rows}

LEMMA Silent ==
    ASSUME UNCHANGED <<paid, rows, Promised>>, phase' = "absent" <=> phase = "absent"
    PROVE  UNCHANGED S!saleVars
BY DEF S!saleVars, Promised

LEMMA SaleStarts == Init => S!SaleInit
<1> SUFFICES ASSUME Init PROVE S!SaleInit
  OBVIOUS
<1>1. Cardinality(paid) = 0
  BY FS_EmptySet DEF Init
<1> QED
  BY <1>1 DEF Init, S!SaleInit

LEMMA SaleServe ==
    ASSUME RowInv, NEW r \in Requests, Serve(r)
    PROVE  S!Pay(r) \/ S!Promise(r) \/ S!Place(r) \/ UNCHANGED S!saleVars
<1>1. UNCHANGED phase /\ TypeOK
  BY ServeMoves DEF RowInv, UnitInv
<1>2. \A q \in Requests \ {r} : resp'[q] = resp[q]
  BY ServeMoves DEF RowInv
<1>3. (resp'[r] = "queued") = (resp[r] = "queued") => Promised' = Promised
  BY <1>2 DEF Promised
<1>4. CASE UNCHANGED <<paid, rows>> /\ resp'[r] # "queued" /\ resp[r] # "queued"
  BY <1>1, <1>3, <1>4, Silent
<1>5. CASE ~UNCHANGED sqlVars
  <2>1. pc[r] = "update" /\ stock >= 1 /\ TakeUnit(r)
    BY <1>5, ServeMoves DEF RowInv
  <2>2. UNCHANGED rows
    BY <2>1, ServeMoves DEF RowInv
  <2>3. Cardinality(paid') = Cardinality(paid) + 1 /\ Cardinality(paid) < Total
    BY <2>1, OneUnit DEF RowInv
  <2>4. phase # "absent"
    BY <2>1 DEF RowInv, UnitInv, PaidOnce
  <2>5. resp[r] = "none" /\ resp'[r] # "queued"
    <3>1. resp[r] = "none"
      BY <2>1 DEF RowInv, UnitInv, PaidOnce
    <3> QED
      BY <1>1, <2>1, <3>1 DEF Serve, FetchActivity, UpdateStock, SelectStock, SqlFails, ReadClock,
             NextID, NewToken, Insert, InsertDuplicate, InsertFails, Reply, Goto, Answer, TypeOK
  <2>6. UNCHANGED Promised
    BY <1>3, <2>5
  <2> QED
    BY <1>1, <2>1, <2>2, <2>3, <2>4, <2>6 DEF S!Pay, Promised, TakeUnit
<1>6. CASE UNCHANGED sqlVars /\ rows' # rows
  <2>1. pc[r] = "insert" /\ rows' = rows \cup {Row(r)}
    BY <1>6, ServeMoves DEF RowInv
  <2>2. ~IsDuplicateKey(r) /\ resp'[r] # "queued" /\ resp[r] = "none"
    <3>1. resp[r] = "none"
      BY <2>1 DEF RowInv, UnitInv, PaidOnce
    <3> QED
      BY <1>1, <1>6, <2>1, <3>1 DEF Serve, FetchActivity, UpdateStock, SelectStock, SqlFails,
             ReadClock, NextID, NewToken, Insert, InsertDuplicate, InsertFails, Reply, Goto,
             Answer, TypeOK
  <2>3. Orders' = Orders \cup {r}
    <3>1. Row(r).req = r
      BY DEF Row
    <3>2. \A x : x \in Orders' <=> x \in Orders \/ x = r
      BY <2>1, <3>1 DEF Orders
    <3>3. \A x : x \in Orders' <=> x \in Orders \cup {r}
      BY <3>2
    <3> QED
      BY <3>3
  <2>4. \A s \in Orders : ~(UserOf[s] = UserOf[r] /\ TokenOf[s] = TokenOf[r])
    <3> SUFFICES ASSUME NEW o \in rows PROVE ~SameOrder(o.req, r)
      BY DEF Orders, SameOrder
    <3>1. o = Row(o.req)
      BY DEF RowInv, RowsKeyed
    <3>2. o.shard = Shard(o.req)
      BY <3>1 DEF Row
    <3>3. SameOrder(o.req, r) => o.shard = Shard(r)
      BY <3>2 DEF SameOrder, Shard
    <3> QED
      BY <2>2, <3>3 DEF IsDuplicateKey
  <2>5. r \in paid
    BY <2>1 DEF RowInv, UnitInv, PaidOnce, PaidSteps
  <2>6. UNCHANGED Promised
    BY <1>3, <2>2
  <2> QED
    BY <1>1, <1>6, <2>3, <2>4, <2>5, <2>6 DEF S!Place, Promised, Orders, sqlVars
<1>7. CASE Reply(r) /\ resp'[r] = "queued"
  <2>1. pc[r] = "reply" /\ resp' = [resp EXCEPT ![r] = "queued"] /\ UNCHANGED <<paid, rows>>
    BY <1>1, <1>7 DEF Reply, Answer, TypeOK, sqlVars
  <2>2. r \in paid
    BY <2>1 DEF RowInv, UnitInv, PaidOnce, PaidSteps
  <2>3. Promised' = Promised \cup {r}
    BY <1>1, <2>1 DEF Promised, TypeOK
  <2> QED
    BY <1>1, <2>1, <2>2, <2>3 DEF S!Promise, Promised
<1>8. CASE UNCHANGED <<sqlVars, rows>> /\ ~(Reply(r) /\ resp'[r] = "queued")
  <2>1. resp[r] = "none"
    BY ServeMoves DEF RowInv, UnitInv, PaidOnce
  <2>2. resp'[r] # "queued"
    BY <1>1, <1>8, <2>1 DEF Serve, FetchActivity, UpdateStock, SelectStock, SqlFails,
             ReadClock, NextID, NewToken, Insert, InsertDuplicate, InsertFails, Goto,
             Answer, TypeOK
  <2> QED
    BY <1>4, <1>8, <2>1, <2>2 DEF sqlVars
<1> QED
  BY <1>5, <1>6, <1>7, <1>8

LEMMA SaleStep == RowInv /\ [Next]_vars => [S!SaleNext]_(S!saleVars)
<1> SUFFICES ASSUME RowInv, [Next]_vars PROVE [S!SaleNext]_(S!saleVars)
  OBVIOUS
<1>1. ASSUME NEW r \in Requests, Serve(r) PROVE [S!SaleNext]_(S!saleVars)
  BY <1>1, SaleServe DEF S!SaleNext
<1>2. CASE CreateActivity
  <2>1. UNCHANGED <<paid, rows, Promised>> /\ phase = "absent" /\ phase' # "absent"
    BY <1>2 DEF CreateActivity, Promised
  <2>2. S!Offer
    BY <2>1, SyncAssumption DEF S!Offer, Promised
  <2> QED
    BY <2>2 DEF S!SaleNext
<1>3. CASE Tick \/ StepBack \/ UNCHANGED vars \/ \E p \in Processes : Crash(p)
  <2>1. UNCHANGED <<paid, rows, Promised>>
    BY <1>3 DEF Tick, StepBack, vars, Crash, sqlVars, Promised
  <2>2. phase' = "absent" <=> phase = "absent"
    BY <1>3 DEF Tick, StepBack, vars, Crash, RowInv, UnitInv, TypeOK
  <2> QED
    BY <2>1, <2>2, Silent
<1> QED
  BY <1>1, <1>2, <1>3 DEF Next

\* The synchronous path is the same sale as the asynchronous one.
THEOREM SyncImplements == Spec => ImplementsSale
BY SaleStarts, SaleStep, RowInit, RowNext, PTL DEF Spec, ImplementsSale, S!SaleSpec

=============================================================================
