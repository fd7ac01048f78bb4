------------------------------ MODULE ShardKey ------------------------------
(***************************************************************************)
(* pkg/shardkey: which database, and which table in it, holds the orders   *)
(* of a user.  User ids are int64, and int64 division truncates towards 0. *)
(***************************************************************************)
EXTENDS Integers

CONSTANT MaxInt   \* math.MaxInt64; the least id is -MaxInt - 1

ASSUME WidthAssumption == MaxInt \in Nat \ {0}

MinInt == -MaxInt - 1
IntRange == MinInt..MaxInt

\* Negation wraps: -MinInt is MinInt.
Negate(i) == IF i = MinInt THEN MinInt ELSE -i

\* The operators / and % of Go, for a divisor above 0.
Quo(i, n) == IF i >= 0 THEN i \div n ELSE -((-i) \div n)
Rem(i, n) == IF i >= 0 THEN i % n ELSE -((-i) % n)

\* Slip: the sign of the remainder is forgotten.
DBIndexSigned(userID, dbCount) == IF dbCount =< 0 THEN 0 ELSE Rem(userID, dbCount)

DBIndex(userID, dbCount) ==
    IF dbCount =< 0 THEN 0
    ELSE LET idx == Rem(userID, dbCount)
         IN  IF idx < 0 THEN Negate(idx) ELSE idx

TableIndex(userID, dbCount, tableCount) ==
    IF dbCount =< 0 \/ tableCount =< 0 THEN 0
    ELSE LET bucket == Quo(userID, dbCount)
         IN  Rem(IF bucket < 0 THEN Negate(bucket) ELSE bucket, tableCount)

-----------------------------------------------------------------------------
\* Every user id has a shard among those that are configured and a table among
\* those of a shard, negative ids included.  The one exception: with a single
\* database the bucket of the least id is that id, and its negation wraps.
IndexesInRange ==
    \A userID \in IntRange, dbCount, tableCount \in 1..MaxInt :
        /\ DBIndex(userID, dbCount) \in 0..(dbCount - 1)
        /\ \/ TableIndex(userID, dbCount, tableCount) \in 0..(tableCount - 1)
           \/ userID = MinInt /\ dbCount = 1

=============================================================================
