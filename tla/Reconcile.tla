----------------------------- MODULE Reconcile -----------------------------
(***************************************************************************)
(* The reconcile sweeper over the order path.  ReconcileService.Check      *)
(* reads the stock in Redis and then counts the orders of one shard after  *)
(* the other, while the API and the consumers go on; the finding is the    *)
(* difference to activity.TotalStock, and 0 means consistent.              *)
(***************************************************************************)
EXTENDS FlashDeal

VARIABLES
    sweep,    \* the shard Check counts next, 0 between checks
    rem,      \* the stock this check has read
    cnt,      \* the orders this check has counted
    finding,  \* the last finding: its drift, and history of the check it is from
    start     \* history: units sold and rows written when the check began

sweepVars == <<sweep, rem, cnt, finding, start>>

SweepInit ==
    /\ Init
    /\ sweep = 0 /\ rem = 0 /\ cnt = 0
    /\ finding = [drift |-> 0, missing |-> 0, late |-> 0, sales |-> 0]
    /\ start = [sold |-> 0, rows |-> 0]

\* Slip: the count of the check before is kept.
ReadStockOnly ==
    /\ sweep = 0
    /\ phase # "absent" /\ stock # NoKey
    /\ rem' = stock /\ sweep' = 1
    /\ start' = [sold |-> Cardinality(sold), rows |-> Cardinality(rows)]
    /\ UNCHANGED <<cnt, finding, vars>>

\* GetByID, GET stock:{id}.  With no activity or no stock key there is no
\* finding.
ReadStock ==
    /\ sweep = 0
    /\ phase # "absent" /\ stock # NoKey
    /\ rem' = stock /\ cnt' = 0 /\ sweep' = 1
    /\ start' = [sold |-> Cardinality(sold), rows |-> Cardinality(rows)]
    /\ UNCHANGED <<finding, vars>>

RowsIn(shard) == {r \in rows : ShardOf[UserOf[r]] = shard}

\* What the check finds, given the number of orders it has counted.
Finding(orders) ==
    [drift   |-> Total - (rem + orders),
     missing |-> start.sold - start.rows,
     late    |-> Cardinality(rows) - start.rows,
     sales   |-> Cardinality(sold) - start.sold]

\* Slip: the first shard is counted each time.
CountFirstShard ==
    /\ sweep # 0
    /\ cnt' = cnt + Cardinality(RowsIn(1))
    /\ \/ sweep < Shards /\ sweep' = sweep + 1 /\ UNCHANGED finding
       \/ sweep = Shards /\ sweep' = 0 /\ finding' = Finding(cnt')
    /\ UNCHANGED <<rem, start, vars>>

\* SELECT COUNT(*) of the next shard; after the last one the drift is reported.
CountShard ==
    /\ sweep # 0
    /\ cnt' = cnt + Cardinality(RowsIn(sweep))
    /\ \/ sweep < Shards /\ sweep' = sweep + 1 /\ UNCHANGED finding
       \/ sweep = Shards /\ sweep' = 0 /\ finding' = Finding(cnt')
    /\ UNCHANGED <<rem, start, vars>>

\* A count fails and the check with it, until the next tick.
CheckFails ==
    /\ sweep # 0
    /\ Fault
    /\ sweep' = 0
    /\ UNCHANGED <<rem, cnt, finding, start>>
    /\ UNCHANGED <<shopVars, storeVars, apiVars, groupVars, stops>>

\* An operator warms a stock again only to top it up after a finding.
OperatorWaits == warms > 0 /\ warms' # warms => finding.drift # 0

OrderPath == Next /\ OperatorWaits /\ UNCHANGED sweepVars

SweepNext == OrderPath \/ ReadStock \/ CountShard \/ CheckFails

SweepSpec == SweepInit /\ [][SweepNext]_<<vars, sweepVars>>

\* The ticker of Run fires again and again.
FairSweepSpec ==
    /\ SweepSpec
    /\ WF_<<vars, sweepVars>>(ReadStock)
    /\ WF_<<vars, sweepVars>>(CountShard)

-----------------------------------------------------------------------------
SweepTypeOK ==
    /\ TypeOK
    /\ sweep \in 0..Shards
    /\ rem \in 0..Total /\ cnt \in 0..Cardinality(Requests)
    /\ finding \in [drift : Int, missing : Nat, late : Nat, sales : Nat]
    /\ start \in [sold : Nat, rows : Nat]

\* A finding is of no single moment.  Of a stock warmed once, its drift is
\* at most the units that had no order when the stock was read, it falls short
\* of them by no more than the orders written during the check, and it is
\* negative only by units sold during the check.
FindingExplained ==
    warms =< 1 =>
        /\ finding.missing - finding.late =< finding.drift
        /\ finding.drift =< finding.missing
        /\ -finding.drift =< finding.sales

\* Units taken and not ordered, of a stock warmed once.
Missing == Cardinality(sold) - Cardinality(rows)

\* Nobody is buying and nothing is left to consume.
Quiet ==
    /\ stock # NoKey
    /\ \A r \in Requests : pc[r] = "done"
    /\ \A c \in Consumers : cpc[c] = "poll"
    /\ committed = Len(log)

\* Once the sale is quiet, the sweeper reports just the units that were lost on
\* the way, whatever it reported while orders were moving.
DriftSurfaces == Quiet ~> (finding.drift = Missing \/ ~Quiet)

\* "Operator can decide to top-up Redis from MySQL canonical (adminSvc.Warm)"
\* (reconcile.go:6-7) and "no oversell" (README.md:27): no more orders than
\* TotalStock, top-ups included.
NeverOversold == Cardinality(rows) =< Total

=============================================================================
