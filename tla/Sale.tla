-------------------------------- MODULE Sale --------------------------------
(***************************************************************************)
(* What the order path promises, with no Redis, Kafka or MySQL in it: units *)
(* are put on sale in lots of Total; a request pays with one or more units; *)
(* only a paid request is promised an order or gets one; a buyer's token    *)
(* buys at most one order.                                                 *)
(***************************************************************************)
EXTENDS Naturals

CONSTANTS
    Requests,   \* order requests
    Total,      \* units in a lot
    UserOf,     \* the buyer of each request
    TokenOf     \* the idempotency token of each request

VARIABLES
    offered,    \* units put on sale
    spent,      \* units taken
    paid,       \* requests that took a unit
    promised,   \* requests that were told their order is queued
    orders      \* orders, each named by the request it comes from

saleVars == <<offered, spent, paid, promised, orders>>

SaleInit ==
    /\ offered = 0 /\ spent = 0
    /\ paid = {} /\ promised = {} /\ orders = {}

Offer ==
    /\ offered' = offered + Total
    /\ UNCHANGED <<spent, paid, promised, orders>>

Pay(r) ==
    /\ spent < offered
    /\ spent' = spent + 1
    /\ paid' = paid \cup {r}
    /\ UNCHANGED <<offered, promised, orders>>

Promise(r) ==
    /\ r \in paid
    /\ promised' = promised \cup {r}
    /\ UNCHANGED <<offered, spent, paid, orders>>

Place(r) ==
    /\ r \in paid
    /\ \A s \in orders : ~(UserOf[s] = UserOf[r] /\ TokenOf[s] = TokenOf[r])
    /\ orders' = orders \cup {r}
    /\ UNCHANGED <<offered, spent, paid, promised>>

SaleNext ==
    \/ Offer
    \/ \E r \in Requests : Pay(r) \/ Promise(r) \/ Place(r)

SaleSpec == SaleInit /\ [][SaleNext]_saleVars

=============================================================================
