--------------------------- MODULE FlashDealSale ---------------------------
(***************************************************************************)
(* The order path implements Sale: a lot is a Warm, a unit is paid when the *)
(* Lua script takes it, a promise is a 202 and an order is a MySQL row.     *)
(***************************************************************************)
EXTENDS FlashDeal

S == INSTANCE Sale WITH
        offered  <- Total * warms,
        spent    <- Cardinality(sold),
        paid     <- Paid,
        promised <- {r \in Requests : resp[r] = "queued"},
        orders   <- rows

\* Every step of the API, Redis, Kafka, the consumers and MySQL is a step of
\* the sale or changes nothing it speaks of.
ImplementsSale == S!SaleSpec

=============================================================================
