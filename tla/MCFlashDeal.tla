---------------------------- MODULE MCFlashDeal ----------------------------
(***************************************************************************)
(* Small instances of FlashDeal for TLC.                                   *)
(***************************************************************************)
EXTENDS FlashDealSale, TLC

CONSTANTS r1, r2, r3, u1, u2, t1, t2

\* Two users; u1 sends the same order twice (r1, r2), u2 sends r3.
RetryUserOf  == [r \in Requests |-> IF r = r3 THEN u2 ELSE u1]
RetryTokenOf == [r \in Requests |-> t1]

\* Every request is an order of its own.
OwnTokenOf == [r \in Requests |-> IF r = r1 THEN t1 ELSE t2]

\* r2 and r3 were given one id.
ClashIdOf == [r \in Requests |-> IF r = r1 THEN 1 ELSE 2]

\* Every request has an id of its own.
OwnIdOf == [r \in Requests |->
               IF r = r1 THEN 1 ELSE IF r = r2 THEN 2 ELSE IF r = r3 THEN 3 ELSE 4]

\* One database, or one for each user.
OneShard == [u \in Users |-> 1]
TwoShards == [u \in Users |-> IF u = u1 THEN 1 ELSE 2]

\* Consumers are interchangeable; used in runs without liveness.
GroupSymmetry == Permutations(Consumers)

=============================================================================
