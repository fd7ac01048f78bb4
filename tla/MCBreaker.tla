----------------------------- MODULE MCBreaker -----------------------------
(***************************************************************************)
(* The order path with a breaker that looks at the ratio from three calls  *)
(* on: one buyer sends an order three times and another sends one, or      *)
(* three buyers' orders have one id and MySQL refuses a fourth.            *)
(***************************************************************************)
EXTENDS MCFlashDeal, Breaker

CONSTANTS r4, u3, u4

\* The three sends of one order are interchangeable.
SendSymmetry == Permutations({r1, r2, r4})

\* The orders of three buyers were given one id; r4 is one that MySQL refuses.
BuyerOf == [r \in Requests |->
               IF r = r1 THEN u1 ELSE IF r = r2 THEN u2 ELSE IF r = r3 THEN u3 ELSE u4]
OneIdOf == [r \in Requests |-> IF r = r4 THEN 2 ELSE 1]

\* The three buyers are interchangeable, each with the order.
BuyerSymmetry ==
    {f @@ [u \in {u1, u2, u3} |-> BuyerOf[f[CHOOSE r \in {r1, r2, r3} : BuyerOf[r] = u]]] :
        f \in Permutations({r1, r2, r3})}

=============================================================================
