----------------------------- MODULE MCSyncSale -----------------------------
(***************************************************************************)
(* Small instances of SyncSale for TLC.  Users 2 and 5 share a shard of    *)
(* three.  User -2 would have it too, if the table took negative ids.      *)
(***************************************************************************)
EXTENDS SyncSale, TLC

CONSTANTS r1, r2, r3, r4, t1, t2, p1, p2

\* User 2 sends one order twice, through different processes.
MCUserOf  == [r \in Requests |-> IF r = r3 THEN -2 ELSE IF r = r4 THEN 5 ELSE 2]
MCTokenOf == [r \in Requests |-> IF r = r4 THEN t2 ELSE t1]
MCProcOf  == [r \in Requests |-> IF r \in {r2, r3} THEN p2 ELSE p1]

\* One process serves users 2 and 5.
OneProcOf == [r \in Requests |-> p1]

=============================================================================
