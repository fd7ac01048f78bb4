-------------------------- MODULE FlashDealClaims --------------------------
(***************************************************************************)
(* What the documents of the repository say of the order path and the code *)
(* does not keep.  Each formula is checked on an instance of its own, and  *)
(* TLC finds the behaviour that breaks it.                                 *)
(***************************************************************************)
EXTENDS MCFlashDeal

\* plan/risks.md, R13: the offset is committed after the MySQL insert or the
\* DLQ write.
CommittedIsAccounted ==
    \A i \in 1..committed : log[i] \in Requests => HasRow(log[i]) \/ log[i] \in dlq

=============================================================================
