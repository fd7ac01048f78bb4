---------------------------- MODULE MCReconcile ----------------------------
(* The sweeper over two shards, with a user in each. *)
EXTENDS MCFlashDeal, Reconcile

=============================================================================
