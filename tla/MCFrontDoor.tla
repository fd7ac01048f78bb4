---------------------------- MODULE MCFrontDoor ----------------------------
(***************************************************************************)
(* Small instances of FrontDoor for TLC: three calls of one user with one  *)
(* key, or five calls of one user to other routes.                         *)
(***************************************************************************)
EXTENDS FrontDoor, TLC

CONSTANTS c1, c2, c3, c4, c5, p1, p2

\* The first two share a process.
MCProcOf == [c \in Calls |-> IF c \in {c1, c2} THEN p1 ELSE p2]

=============================================================================
