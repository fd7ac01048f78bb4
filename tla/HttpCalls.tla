----------------------------- MODULE HttpCalls -----------------------------
(***************************************************************************)
(* The HTTP requests the middlewares of cmd/api handle, the API processes  *)
(* they arrive at, and the failures they share.                            *)
(***************************************************************************)
EXTENDS Integers, FiniteSets

CONSTANTS
    Calls,       \* HTTP requests
    Processes,   \* API processes
    ProcOf,      \* [Calls -> Processes]
    MaxFaults    \* bound: failed calls to Redis, panics and crashes

ASSUME CallsAssumption ==
    /\ IsFiniteSet(Calls)
    /\ ProcOf \in [Calls -> Processes]
    /\ MaxFaults \in Nat

VARIABLE faults  \* faults so far

Fault == faults < MaxFaults /\ faults' = faults + 1

=============================================================================
