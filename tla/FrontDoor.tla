----------------------------- MODULE FrontDoor -----------------------------
(***************************************************************************)
(* What a POST /v1/seckill passes before the handler: the rate limiter,    *)
(* which every route has, then the idempotency middleware of the group.    *)
(* The calls come from one user and carry one idempotency key, but for     *)
(* those to other routes, which count for the limiter and go no further    *)
(* here.  The limiter reads a header and the middleware the body, so a     *)
(* call may carry the key and not the header.                              *)
(***************************************************************************)
EXTENDS RateLimit, Idempotency

DoorInit == Init /\ LimitInit

\* A call in the limiter; the key is not touched.
AtLimiter(c) == Limit(c) /\ UNCHANGED <<key, pc, got, runs, life>>

\* A call of the group that the limiter has let through.
Behind(c) == c \notin Elsewhere /\ at[c] = "passed" /\ Step(c) /\ UNCHANGED limitVars

\* A minute is short and a key's 24 hours are long: the clock is the limiter's.
Clock == Tick /\ UNCHANGED vars
KeyExpires == Expire /\ UNCHANGED limitVars

\* A process takes what it has in both with it.
Die(p) == Crash(p) /\ Restart(p)

DoorNext ==
    \/ Clock \/ KeyExpires
    \/ \E p \in Processes : Die(p)
    \/ \E c \in Calls : AtLimiter(c) \/ Behind(c)

\* A call goes on once it has arrived, time goes by and the key has a TTL.
\* Nothing makes a client send its request.
DoorFairness ==
    /\ \A c \in Calls : WF_<<vars, limitVars>>(at[c] # "arrive" /\ AtLimiter(c))
    /\ \A c \in Calls : WF_<<vars, limitVars>>(Behind(c))
    /\ WF_<<vars, limitVars>>(Clock)
    /\ WF_<<vars, limitVars>>(KeyExpires)

DoorSpec == DoorInit /\ [][DoorNext]_<<vars, limitVars>> /\ DoorFairness

-----------------------------------------------------------------------------
DoorTypeOK == TypeOK /\ LimitTypeOK

\* The counter of a user goes away and the user is let in again, whatever else
\* fails, unless it was made and the EXPIRE that was to follow is lost: the INCR
\* that made it had no reply, EXPIRE failed, or the process died between the two.
\* Then it stays, for "Redis errors fail-open" (ratelimit.go:21) holds of INCR.
CounterEnds == (counter > 0) ~> (counter = 0 \/ stranded # {})

=============================================================================
