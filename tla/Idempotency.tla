---------------------------- MODULE Idempotency ----------------------------
(***************************************************************************)
(* The idempotency middleware, for one key idem:{activity}:{user}:{token}, *)
(* which every call carries.  A call's handler is the rest of the chain,   *)
(* and the response the handler makes is named by the call.  gin sends the *)
(* response when the chain returns, after the cache was written.           *)
(***************************************************************************)
EXTENDS HttpCalls

CONSTANT MaxExpiries   \* bound: times the key's 24h run out

ASSUME CallAssumption ==
    Calls \cap {"absent", "processing", "none", "conflict", "error"} = {}

ASSUME BoundAssumption == MaxExpiries \in Nat

VARIABLES
    key,     \* the Redis key: absent, processing, or a cached response
    pc,      \* where each call is in the middleware
    got,     \* what the client of each call received
    runs,    \* history: handler runs, with the life of the key they ran in
    life     \* times the key has expired

vars == <<key, pc, got, runs, life, faults>>

States == {"setnx", "get", "handle", "store", "bypass", "done"}
Holding == {c \in Calls : pc[c] \in {"handle", "store"}}

Init ==
    /\ key = "absent"
    /\ pc = [c \in Calls |-> "setnx"]
    /\ got = [c \in Calls |-> "none"]
    /\ runs = {} /\ life = 0 /\ faults = 0

Goto(c, state) == pc' = [pc EXCEPT ![c] = state]

\* The chain returns and the client reads what was written.
Reply(c, answer) == Goto(c, "done") /\ got' = [got EXCEPT ![c] = answer]

RunHandler(c, guarded) ==
    runs' = runs \cup {[call |-> c, life |-> life, guarded |-> guarded]}

-----------------------------------------------------------------------------
\* Slip: SET in place of SETNX.
AcquireAlways(c) ==
    /\ pc[c] = "setnx"
    /\ key' = "processing"
    /\ Goto(c, "handle")
    /\ UNCHANGED <<got, runs, life, faults>>

\* SETNX key processing set the key.
Acquire(c) ==
    /\ pc[c] = "setnx"
    /\ key = "absent"
    /\ key' = "processing"
    /\ Goto(c, "handle")
    /\ UNCHANGED <<got, runs, life, faults>>

\* SETNX found the key.
Contend(c) ==
    /\ pc[c] = "setnx"
    /\ key # "absent"
    /\ Goto(c, "get")
    /\ UNCHANGED <<key, got, runs, life, faults>>

\* The reply to SETNX was lost and the Redis client sent it again, so the call
\* finds the key it set itself.
AcquireUnknowing(c) ==
    /\ pc[c] = "setnx"
    /\ key = "absent"
    /\ Fault
    /\ key' = "processing"
    /\ Goto(c, "get")
    /\ UNCHANGED <<got, runs, life>>

\* SETNX returned an error, whether or not it set the key: fail open.
FailOpen(c) ==
    /\ pc[c] = "setnx"
    /\ Fault
    /\ key' \in {key, IF key = "absent" THEN "processing" ELSE key}
    /\ Goto(c, "bypass")
    /\ UNCHANGED <<got, runs, life>>

\* The cached response, with its original status.
Replay(c) ==
    /\ pc[c] = "get"
    /\ key \in Calls
    /\ Reply(c, key)
    /\ UNCHANGED <<key, runs, life, faults>>

\* Slip: the value is not compared with processing.
ConflictUnchecked(c) ==
    /\ pc[c] = "get"
    /\ key = "processing"
    /\ Reply(c, key)
    /\ UNCHANGED <<key, runs, life, faults>>

\* 409, still processing.
Conflict(c) ==
    /\ pc[c] = "get"
    /\ key = "processing"
    /\ Reply(c, "conflict")
    /\ UNCHANGED <<key, runs, life, faults>>

\* The key expired between SETNX and GET: pass through.
Vanished(c) ==
    /\ pc[c] = "get"
    /\ key = "absent"
    /\ Goto(c, "bypass")
    /\ UNCHANGED <<key, got, runs, life, faults>>

GetFails(c) ==
    /\ pc[c] = "get"
    /\ Fault
    /\ Reply(c, "error")
    /\ UNCHANGED <<key, runs, life>>

\* The winner runs the handler, which writes into the buffer.
Handle(c) ==
    /\ pc[c] = "handle"
    /\ RunHandler(c, TRUE)
    /\ Goto(c, "store")
    /\ UNCHANGED <<key, got, life, faults>>

\* The handler panics, before or after its effect.  The write of the cache is
\* skipped; Recovery answers 500.
Panic(c) ==
    /\ pc[c] \in {"handle", "bypass"}
    /\ Fault
    /\ RunHandler(c, pc[c] = "handle") \/ UNCHANGED runs
    /\ Reply(c, "error")
    /\ UNCHANGED <<key, life>>

\* The response is cached under a context of its own, then sent.
Store(c) ==
    /\ pc[c] = "store"
    /\ key' = c
    /\ Reply(c, c)
    /\ UNCHANGED <<runs, life, faults>>

\* The SET failed or timed out; its error is dropped.
StoreFails(c) ==
    /\ pc[c] = "store"
    /\ Fault
    /\ key' \in {key, c}
    /\ Reply(c, c)
    /\ UNCHANGED <<runs, life>>

\* Slip: a call that came past the key caches its response too.
BypassStores(c) ==
    /\ pc[c] = "bypass"
    /\ RunHandler(c, FALSE)
    /\ key' = c
    /\ Reply(c, c)
    /\ UNCHANGED <<life, faults>>

\* A call that came past the key runs the handler and caches nothing.
Bypass(c) ==
    /\ pc[c] = "bypass"
    /\ RunHandler(c, FALSE)
    /\ Reply(c, c)
    /\ UNCHANGED <<key, life, faults>>

InChain(p) == {c \in Calls : ProcOf[c] = p /\ pc[c] \notin {"setnx", "done"}}

\* An API process dies with its calls in flight; their clients get no answer.
Crash(p) ==
    /\ Fault
    /\ pc' = [c \in Calls |-> IF c \in InChain(p) THEN "done" ELSE pc[c]]
    /\ UNCHANGED <<key, got, runs, life>>

\* Slip: SETNX sets no TTL; only the cached response has one.
ExpireCached ==
    /\ key \in Calls
    /\ life < MaxExpiries
    /\ key' = "absent"
    /\ life' = life + 1
    /\ UNCHANGED <<pc, got, runs, faults>>

\* 24h after SETNX or after the response was cached.  No request lives so
\* long, so none holds the key.
Expire ==
    /\ key # "absent"
    /\ Holding = {}
    /\ life < MaxExpiries
    /\ key' = "absent"
    /\ life' = life + 1
    /\ UNCHANGED <<pc, got, runs, faults>>

\* A failure in another part of the chain.
FaultElsewhere == Fault /\ UNCHANGED <<key, pc, got, runs, life>>

\* The middleware around one call.
Step(c) ==
    \/ Acquire(c) \/ Contend(c) \/ AcquireUnknowing(c) \/ FailOpen(c)
    \/ Replay(c) \/ Conflict(c) \/ Vanished(c) \/ GetFails(c)
    \/ Handle(c) \/ Panic(c) \/ Store(c) \/ StoreFails(c) \/ Bypass(c)

Next ==
    \/ Expire \/ FaultElsewhere
    \/ \E p \in Processes : Crash(p)
    \/ \E c \in Calls : Step(c)

Spec == Init /\ [][Next]_vars

\* A call goes on once it has arrived, and the key has a TTL.  Nothing makes a
\* client send its request.
Fairness ==
    /\ \A c \in Calls : WF_vars(pc[c] # "setnx" /\ Step(c))
    /\ WF_vars(Expire)

FairSpec == Spec /\ Fairness

-----------------------------------------------------------------------------
TypeOK ==
    /\ key \in {"absent", "processing"} \cup Calls
    /\ pc \in [Calls -> States]
    /\ got \in [Calls -> {"none", "conflict", "error"} \cup Calls]
    /\ runs \subseteq [call : Calls, life : 0..MaxExpiries, guarded : BOOLEAN]
    /\ life \in 0..MaxExpiries
    /\ faults \in 0..MaxFaults

\* In one life of the key at most one call runs the handler under it, and with
\* no failure and no expiry no call gets past the key.
HandledOnce ==
    /\ \A d, e \in {u \in runs : u.guarded} : d.life = e.life => d = e
    /\ faults = 0 /\ life = 0 => \A d \in runs : d.guarded

\* A call that has the key has it alone, and the key reads processing.
HolderIsAlone ==
    \A c \in Holding : Holding = {c} /\ key = "processing"

\* A response that answers another call, now or later, is the one made under
\* the key, never one made past it.
ReplayIsFirst ==
    /\ \A c \in Calls : got[c] \in Calls \ {c} =>
          \E d \in runs : d.call = got[c] /\ d.guarded
    /\ key \in Calls => [call |-> key, life |-> life, guarded |-> TRUE] \in runs

\* A cached response is what every replay gets until it expires.
AnswerStable == [][(key \in Calls) => key' \in {key, "absent"}]_vars

\* A key stranded on processing by a crash, a panic or a failed write is freed
\* by its TTL.
KeyFreed == (key = "processing" /\ life < MaxExpiries) ~> (key # "processing")

=============================================================================
