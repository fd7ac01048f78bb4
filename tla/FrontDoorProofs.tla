-------------------------- MODULE FrontDoorProofs --------------------------
(***************************************************************************)
(* The way to the handler, for any calls, processes, limits and bounds.    *)
(* Behind the limiter the idempotency middleware is what it is alone; and  *)
(* no minute sees twice the limit.                                         *)
(***************************************************************************)
EXTENDS FrontDoor, FiniteSetTheorems, TLAPS

(***************************************************************************)
(* The idempotency middleware alone.  Of the order of the steps only two   *)
(* facts matter: whoever is in the handler under the key has it alone, and *)
(* in the life of a key that is absent, or whose holder is still on the    *)
(* way to the handler, no guarded run has taken place.                     *)
(***************************************************************************)

\* Runs belong to lives that have been; the life in which a call may yet run
\* the handler under the key has none; a call about to store has run it.
RunsInOrder ==
    /\ \A d \in runs : d.life =< life
    /\ (key = "absent" \/ \E c \in Calls : pc[c] = "handle") =>
          \A d \in runs : d.guarded => d.life # life
    /\ \A c \in Calls : pc[c] = "store" =>
          [call |-> c, life |-> life, guarded |-> TRUE] \in runs

\* A call gets past the key only after a failure or an expiry.
PastTheKey ==
    faults = 0 /\ life = 0 =>
        \A c \in Calls : pc[c] # "bypass" /\ (pc[c] = "get" => key # "absent")

KeyInv == TypeOK /\ HolderIsAlone /\ RunsInOrder /\ PastTheKey

FullInv == KeyInv /\ HandledOnce /\ ReplayIsFirst

-----------------------------------------------------------------------------
\* Names of responses are none of the key's other values.
LEMMA Distinct ==
    ASSUME NEW c \in Calls
    PROVE  c # "absent" /\ c # "processing" /\ c # "none" /\ c # "conflict" /\ c # "error"
BY CallAssumption

LEMMA TypeInit == Init => TypeOK
BY CallsAssumption, BoundAssumption DEF Init, TypeOK, States

LEMMA FaultType ==
    ASSUME faults \in 0..MaxFaults, Fault
    PROVE  faults' \in 0..MaxFaults /\ faults' > 0
BY CallsAssumption DEF Fault

LEMMA RunType ==
    ASSUME TypeOK, NEW c \in Calls, NEW g \in BOOLEAN, RunHandler(c, g)
    PROVE  runs' \subseteq [call : Calls, life : 0..MaxExpiries, guarded : BOOLEAN]
BY DEF TypeOK, RunHandler

LEMMA TypeStep ==
    ASSUME TypeOK, NEW c \in Calls, Step(c)
    PROVE  TypeOK'
<1> USE DEF TypeOK, States, Goto, Reply
<1>1. CASE Acquire(c) \/ Contend(c) \/ Vanished(c)
  BY <1>1 DEF Acquire, Contend, Vanished
<1>2. CASE AcquireUnknowing(c) \/ FailOpen(c)
  BY <1>2, FaultType DEF AcquireUnknowing, FailOpen
<1>3. CASE Replay(c) \/ Conflict(c)
  BY <1>3 DEF Replay, Conflict
<1>4. CASE GetFails(c)
  BY <1>4, FaultType DEF GetFails
<1>5. CASE Handle(c)
  BY <1>5, RunType DEF Handle
<1>6. CASE Panic(c)
  <2>1. runs' \subseteq [call : Calls, life : 0..MaxExpiries, guarded : BOOLEAN]
    BY <1>6, RunType DEF Panic
  <2> QED
    BY <1>6, <2>1, FaultType DEF Panic
<1>7. CASE Store(c)
  BY <1>7 DEF Store
<1>8. CASE StoreFails(c)
  BY <1>8, FaultType DEF StoreFails
<1>9. CASE Bypass(c)
  BY <1>9, RunType DEF Bypass
<1> QED
  BY <1>1, <1>2, <1>3, <1>4, <1>5, <1>6, <1>7, <1>8, <1>9 DEF Step

LEMMA TypeNext == TypeOK /\ [Next]_vars => TypeOK'
<1> SUFFICES ASSUME TypeOK, [Next]_vars PROVE TypeOK'
  OBVIOUS
<1>1. ASSUME Expire PROVE TypeOK'
  BY <1>1, BoundAssumption DEF Expire, TypeOK
<1>2. ASSUME FaultElsewhere PROVE TypeOK'
  BY <1>2, FaultType DEF FaultElsewhere, TypeOK
<1>3. ASSUME NEW p \in Processes, Crash(p) PROVE TypeOK'
  BY <1>3, FaultType DEF Crash, TypeOK, States
<1>4. ASSUME NEW c \in Calls, Step(c) PROVE TypeOK'
  BY <1>4, TypeStep
<1>5. CASE UNCHANGED vars
  BY <1>5 DEF vars, TypeOK
<1> QED
  BY <1>1, <1>2, <1>3, <1>4, <1>5 DEF Next

\* The key is absent, processing, or a response at any time (Idempotency).
THEOREM KeyTyping == Spec => []TypeOK
<1>1. TypeOK /\ [Next]_vars => TypeOK'
  BY TypeNext
<1> QED
  BY TypeInit, <1>1, PTL DEF Spec

-----------------------------------------------------------------------------
LEMMA KeyInit == Init => FullInv
<1> SUFFICES ASSUME Init PROVE FullInv
  OBVIOUS
<1>1. TypeOK
  BY TypeInit
<1>2. Holding = {}
  BY DEF Init, Holding
<1>3. HolderIsAlone /\ RunsInOrder /\ PastTheKey /\ HandledOnce
  BY <1>2 DEF Init, HolderIsAlone, RunsInOrder, PastTheKey, HandledOnce
<1>4. ReplayIsFirst
  BY Distinct DEF Init, ReplayIsFirst
<1> QED
  BY <1>1, <1>3, <1>4 DEF FullInv, KeyInv

\* A step that puts nobody into the chain and leaves the rest alone: the death
\* of a process, the failure of another part, or nothing at all.
LEMMA Idle ==
    ASSUME FullInv, TypeOK', UNCHANGED <<key, got, runs, life>>, faults' >= faults,
           \A c \in Calls : pc'[c] = pc[c] \/ pc'[c] = "done"
    PROVE  FullInv'
<1> USE DEF FullInv, KeyInv
<1>1. \A c \in Calls : c \in Holding' => c \in Holding
  BY DEF Holding
<1>2. HolderIsAlone'
  <2> SUFFICES ASSUME NEW c \in Holding' PROVE Holding' = {c} /\ key' = "processing"
    BY DEF HolderIsAlone
  <2>1. c \in Calls
    BY DEF Holding
  <2>2. Holding = {c} /\ key = "processing"
    BY <1>1, <2>1 DEF HolderIsAlone
  <2>3. \A d \in Holding' : d \in Calls /\ d = c
    BY <1>1, <2>2 DEF Holding
  <2> QED
    BY <2>2, <2>3
<1>3. RunsInOrder'
  BY DEF RunsInOrder
<1>4. PastTheKey' /\ HandledOnce'
  <2>1. faults' = 0 => faults = 0
    BY DEF TypeOK
  <2> QED
    BY <2>1 DEF PastTheKey, HandledOnce
<1>5. ReplayIsFirst'
  BY DEF ReplayIsFirst
<1> QED
  BY <1>2, <1>3, <1>4, <1>5

\* What no step of a call touches, and what its failures cost.
LEMMA StepFrame ==
    ASSUME NEW c \in Calls, Step(c)
    PROVE  life' = life /\ (UNCHANGED faults \/ Fault)
BY DEF Step, Acquire, Contend, AcquireUnknowing, FailOpen, Replay,
         Conflict, Vanished, GetFails, Handle, Panic, Store, StoreFails, Bypass

LEMMA FaultsCount ==
    ASSUME TypeOK, UNCHANGED faults \/ Fault
    PROVE  faults' = 0 => UNCHANGED faults
BY FaultType DEF TypeOK

\* Who comes into the chain under the key found it absent, so nobody had it.
LEMMA HolderStep ==
    ASSUME KeyInv, NEW c \in Calls, Step(c)
    PROVE  HolderIsAlone'
<1> USE DEF KeyInv, Holding, Goto, Reply
<1>1. pc \in [Calls -> States]
  BY DEF TypeOK
<1>2. CASE Acquire(c)
  <2>1. Holding = {}
    BY <1>2 DEF Acquire, HolderIsAlone
  <2>2. Holding' = {c} /\ key' = "processing"
    BY <1>1, <1>2, <2>1 DEF Acquire
  <2> QED
    BY <2>2 DEF HolderIsAlone
<1>3. CASE Handle(c)
  <2>1. Holding' = Holding
    BY <1>1, <1>3 DEF Handle
  <2> QED
    BY <1>3, <2>1 DEF Handle, HolderIsAlone
<1>4. CASE Store(c) \/ StoreFails(c)
  <2>1. Holding = {c}
    BY <1>4 DEF Store, StoreFails, HolderIsAlone
  <2>2. Holding' = {}
    BY <1>1, <1>4, <2>1 DEF Store, StoreFails
  <2> QED
    BY <2>2 DEF HolderIsAlone
<1>5. CASE AcquireUnknowing(c) \/ FailOpen(c)
  <2>1. Holding' = Holding
    BY <1>1, <1>5 DEF AcquireUnknowing, FailOpen
  <2>2. key' = key \/ (key = "absent" /\ key' = "processing")
    BY <1>5 DEF AcquireUnknowing, FailOpen
  <2> QED
    BY <2>1, <2>2 DEF HolderIsAlone
<1>6. CASE Panic(c)
  <2>1. Holding' = Holding \ {c} /\ key' = key
    BY <1>1, <1>6 DEF Panic
  <2> QED
    BY <2>1 DEF HolderIsAlone
<1>7. CASE Contend(c) \/ Vanished(c) \/ Replay(c) \/ Conflict(c) \/ GetFails(c) \/ Bypass(c)
  <2>1. Holding' = Holding /\ key' = key
    BY <1>1, <1>7 DEF Contend, Vanished, Replay, Conflict, GetFails, Bypass
  <2> QED
    BY <2>1 DEF HolderIsAlone
<1> QED
  BY <1>2, <1>3, <1>4, <1>5, <1>6, <1>7 DEF Step

\* The guarded run of a life is the first and the last of that life.
LEMMA RunsStep ==
    ASSUME KeyInv, NEW c \in Calls, Step(c)
    PROVE  RunsInOrder'
<1> USE DEF KeyInv, Goto, Reply
<1>1. pc \in [Calls -> States] /\ life \in 0..MaxExpiries /\ life' = life /\ life =< life
  BY BoundAssumption, StepFrame DEF TypeOK
<1>2. CASE UNCHANGED runs /\ pc'[c] \notin {"handle", "store"} /\ (key' = "absent" => key = "absent")
  <2>1. \A d \in Calls : pc'[d] \in {"handle", "store"} => pc'[d] = pc[d]
    BY <1>1, <1>2 DEF Step, Acquire, Contend, AcquireUnknowing, FailOpen, Replay,
         Conflict, Vanished, GetFails, Handle, Panic, Store, StoreFails, Bypass
  <2> QED
    BY <1>1, <1>2, <2>1 DEF RunsInOrder
<1>3. CASE Acquire(c)
  <2>1. \A d \in Calls : pc'[d] = "store" => pc[d] = "store"
    BY <1>1, <1>3 DEF Acquire
  <2> QED
    BY <1>1, <1>3, <2>1 DEF Acquire, RunsInOrder
<1>4. CASE Handle(c)
  <2>1. \A d \in Calls : pc'[d] # "handle"
    <3>1. \A d \in Calls : pc[d] = "handle" => d = c
      BY <1>4 DEF Handle, HolderIsAlone, Holding
    <3> QED
      BY <1>1, <1>4, <3>1 DEF Handle
  <2>2. key' # "absent"
    BY <1>4 DEF Handle, HolderIsAlone, Holding
  <2>3. \A d \in Calls : pc'[d] = "store" => d = c \/ pc[d] = "store"
    BY <1>1, <1>4 DEF Handle
  <2>4. runs' = runs \cup {[call |-> c, life |-> life, guarded |-> TRUE]}
    BY <1>4 DEF Handle, RunHandler
  <2>5. \A d \in runs' : d.life =< life'
    BY <1>1, <2>4 DEF RunsInOrder
  <2>6. \A d \in Calls : pc'[d] = "store" =>
            [call |-> d, life |-> life', guarded |-> TRUE] \in runs'
    BY <1>1, <2>3, <2>4 DEF RunsInOrder
  <2> QED
    BY <2>1, <2>2, <2>5, <2>6 DEF RunsInOrder
<1>5. CASE Panic(c) /\ ~UNCHANGED runs
  <2>1. CASE pc[c] = "handle"
    <3>1. \A d \in Calls : pc'[d] # "handle"
      <4>1. \A d \in Calls : pc[d] = "handle" => d = c
        BY <2>1 DEF HolderIsAlone, Holding
      <4> QED
        BY <1>1, <1>5, <4>1 DEF Panic
    <3>2. key' # "absent"
      BY <1>5, <2>1 DEF Panic, HolderIsAlone, Holding
    <3>3. \A d \in Calls : pc'[d] = "store" => pc[d] = "store"
      BY <1>1, <1>5 DEF Panic
    <3> QED
      BY <1>1, <1>5, <3>1, <3>2, <3>3 DEF Panic, RunHandler, RunsInOrder
  <2>2. CASE pc[c] = "bypass"
    <3>1. runs' = runs \cup {[call |-> c, life |-> life, guarded |-> FALSE]}
      BY <1>5, <2>2 DEF Panic, RunHandler
    <3>2. \A d \in Calls : pc'[d] \in {"handle", "store"} => pc'[d] = pc[d]
      BY <1>1, <1>5 DEF Panic
    <3> QED
      BY <1>1, <1>5, <3>1, <3>2 DEF Panic, RunsInOrder
  <2> QED
    BY <1>5, <2>1, <2>2 DEF Panic
<1>6. CASE Bypass(c)
  <2>1. runs' = runs \cup {[call |-> c, life |-> life, guarded |-> FALSE]}
    BY <1>6 DEF Bypass, RunHandler
  <2>2. \A d \in Calls : pc'[d] \in {"handle", "store"} => pc'[d] = pc[d]
    BY <1>1, <1>6 DEF Bypass
  <2> QED
    BY <1>1, <1>6, <2>1, <2>2 DEF Bypass, RunsInOrder
<1>7. CASE Contend(c) \/ AcquireUnknowing(c) \/ FailOpen(c) \/ Replay(c) \/ Conflict(c)
           \/ Vanished(c) \/ GetFails(c) \/ Store(c) \/ StoreFails(c)
           \/ (Panic(c) /\ UNCHANGED runs)
  <2>1. UNCHANGED runs /\ pc'[c] \notin {"handle", "store"}
    BY <1>1, <1>7 DEF Contend, AcquireUnknowing, FailOpen, Replay, Conflict, Vanished,
                      GetFails, Store, StoreFails, Panic
  <2>2. key' = "absent" => key = "absent"
    BY <1>7, Distinct DEF Contend, AcquireUnknowing, FailOpen, Replay, Conflict, Vanished,
                          GetFails, Store, StoreFails, Panic
  <2> QED
    BY <1>2, <2>1, <2>2
<1> QED
  BY <1>3, <1>4, <1>5, <1>6, <1>7 DEF Step

LEMMA PastTheKeyStep ==
    ASSUME KeyInv, NEW c \in Calls, Step(c)
    PROVE  PastTheKey'
<1> USE DEF KeyInv, Goto, Reply
<1> SUFFICES ASSUME faults' = 0, life' = 0, NEW d \in Calls
             PROVE  pc'[d] # "bypass" /\ (pc'[d] = "get" => key' # "absent")
  BY DEF PastTheKey
<1>1. UNCHANGED faults
  BY StepFrame, FaultsCount
<1>2. faults = 0 /\ life = 0
  BY <1>1, StepFrame
<1>3. ~(faults' = faults + 1)
  BY <1>1, <1>2
<1>4. pc[c] # "bypass" /\ (pc[c] = "get" => key # "absent")
      /\ pc[d] # "bypass" /\ (pc[d] = "get" => key # "absent")
  BY <1>2 DEF PastTheKey
<1>5. Acquire(c) \/ Contend(c) \/ Replay(c) \/ Conflict(c) \/ Handle(c) \/ Store(c)
  BY <1>3, <1>4 DEF Step, AcquireUnknowing, FailOpen, Vanished, GetFails, Panic, StoreFails,
                    Bypass, Fault
<1> QED
  BY <1>4, <1>5, Distinct DEF Acquire, Contend, Replay, Conflict, Handle, Store, TypeOK

LEMMA HandledStep ==
    ASSUME FullInv, NEW c \in Calls, Step(c)
    PROVE  HandledOnce'
<1> USE DEF FullInv, KeyInv, Goto, Reply
<1>1. \/ UNCHANGED runs
      \/ \E g \in BOOLEAN : /\ RunHandler(c, g)
                            /\ g => pc[c] = "handle"
                            /\ ~g => pc[c] = "bypass"
  BY DEF Step, Acquire, Contend, AcquireUnknowing, FailOpen, Replay,
         Conflict, Vanished, GetFails, Handle, Panic, Store, StoreFails, Bypass
<1>2. faults' = 0 => faults = 0
  BY StepFrame, FaultsCount
<1>3. life' = life
  BY StepFrame
<1>4. CASE UNCHANGED runs
  BY <1>2, <1>3, <1>4 DEF HandledOnce
<1>5. ASSUME NEW g \in BOOLEAN, RunHandler(c, g), g => pc[c] = "handle", ~g => pc[c] = "bypass"
      PROVE  HandledOnce'
  <2>1. g => \A d \in runs : d.guarded => d.life # life
    BY <1>5 DEF RunsInOrder
  <2>2. ~g => ~(faults = 0 /\ life = 0)
    BY <1>5 DEF PastTheKey
  <2> QED
    BY <1>2, <1>3, <1>5, <2>1, <2>2 DEF RunHandler, HandledOnce
<1> QED
  BY <1>1, <1>4, <1>5

LEMMA ReplayStep ==
    ASSUME FullInv, NEW c \in Calls, Step(c)
    PROVE  ReplayIsFirst'
<1> USE DEF FullInv, KeyInv, Goto, Reply
<1>1. runs \subseteq runs' /\ life' = life
  BY DEF Step, Acquire, Contend, AcquireUnknowing, FailOpen, Replay, Conflict, Vanished,
         GetFails, Handle, Panic, Store, StoreFails, Bypass, RunHandler
<1>2. got \in [Calls -> {"none", "conflict", "error"} \cup Calls]
  BY DEF TypeOK
<1>3. key' \in Calls => [call |-> key', life |-> life', guarded |-> TRUE] \in runs'
  <2>1. key' \in Calls => key' = key \/ (pc[c] = "store" /\ key' = c)
    BY Distinct DEF Step, Acquire, Contend, AcquireUnknowing, FailOpen, Replay, Conflict,
           Vanished, GetFails, Handle, Panic, Store, StoreFails, Bypass
  <2> QED
    BY <1>1, <2>1 DEF ReplayIsFirst, RunsInOrder
<1>4. \A d \in Calls : got'[d] \in Calls \ {d} => got'[d] = got[d] \/ (d = c /\ got'[d] = key)
  BY <1>2, Distinct DEF Step, Acquire, Contend, AcquireUnknowing, FailOpen, Replay, Conflict,
         Vanished, GetFails, Handle, Panic, Store, StoreFails, Bypass
<1>5. \A d \in Calls : got'[d] \in Calls \ {d} =>
          \E e \in runs' : e.call = got'[d] /\ e.guarded
  <2> SUFFICES ASSUME NEW d \in Calls, got'[d] \in Calls \ {d}
               PROVE  \E e \in runs' : e.call = got'[d] /\ e.guarded
    OBVIOUS
  <2>1. CASE got'[d] = got[d]
    <3>1. PICK e \in runs : e.call = got[d] /\ e.guarded
      BY <2>1 DEF ReplayIsFirst
    <3> QED
      BY <1>1, <2>1, <3>1
  <2>2. CASE got'[d] = key
    <3>1. [call |-> key, life |-> life, guarded |-> TRUE] \in runs
      BY <2>2 DEF ReplayIsFirst
    <3> QED
      BY <1>1, <2>2, <3>1
  <2> QED
    BY <1>4, <2>1, <2>2
<1> QED
  BY <1>3, <1>5 DEF ReplayIsFirst

\* The key is freed when nobody has it, and the new life has no run yet.
LEMMA ExpireStep ==
    ASSUME FullInv, TypeOK', Expire
    PROVE  FullInv'
<1> USE DEF FullInv, KeyInv, Expire
<1>1. Holding' = {} /\ key' = "absent"
  BY DEF Holding
<1>2. HolderIsAlone'
  BY <1>1 DEF HolderIsAlone
<1>3. \A d \in runs : d.life \in 0..MaxExpiries /\ d.life =< life /\ d.life # life'
  BY DEF TypeOK, RunsInOrder
<1>4. RunsInOrder'
  <2>1. \A c \in Calls : pc'[c] # "store"
    BY <1>1 DEF Holding
  <2>2. \A d \in runs : d.life =< life'
    BY <1>3, BoundAssumption DEF TypeOK
  <2> QED
    BY <1>3, <2>1, <2>2 DEF RunsInOrder
<1>5. PastTheKey' /\ HandledOnce'
  BY BoundAssumption DEF PastTheKey, HandledOnce, TypeOK
<1>6. ReplayIsFirst'
  BY <1>1, Distinct DEF ReplayIsFirst
<1> QED
  BY <1>2, <1>4, <1>5, <1>6

LEMMA KeyNext == FullInv /\ [Next]_vars => FullInv'
<1> SUFFICES ASSUME FullInv, [Next]_vars PROVE FullInv'
  OBVIOUS
<1>1. TypeOK'
  BY TypeNext DEF FullInv, KeyInv
<1>2. ASSUME Expire PROVE FullInv'
  BY <1>1, <1>2, ExpireStep
<1>3. ASSUME FaultElsewhere PROVE FullInv'
  BY <1>1, <1>3, Idle DEF FaultElsewhere, Fault, FullInv, KeyInv, TypeOK
<1>4. ASSUME NEW p \in Processes, Crash(p) PROVE FullInv'
  <2>1. \A c \in Calls : pc'[c] = pc[c] \/ pc'[c] = "done"
    BY <1>4 DEF Crash
  <2>2. faults' >= faults /\ UNCHANGED <<key, got, runs, life>>
    BY <1>4 DEF Crash, Fault, FullInv, KeyInv, TypeOK
  <2> QED
    BY <1>1, <2>1, <2>2, Idle
<1>5. ASSUME NEW c \in Calls, Step(c) PROVE FullInv'
  BY <1>1, <1>5, HolderStep, RunsStep, PastTheKeyStep, HandledStep, ReplayStep
     DEF FullInv, KeyInv
<1>6. CASE UNCHANGED vars
  BY <1>1, <1>6, Idle DEF vars, FullInv, KeyInv, TypeOK
<1> QED
  BY <1>2, <1>3, <1>4, <1>5, <1>6 DEF Next

LEMMA KeyInvariant == Spec => []FullInv
BY KeyInit, KeyNext, PTL DEF Spec

\* A call that won the key has it alone until it is done with it.
THEOREM HolderAlone == Spec => []HolderIsAlone
<1>1. FullInv => HolderIsAlone
  BY DEF FullInv, KeyInv
<1> QED
  BY <1>1, KeyInvariant, PTL

\* In each life of the key one call at most runs the handler under it.
THEOREM HandlerRunsOnce == Spec => []HandledOnce
<1>1. FullInv => HandledOnce
  BY DEF FullInv
<1> QED
  BY <1>1, KeyInvariant, PTL

\* Every replay is the response of a run under the key.
THEOREM FirstIsReplayed == Spec => []ReplayIsFirst
<1>1. FullInv => ReplayIsFirst
  BY DEF FullInv
<1> QED
  BY <1>1, KeyInvariant, PTL

\* What is cached stays as it is until the key expires.
THEOREM AnswerStays == Spec => AnswerStable
<1>1. FullInv /\ [Next]_vars => [(key \in Calls) => key' \in {key, "absent"}]_vars
  <2> SUFFICES ASSUME FullInv, Next, key \in Calls
               PROVE  key' \in {key, "absent"}
    OBVIOUS
  <2>1. \A c \in Calls : pc[c] # "store"
    BY Distinct DEF FullInv, KeyInv, HolderIsAlone, Holding
  <2>2. key # "absent" /\ key # "processing"
    BY Distinct
  <2>3. ASSUME NEW c \in Calls, Step(c) PROVE key' = key
    BY <2>1, <2>2, <2>3 DEF Step, Acquire, Contend, AcquireUnknowing, FailOpen, Replay,
         Conflict, Vanished, GetFails, Handle, Panic, Store, StoreFails, Bypass
  <2> QED
    BY <2>3 DEF Next, Expire, FaultElsewhere, Crash
<1> QED
  BY <1>1, KeyInvariant, PTL DEF Spec, AnswerStable

(***************************************************************************)
(* Behind the limiter.                                                     *)
(***************************************************************************)

\* To the key, the limiter is a place where things fail.
LEMMA DoorStep ==
    ASSUME [DoorNext]_<<vars, limitVars>>
    PROVE  [Next]_vars
<1>1. ASSUME NEW c \in Calls, AtLimiter(c) PROVE [Next]_vars
  <2>1. UNCHANGED faults \/ Fault
    BY <1>1 DEF AtLimiter, Limit, Allow, Incr, IncrLostReply, IncrFails, SetTTL, SetTTLFails
  <2> QED
    BY <1>1, <2>1 DEF AtLimiter, vars, Next, FaultElsewhere
<1>2. ASSUME NEW c \in Calls, Behind(c) PROVE [Next]_vars
  BY <1>2 DEF Behind, Next
<1>3. ASSUME NEW p \in Processes, Die(p) PROVE [Next]_vars
  BY <1>3 DEF Die, Next
<1>4. CASE Clock \/ KeyExpires
  BY <1>4 DEF Clock, KeyExpires, Next
<1> QED
  BY <1>1, <1>2, <1>3, <1>4 DEF DoorNext, vars

\* Whatever the middleware keeps alone it keeps behind the limiter
\* (cmd/api/main.go, the order of the middlewares).
THEOREM DoorImplements == DoorSpec => Spec
<1>1. DoorInit => Init
  BY DEF DoorInit
<1>2. [DoorNext]_<<vars, limitVars>> => [Next]_vars
  BY DoorStep
<1> QED
  BY <1>1, <1>2, PTL DEF DoorSpec, Spec

\* So a key's holder is alone, its handler runs once and the first answer is
\* replayed, whatever the limiter does to the calls on their way.
THEOREM DoorKeepsKey == DoorSpec => [](HolderIsAlone /\ HandledOnce /\ ReplayIsFirst)
BY DoorImplements, HolderAlone, HandlerRunsOnce, FirstIsReplayed, PTL

-----------------------------------------------------------------------------
(***************************************************************************)
(* The limiter.  Cur are the calls the counter admitted since it was made, *)
(* Old those of the counter before that may be younger than a minute.      *)
(***************************************************************************)
TypeOfLimit ==
    /\ at \in [Calls -> Places]
    /\ counter \in Nat
    /\ ttl \in {NoTTL} \cup 1..Window
    /\ age \in [Calls -> 0..Window]

\* The counter has a TTL or one call, the one that made it, may give it one.
Opening(Cur) ==
    /\ ttl # NoTTL => counter > 0
    /\ \A c \in Calls : at[c] = "expire" => c \in Cur /\ ttl = NoTTL /\ counter > 0
    /\ \A c, d \in Calls : at[c] = "expire" /\ at[d] = "expire" => c = d

\* The calls of the counter before have a minute on them when this one goes,
\* and so has one of its own, the one that made it.
Aging(Cur, Old) ==
    ttl # NoTTL => /\ \A c \in Old : age[c] >= Window - ttl
                   /\ \E o \in Cur : age[o] >= Window - ttl

Windows(Cur, Old) ==
    /\ Cur \subseteq Calls /\ Old \subseteq Calls
    /\ \A c \in Calls : age[c] < Window => c \in Cur \cup Old
    /\ \A c \in Cur : at[c] \notin {"arrive", "incr"}
    /\ Cardinality(Cur) =< counter /\ Cardinality(Cur) =< PerUser
    /\ Cardinality(Old) =< PerUser - 1
    /\ Opening(Cur) /\ Aging(Cur, Old)

TwoWindows == \E Cur, Old \in SUBSET Calls : Windows(Cur, Old)

LimitInv == TypeOfLimit /\ TwoWindows

LEMMA SubsetOfCalls ==
    ASSUME NEW T \in SUBSET Calls
    PROVE  IsFiniteSet(T) /\ Cardinality(T) \in Nat
BY CallsAssumption, FS_Subset, FS_CardinalityType

\* The two windows hold fewer than twice the limit.
LEMMA BoundFollows == LimitInv => MinuteBound
<1> SUFFICES ASSUME LimitInv PROVE MinuteBound
  OBVIOUS
<1>1. PICK Cur \in SUBSET Calls, Old \in SUBSET Calls : Windows(Cur, Old)
  BY DEF LimitInv, TwoWindows
<1> DEFINE Young == {c \in Calls : age[c] < Window}
<1>2. Young \subseteq Cur \cup Old
  BY <1>1 DEF Windows
<1>3. Cardinality(Cur) \in Nat /\ Cardinality(Old) \in Nat /\ IsFiniteSet(Cur)
      /\ IsFiniteSet(Old) /\ Cardinality(Young) \in Nat
  BY SubsetOfCalls
<1>4. IsFiniteSet(Cur \cup Old)
      /\ Cardinality(Cur \cup Old) =< Cardinality(Cur) + Cardinality(Old)
  <2>1. Cardinality(Cur \cup Old) =
           Cardinality(Cur) + Cardinality(Old) - Cardinality(Cur \cap Old)
    BY <1>3, FS_Union
  <2>2. Cardinality(Cur \cap Old) \in Nat
    BY SubsetOfCalls
  <2>3. IsFiniteSet(Cur \cup Old)
    BY <1>3, FS_Union
  <2> QED
    BY <1>3, <2>1, <2>2, <2>3
<1>5. Cardinality(Young) =< Cardinality(Cur \cup Old)
  BY <1>2, <1>4, FS_Subset
<1>6. Cardinality(Cur \cup Old) \in Nat
  BY <1>4, FS_CardinalityType
<1>7. Cardinality(Cur) =< PerUser /\ Cardinality(Old) =< PerUser - 1 /\ PerUser \in Nat
  BY <1>1, LimitAssumption DEF Windows
<1>8. Cardinality(Young) =< 2 * PerUser - 1
  BY <1>3, <1>4, <1>5, <1>6, <1>7
<1> QED
  BY <1>8 DEF MinuteBound

LEMMA LimitStarts == DoorInit => LimitInv
<1> SUFFICES ASSUME DoorInit PROVE LimitInv
  OBVIOUS
<1>1. TypeOfLimit
  BY LimitAssumption DEF DoorInit, LimitInit, TypeOfLimit, Places
<1>2. Cardinality({}) = 0
  BY FS_EmptySet
<1>3. Windows({}, {})
  BY <1>2, LimitAssumption DEF DoorInit, LimitInit, Windows, Opening, Aging, NoTTL
<1> QED
  BY <1>1, <1>3 DEF LimitInv, TwoWindows

\* A step that only moves calls on, none of them to EXPIRE.
LEMMA MovesOn ==
    ASSUME LimitInv, TypeOfLimit', UNCHANGED <<ttl, age>>, counter' >= counter,
           \A c \in Calls : /\ at'[c] = "expire" => at[c] = "expire"
                            /\ at'[c] \in {"arrive", "incr"} => at[c] \in {"arrive", "incr"}
    PROVE  LimitInv'
<1>1. PICK Cur \in SUBSET Calls, Old \in SUBSET Calls : Windows(Cur, Old)
  BY DEF LimitInv, TwoWindows
<1>2. Cardinality(Cur) \in Nat
  BY SubsetOfCalls
<1>3. Opening(Cur)'
  BY <1>1 DEF Windows, Opening, LimitInv, TypeOfLimit
<1>4. Windows(Cur, Old)'
  BY <1>1, <1>2, <1>3 DEF Windows, Aging, LimitInv, TypeOfLimit
<1> QED
  BY <1>4 DEF LimitInv, TwoWindows

\* The call that is admitted joins the counter's own and leaves the older ones.
LEMMA IncrKeepsWindows ==
    ASSUME LimitInv, NEW c \in Calls, Incr(c)
    PROVE  LimitInv'
<1> USE DEF Move, Judge, Places
<1>1. PICK Cur \in SUBSET Calls, Old \in SUBSET Calls : Windows(Cur, Old)
  BY DEF LimitInv, TwoWindows
<1>2. TypeOfLimit /\ at[c] = "incr" /\ counter' = counter + 1 /\ UNCHANGED ttl
  BY DEF LimitInv, Incr
<1>3. TypeOfLimit'
  BY <1>2, LimitAssumption DEF Incr, TypeOfLimit
<1>4. c \notin Cur
  BY <1>1, <1>2 DEF Windows
<1>5. at'[c] \notin {"arrive", "incr"} /\ \A d \in Calls \ {c} : at'[d] = at[d]
  BY <1>2 DEF Incr, TypeOfLimit
<1>6. Cardinality(Cur) \in Nat /\ IsFiniteSet(Cur) /\ Cardinality(Old) \in Nat
      /\ IsFiniteSet(Old)
  BY SubsetOfCalls
<1>7. CASE ~Admits(counter')
  <2>1. UNCHANGED age /\ at'[c] = "limited"
    BY <1>2, <1>7, LimitAssumption DEF Incr, Admits, TypeOfLimit
  <2>2. counter' >= counter
    BY <1>2 DEF TypeOfLimit
  <2> QED
    BY <1>2, <1>3, <1>5, <2>1, <2>2, MovesOn
<1>8. CASE Admits(counter')
  <2> DEFINE Cur2 == Cur \cup {c}
             Old2 == Old \ {c}
  <2>1. age' = [age EXCEPT ![c] = 0]
    BY <1>8 DEF Incr
  <2>2. Cardinality(Cur2) = Cardinality(Cur) + 1 /\ Cur2 \subseteq Calls
    BY <1>4, <1>6, FS_AddElement
  <2>3. Cardinality(Old2) =< Cardinality(Old) /\ Old2 \subseteq Calls
    BY <1>6, FS_Subset
  <2>4. Cardinality(Old2) \in Nat
    BY SubsetOfCalls
  <2>5. Cardinality(Cur2) =< counter' /\ Cardinality(Cur2) =< PerUser
    BY <1>1, <1>2, <1>6, <1>8, <2>2, LimitAssumption DEF Windows, Admits, TypeOfLimit
  <2>6. Cardinality(Old2) =< PerUser - 1
    BY <1>1, <1>6, <2>3, <2>4, LimitAssumption DEF Windows
  <2>7. Opening(Cur2)'
    <3>1. counter' > 0
      BY <1>2 DEF TypeOfLimit
    <3>2. at'[c] = "expire" => counter = 0
      BY <1>2 DEF Incr, TypeOfLimit
    <3>3. counter = 0 => ttl = NoTTL /\ \A d \in Calls : at[d] # "expire"
      BY <1>1 DEF Windows, Opening, TypeOfLimit
    <3> QED
      BY <1>1, <1>2, <1>5, <3>1, <3>2, <3>3 DEF Windows, Opening
  <2>8. Aging(Cur2, Old2)'
    <3>1. \A d \in Calls \ {c} : age'[d] = age[d]
      BY <1>2, <2>1 DEF TypeOfLimit
    <3> QED
      BY <1>1, <1>2, <1>4, <3>1 DEF Windows, Aging
  <2>9. /\ \A d \in Calls : age'[d] < Window => d \in Cur2 \cup Old2
        /\ \A d \in Cur2 : at'[d] \notin {"arrive", "incr"}
    <3>1. \A d \in Calls \ {c} : age'[d] = age[d]
      BY <1>2, <2>1 DEF TypeOfLimit
    <3> QED
      BY <1>1, <1>5, <3>1 DEF Windows
  <2> HIDE DEF Cur2, Old2
  <2>10. Windows(Cur2, Old2)'
    BY <2>2, <2>3, <2>5, <2>6, <2>7, <2>8, <2>9 DEF Windows
  <2> QED
    BY <1>3, <2>2, <2>3, <2>10 DEF LimitInv, TwoWindows
<1> QED
  BY <1>7, <1>8

\* EXPIRE starts the minute of the calls admitted so far.
LEMMA SetTTLKeepsWindows ==
    ASSUME LimitInv, NEW c \in Calls, SetTTL(c)
    PROVE  LimitInv'
<1> USE DEF Move, Judge, Places
<1>1. PICK Cur \in SUBSET Calls, Old \in SUBSET Calls : Windows(Cur, Old)
  BY DEF LimitInv, TwoWindows
<1>2. TypeOfLimit /\ at[c] = "expire" /\ ttl' = Window /\ UNCHANGED <<counter, age>>
  BY DEF LimitInv, SetTTL
<1>3. TypeOfLimit'
  BY <1>2, LimitAssumption DEF SetTTL, TypeOfLimit
<1>4. \A d \in Calls : at'[d] # "expire" /\ (at'[d] \in {"arrive", "incr"} => at'[d] = at[d])
  <2>1. \A d \in Calls : at[d] = "expire" => d = c
    BY <1>1, <1>2 DEF Windows, Opening
  <2> QED
    BY <1>2, <2>1 DEF SetTTL, TypeOfLimit
<1>5. c \in Cur /\ counter > 0
  BY <1>1, <1>2 DEF Windows, Opening
<1>6. Opening(Cur)'
  BY <1>2, <1>4, <1>5 DEF Opening
<1>7. Aging(Cur, Old)'
  <2>1. \A d \in Calls : age[d] >= Window - Window
    BY <1>2, LimitAssumption DEF TypeOfLimit
  <2> QED
    BY <1>2, <1>5, <2>1 DEF Aging
<1>8. Windows(Cur, Old)'
  BY <1>1, <1>2, <1>4, <1>6, <1>7 DEF Windows
<1> QED
  BY <1>3, <1>8 DEF LimitInv, TwoWindows

\* When the minute is over the older calls are out of it, and one of the others.
LEMMA TickKeepsWindows ==
    ASSUME LimitInv, Tick
    PROVE  LimitInv'
<1>1. PICK Cur \in SUBSET Calls, Old \in SUBSET Calls : Windows(Cur, Old)
  BY DEF LimitInv, TwoWindows
<1>2. TypeOfLimit /\ UNCHANGED at
  BY DEF LimitInv, Tick
<1>3. TypeOfLimit'
  BY <1>2, LimitAssumption DEF Tick, TypeOfLimit, NoTTL
<1>4. \A c \in Calls : /\ age'[c] = IF age[c] < Window THEN age[c] + 1 ELSE Window
                       /\ age[c] \in 0..Window
  BY <1>2 DEF Tick, TypeOfLimit
<1>5. CASE ttl = 1
  <2>1. counter' = 0 /\ ttl' = NoTTL
    BY <1>5 DEF Tick
  <2>2. PICK o \in Cur : age[o] >= Window - 1
    BY <1>1, <1>5 DEF Windows, Aging, NoTTL
  <2> DEFINE Old2 == Cur \ {o}
  <2>3. Cardinality(Old2) =< PerUser - 1 /\ Old2 \subseteq Calls
    <3>1. IsFiniteSet(Cur) /\ Cardinality(Cur) \in Nat
      BY SubsetOfCalls
    <3>2. Cardinality(Old2) = Cardinality(Cur) - 1
      BY <2>2, <3>1, FS_RemoveElement
    <3> QED
      BY <1>1, <3>1, <3>2, LimitAssumption DEF Windows
  <2>4. \A c \in Old \cup {o} : age'[c] = Window
    <3>1. \A c \in Old \cup {o} : c \in Calls /\ age[c] >= Window - 1
      BY <1>1, <1>5, <2>2 DEF Windows, Aging, NoTTL
    <3> QED
      BY <1>4, <3>1, LimitAssumption
  <2>5. \A c \in Calls : age'[c] < Window => c \in Old2
    <3>1. \A c \in Calls : age'[c] < Window => age[c] < Window
      BY <1>4, LimitAssumption
    <3>2. \A c \in Calls : age'[c] < Window => c \notin Old \cup {o}
      BY <2>4, LimitAssumption
    <3> QED
      BY <1>1, <3>1, <3>2 DEF Windows
  <2>6. \A c \in Calls : at[c] # "expire"
    BY <1>1, <1>5 DEF Windows, Opening, NoTTL
  <2>7. Opening({})' /\ Aging({}, Old2)'
    BY <1>2, <2>1, <2>6 DEF Opening, Aging
  <2>8. Cardinality({}) = 0
    BY FS_EmptySet
  <2> HIDE DEF Old2
  <2>9. Windows({}, Old2)'
    BY <2>1, <2>3, <2>5, <2>7, <2>8, LimitAssumption DEF Windows
  <2> QED
    BY <1>3, <2>3, <2>9 DEF LimitInv, TwoWindows
<1>6. CASE ttl # 1
  <2>1. counter' = counter
    BY <1>6 DEF Tick
  <2>2. \/ ttl = NoTTL /\ ttl' = NoTTL
        \/ ttl \in 2..Window /\ ttl' = ttl - 1 /\ ttl' # NoTTL
    BY <1>2, <1>6, LimitAssumption DEF Tick, TypeOfLimit, NoTTL
  <2>3. Opening(Cur)'
    BY <1>1, <1>2, <2>1, <2>2 DEF Windows, Opening, NoTTL
  <2>4. \A c \in Calls : ttl' # NoTTL /\ age[c] >= Window - ttl => age'[c] >= Window - ttl'
    BY <1>4, <2>2, LimitAssumption
  <2>5. Aging(Cur, Old)'
    BY <1>1, <2>2, <2>4 DEF Windows, Aging, NoTTL
  <2>6. \A c \in Calls : age'[c] < Window => c \in Cur \cup Old
    <3>1. \A c \in Calls : age'[c] < Window => age[c] < Window
      BY <1>4, LimitAssumption
    <3> QED
      BY <1>1, <3>1 DEF Windows
  <2>7. Windows(Cur, Old)'
    BY <1>1, <1>2, <2>1, <2>3, <2>5, <2>6 DEF Windows
  <2> QED
    BY <1>3, <2>7 DEF LimitInv, TwoWindows
<1> QED
  BY <1>5, <1>6

LEMMA LimitNext ==
    ASSUME LimitInv, [DoorNext]_<<vars, limitVars>>
    PROVE  LimitInv'
<1> USE DEF Move, Judge, Places
<1>0. TypeOfLimit
  BY DEF LimitInv
<1>1. ASSUME NEW c \in Calls, AtLimiter(c) PROVE LimitInv'
  <2>1. CASE Incr(c)
    BY <2>1, IncrKeepsWindows
  <2>2. CASE SetTTL(c)
    BY <2>2, SetTTLKeepsWindows
  <2>3. ASSUME Allow(c) \/ IncrLostReply(c) \/ IncrFails(c) \/ SetTTLFails(c)
        PROVE  LimitInv'
    <3>1. UNCHANGED <<ttl, age>> /\ counter' \in {counter, counter + 1}
      BY <2>3 DEF Allow, IncrLostReply, IncrFails, SetTTLFails
    <3>2. \/ UNCHANGED at
          \/ at' = [at EXCEPT ![c] = "passed"] \/ at' = [at EXCEPT ![c] = "limited"]
          \/ (at[c] = "arrive" /\ at' = [at EXCEPT ![c] = "incr"])
      BY <2>3 DEF Allow, IncrLostReply, IncrFails, SetTTLFails
    <3>3. \A d \in Calls : /\ at'[d] = "expire" => at[d] = "expire"
                           /\ at'[d] \in {"arrive", "incr"} => at[d] \in {"arrive", "incr"}
      BY <1>0, <3>2 DEF TypeOfLimit
    <3>4. at' \in [Calls -> Places]
      BY <1>0, <3>2 DEF TypeOfLimit
    <3>5. TypeOfLimit' /\ counter' >= counter
      BY <1>0, <3>1, <3>4 DEF TypeOfLimit
    <3> QED
      BY <3>1, <3>3, <3>5, MovesOn
  <2> QED
    BY <1>1, <2>1, <2>2, <2>3 DEF AtLimiter, Limit
<1>2. ASSUME NEW c \in Calls, Behind(c) PROVE LimitInv'
  BY <1>0, <1>2, MovesOn DEF Behind, limitVars, TypeOfLimit
<1>3. ASSUME NEW p \in Processes, Die(p) PROVE LimitInv'
  <2>1. \A c \in Calls : at'[c] = at[c] \/ at'[c] = "gone"
    BY <1>3 DEF Die, Restart
  <2>2. at' \in [Calls -> Places] /\ UNCHANGED <<ttl, age, counter>>
    BY <1>0, <1>3 DEF Die, Restart, TypeOfLimit
  <2> QED
    BY <1>0, <2>1, <2>2, MovesOn DEF TypeOfLimit
<1>4. CASE Clock
  BY <1>4, TickKeepsWindows DEF Clock
<1>5. CASE KeyExpires \/ UNCHANGED <<vars, limitVars>>
  BY <1>0, <1>5, MovesOn DEF KeyExpires, limitVars, TypeOfLimit
<1> QED
  BY <1>1, <1>2, <1>3, <1>4, <1>5 DEF DoorNext

\* In any minute the counter admits fewer than twice the limit, whatever fails.
THEOREM MinuteIsBounded == DoorSpec => []MinuteBound
BY LimitStarts, LimitNext, BoundFollows, PTL DEF DoorSpec

(***************************************************************************)
(* The TTL of the counter: the call that made the key is the only one that *)
(* gives it one, and when that call is lost nobody does.                   *)
(***************************************************************************)
Owing == {c \in Calls : at[c] = "expire"} \cup stranded

StrandInv ==
    /\ stranded \subseteq Calls
    /\ counter > 0 /\ ttl = NoTTL => Owing # {}
    /\ counter = 0 \/ ttl # NoTTL => Owing = {}
    /\ \A c, d \in Owing : c = d
    /\ \A c \in stranded : at[c] # "expire"

\* Who makes the counter is the one call that owes it a TTL.
LEMMA OwingMade ==
    ASSUME StrandInv, NEW c \in Calls, counter = 0, counter' = 1, Owing' = Owing \cup {c},
           stranded' \subseteq Calls, \A d \in stranded' : at'[d] # "expire", ttl' = ttl,
           ttl = NoTTL
    PROVE  StrandInv'
<1>1. Owing' = {c}
  BY DEF StrandInv
<1> QED
  BY <1>1 DEF StrandInv

\* Whoever owes the TTL may come to have lost it, and owes it still.
LEMMA OwingStays ==
    ASSUME StrandInv, counter \in Nat, counter' \in Nat, Owing' = Owing, ttl' = ttl,
           counter' > 0 <=> counter > 0,
           stranded' \subseteq Calls, \A d \in stranded' : at'[d] # "expire"
    PROVE  StrandInv'
<1>1. counter' = 0 <=> counter = 0
  OBVIOUS
<1> QED
  BY <1>1 DEF StrandInv

LEMMA StrandIncr ==
    ASSUME StrandInv, TypeOfLimit, TypeOfLimit', NEW c \in Calls, Incr(c) \/ IncrLostReply(c),
           counter = 0 => ttl = NoTTL
    PROVE  StrandInv'
<1>1. at \in [Calls -> Places] /\ counter \in Nat /\ stranded \subseteq Calls
  BY DEF TypeOfLimit, StrandInv
<1>2. at[c] = "incr" /\ counter' = counter + 1 /\ ttl' = ttl
  BY DEF Incr, IncrLostReply
<1>3. \A d \in Calls \ {c} : at'[d] = at[d]
  BY <1>1 DEF Incr, IncrLostReply, Move, Judge
<1>4. CASE counter = 0
  <2>1. ASSUME Incr(c) PROVE at'[c] = "expire" /\ stranded' = stranded
    BY <1>1, <1>4, <2>1 DEF Incr, Move
  <2>2. ASSUME IncrLostReply(c) PROVE at'[c] # "expire" /\ stranded' = stranded \cup {c}
    BY <1>1, <1>2, <1>4, <2>2 DEF IncrLostReply, Move
  <2>3. Owing' = Owing \cup {c} /\ stranded' \subseteq Calls
    BY <1>1, <1>2, <1>3, <2>1, <2>2 DEF Owing
  <2>4. c \notin stranded
    BY <1>4 DEF StrandInv, Owing
  <2>5. \A d \in stranded' : at'[d] # "expire"
    BY <1>1, <1>3, <2>1, <2>2, <2>4 DEF StrandInv
  <2> QED
    BY <1>2, <1>4, <2>3, <2>5, OwingMade
<1>5. CASE counter # 0
  <2>1. at'[c] # "expire" /\ stranded' = stranded
    BY <1>1, <1>2, <1>5 DEF Incr, IncrLostReply, Move, Judge
  <2>2. Owing' = Owing
    BY <1>1, <1>2, <1>3, <2>1 DEF Owing
  <2>3. \A d \in stranded' : at'[d] # "expire"
    BY <1>1, <1>3, <2>1 DEF StrandInv
  <2> QED
    BY <1>1, <1>2, <1>5, <2>1, <2>2, <2>3, OwingStays
<1> QED
  BY <1>4, <1>5

LEMMA NoTTLAtZero == LimitInv /\ counter = 0 => ttl = NoTTL
BY DEF LimitInv, TypeOfLimit, TwoWindows, Windows, Opening

LEMMA StrandNext ==
    ASSUME StrandInv, LimitInv, LimitInv', [DoorNext]_<<vars, limitVars>>
    PROVE  StrandInv'
<1>1. /\ at \in [Calls -> Places] /\ counter \in Nat /\ counter' \in Nat
      /\ stranded \subseteq Calls /\ ttl \in {NoTTL} \cup 1..Window
      /\ TypeOfLimit /\ TypeOfLimit'
  BY DEF StrandInv, LimitInv, TypeOfLimit
<1>2. ASSUME NEW c \in Calls, AtLimiter(c) PROVE StrandInv'
  <2>1. CASE Allow(c) \/ IncrFails(c)
    <3>1. at[c] # "expire" /\ at'[c] # "expire" /\ \A d \in Calls \ {c} : at'[d] = at[d]
      BY <1>1, <2>1 DEF Allow, IncrFails, Move
    <3>2. UNCHANGED <<counter, ttl, stranded>>
      BY <2>1 DEF Allow, IncrFails
    <3>3. Owing' = Owing
      BY <1>1, <3>1, <3>2 DEF Owing
    <3> QED
      BY <1>1, <3>1, <3>2, <3>3, OwingStays DEF StrandInv
  <2>2. CASE Incr(c) \/ IncrLostReply(c)
    BY <1>1, <2>2, StrandIncr, NoTTLAtZero
  <2>3. CASE SetTTL(c)
    <3>1. at[c] = "expire" /\ at'[c] # "expire" /\ \A d \in Calls \ {c} : at'[d] = at[d]
      BY <1>1, <2>3 DEF SetTTL, Move, Judge
    <3>2. ttl' # NoTTL /\ stranded' = stranded
      BY <2>3, LimitAssumption DEF SetTTL, NoTTL
    <3>3. c \in Owing /\ c \notin stranded
      BY <3>1 DEF Owing, StrandInv
    <3>4. \A d \in Owing : d = c
      BY <3>3 DEF StrandInv
    <3>5. Owing' = {}
      BY <1>1, <3>1, <3>2, <3>3, <3>4 DEF Owing
    <3> QED
      BY <1>1, <3>2, <3>5 DEF StrandInv, Owing
  <2>4. CASE SetTTLFails(c)
    <3>1. at[c] = "expire" /\ at'[c] # "expire" /\ \A d \in Calls \ {c} : at'[d] = at[d]
      BY <1>1, <2>4 DEF SetTTLFails, Move, Judge
    <3>2. stranded' = stranded \cup {c} /\ UNCHANGED <<counter, ttl>>
      BY <2>4 DEF SetTTLFails
    <3>3. Owing' = Owing
      BY <1>1, <3>1, <3>2 DEF Owing
    <3> QED
      BY <1>1, <3>1, <3>2, <3>3, OwingStays DEF StrandInv
  <2> QED
    BY <1>2, <2>1, <2>2, <2>3, <2>4 DEF AtLimiter, Limit
<1>3. ASSUME NEW p \in Processes, Die(p) PROVE StrandInv'
  <2> DEFINE Gone == {c \in InProcess(p) : at[c] = "expire"}
  <2>1. /\ \A c \in Calls : at'[c] = IF c \in InProcess(p) THEN "gone" ELSE at[c]
        /\ stranded' = stranded \cup Gone
        /\ UNCHANGED <<counter, ttl>>
    BY <1>3 DEF Die, Restart
  <2>2. Owing' = Owing
    BY <1>1, <2>1 DEF Owing, InProcess
  <2>3. stranded' \subseteq Calls /\ \A d \in stranded' : at'[d] # "expire"
    BY <1>1, <2>1 DEF StrandInv, InProcess
  <2> QED
    BY <1>1, <2>1, <2>2, <2>3, OwingStays
<1>4. CASE Clock
  <2>1. UNCHANGED <<at, stranded>>
    BY <1>4 DEF Clock, Tick
  <2>2. Owing' = Owing
    BY <2>1 DEF Owing
  <2>3. CASE ttl = 1
    <3>1. counter' = 0 /\ Owing = {}
      BY <1>4, <2>3 DEF Clock, Tick, StrandInv, NoTTL
    <3> QED
      BY <2>1, <2>2, <3>1 DEF StrandInv
  <2>4. CASE ttl # 1
    <3>1. counter' = counter /\ (ttl' = NoTTL <=> ttl = NoTTL)
      BY <1>1, <1>4, <2>4, LimitAssumption DEF Clock, Tick, NoTTL
    <3> QED
      BY <2>1, <2>2, <3>1 DEF StrandInv
  <2> QED
    BY <2>3, <2>4
<1>5. CASE KeyExpires \/ (\E c \in Calls : Behind(c)) \/ UNCHANGED <<vars, limitVars>>
  <2>1. UNCHANGED <<at, stranded, counter, ttl>>
    BY <1>5 DEF KeyExpires, Behind, limitVars
  <2>2. Owing' = Owing
    BY <2>1 DEF Owing
  <2> QED
    BY <2>1, <2>2 DEF StrandInv
<1> QED
  BY <1>2, <1>3, <1>4, <1>5 DEF DoorNext

LEMMA StrandHolds == DoorSpec => []StrandInv
<1>1. DoorInit => StrandInv
  BY DEF DoorInit, LimitInit, StrandInv, Owing
<1>2. StrandInv /\ LimitInv /\ LimitInv' /\ [DoorNext]_<<vars, limitVars>> => StrandInv'
  BY StrandNext
<1> QED
  BY <1>1, <1>2, LimitStarts, LimitNext, PTL DEF DoorSpec

\* A counter without a TTL has exactly one call that owes it one.
LEMMA OneOwes == StrandInv /\ LimitInv => CounterKept
<1> SUFFICES ASSUME StrandInv, LimitInv PROVE CounterKept
  OBVIOUS
<1>1. counter \in Nat
  BY DEF LimitInv, TypeOfLimit
<1>2. (counter > 0 /\ ttl = NoTTL) <=> Owing # {}
  BY <1>1 DEF StrandInv
<1>3. Owing # {} <=> \E c \in Calls : at[c] = "expire" \/ c \in stranded
  BY DEF Owing, StrandInv
<1>4. Cardinality(stranded) =< 1
  <2>1. CASE stranded = {}
    BY <2>1, FS_EmptySet
  <2>2. ASSUME NEW c \in stranded PROVE stranded = {c}
    BY DEF StrandInv, Owing
  <2> QED
    BY <2>1, <2>2, FS_Singleton
<1> QED
  BY <1>2, <1>3, <1>4 DEF CounterKept

\* A counter has a TTL, or one call about to give it one, or one call lost it.
THEOREM CounterIsKept == DoorSpec => []CounterKept
BY OneOwes, StrandHolds, LimitStarts, LimitNext, PTL DEF DoorSpec

(***************************************************************************)
(* The counter and the buckets.                                            *)
(***************************************************************************)

\* Calls that have been at the counter, or never go there.
Past == {c \in Calls : at[c] \notin {"arrive", "incr"}}

\* Every count is of a call that has moved on since or of an INCR whose reply
\* was lost; a bucket never holds more than Burst.
CountInv ==
    /\ bucket \in [Processes -> 0..Burst]
    /\ counter =< Cardinality(Past) + faults

LEMMA CountStarts == DoorInit => CountInv
<1> SUFFICES ASSUME DoorInit PROVE CountInv
  OBVIOUS
<1>1. Cardinality(Past) \in Nat
  BY SubsetOfCalls DEF Past
<1> QED
  BY <1>1, LimitAssumption DEF DoorInit, Init, LimitInit, CountInv

\* A count more needs a call that moves on or a fault more.
LEMMA CountGrows ==
    ASSUME CountInv, TypeOfLimit, faults \in Nat, faults' \in Nat, counter' \in Nat,
           bucket' \in [Processes -> 0..Burst],
           faults =< faults', Past \subseteq Past',
           \/ counter' =< counter
           \/ counter' = counter + 1 /\ faults < faults'
           \/ counter' = counter + 1 /\ Past # Past'
    PROVE  CountInv'
<1>1. /\ IsFiniteSet(Past') /\ Cardinality(Past') \in Nat /\ Cardinality(Past) \in Nat
      /\ Past \in SUBSET Past'
  BY SubsetOfCalls DEF Past
<1>2. /\ Cardinality(Past) =< Cardinality(Past')
      /\ Cardinality(Past') = Cardinality(Past) => Past' = Past
  BY <1>1, FS_Subset
<1>3. counter \in Nat /\ counter =< Cardinality(Past) + faults
  BY DEF CountInv, TypeOfLimit
<1>4. counter' =< Cardinality(Past') + faults'
  <2>1. CASE counter' =< counter
    BY <1>1, <1>2, <1>3, <2>1
  <2>2. CASE counter' = counter + 1 /\ faults < faults'
    BY <1>1, <1>2, <1>3, <2>2
  <2>3. CASE counter' = counter + 1 /\ Past # Past'
    <3>1. Cardinality(Past) + 1 =< Cardinality(Past')
      BY <1>1, <1>2, <2>3
    <3> QED
      BY <1>1, <1>3, <2>3, <3>1
  <2> QED
    BY <2>1, <2>2, <2>3
<1> QED
  BY <1>4 DEF CountInv

LEMMA CountNext ==
    ASSUME CountInv, LimitInv, LimitInv', TypeOK, TypeOK', [DoorNext]_<<vars, limitVars>>
    PROVE  CountInv'
<1> USE DEF Past
<1>1. TypeOfLimit /\ counter' \in Nat /\ at \in [Calls -> Places] /\ counter \in Nat
  BY DEF LimitInv, TypeOfLimit
<1>2. faults \in Nat /\ faults' \in Nat
  BY DEF TypeOK
<1>3. bucket \in [Processes -> 0..Burst] /\ Burst \in Nat /\ QPS \in Nat
  BY LimitAssumption DEF CountInv
<1>4. UNCHANGED faults \/ Fault => faults =< faults'
  BY <1>2 DEF Fault
<1>5. ASSUME NEW c \in Calls, AtLimiter(c) PROVE CountInv'
  <2>1. CASE Allow(c)
    <3>1. UNCHANGED <<counter, faults>> /\ Past \subseteq Past'
      BY <1>1, <2>1 DEF Allow, Move
    <3>2. bucket' \in [Processes -> 0..Burst]
      BY <1>3, <2>1 DEF Allow
    <3> QED
      BY <1>1, <1>2, <3>1, <3>2, CountGrows
  <2>2. CASE Incr(c)
    <3>1. UNCHANGED <<bucket, faults>> /\ counter' = counter + 1
      BY <2>2 DEF Incr
    <3>2. /\ at[c] = "incr" /\ at'[c] \in {"expire", "passed", "limited"}
          /\ \A d \in Calls \ {c} : at'[d] = at[d]
      BY <1>1, <2>2 DEF Incr, Move, Judge
    <3>3. Past \subseteq Past' /\ c \in Past' /\ c \notin Past
      BY <3>2
    <3> QED
      BY <1>1, <1>2, <1>3, <3>1, <3>3, CountGrows
  <2>3. CASE IncrLostReply(c)
    <3>1. UNCHANGED bucket /\ counter' = counter + 1 /\ Past \subseteq Past'
      BY <1>1, <2>3 DEF IncrLostReply, Move
    <3>2. faults < faults'
      BY <1>2, <2>3 DEF IncrLostReply, Fault
    <3> QED
      BY <1>1, <1>2, <1>3, <3>1, <3>2, CountGrows
  <2>4. CASE IncrFails(c) \/ SetTTL(c) \/ SetTTLFails(c)
    <3>1. UNCHANGED <<bucket, counter>> /\ Past \subseteq Past'
      BY <1>1, <2>4 DEF IncrFails, SetTTL, SetTTLFails, Move, Judge
    <3>2. faults =< faults'
      BY <1>4, <2>4 DEF IncrFails, SetTTL, SetTTLFails
    <3> QED
      BY <1>1, <1>2, <1>3, <3>1, <3>2, CountGrows
  <2> QED
    BY <1>5, <2>1, <2>2, <2>3, <2>4 DEF AtLimiter, Limit
<1>6. ASSUME NEW c \in Calls, Behind(c) PROVE CountInv'
  <2>1. UNCHANGED <<bucket, counter, at>> /\ faults =< faults'
    BY <1>4, <1>6, StepFrame DEF Behind, limitVars
  <2> QED
    BY <1>1, <1>2, <1>3, <2>1, CountGrows
<1>7. ASSUME NEW p \in Processes, Die(p) PROVE CountInv'
  <2>1. UNCHANGED counter /\ faults =< faults'
    BY <1>4, <1>7 DEF Die, Crash, Restart
  <2>2. Past \subseteq Past' /\ bucket' \in [Processes -> 0..Burst]
    BY <1>1, <1>3, <1>7 DEF Die, Restart
  <2> QED
    BY <1>1, <1>2, <2>1, <2>2, CountGrows
<1>8. CASE Clock
  <2>1. counter' =< counter /\ UNCHANGED <<at, faults>>
    BY <1>1, <1>8 DEF Clock, Tick, vars
  <2>2. bucket' \in [Processes -> 0..Burst]
    BY <1>3, <1>8 DEF Clock, Tick
  <2> QED
    BY <1>1, <1>2, <2>1, <2>2, CountGrows
<1>9. CASE KeyExpires \/ UNCHANGED <<vars, limitVars>>
  <2>1. UNCHANGED <<bucket, counter, at, faults>>
    BY <1>9 DEF KeyExpires, Expire, vars, limitVars
  <2> QED
    BY <1>1, <1>2, <1>3, <2>1, CountGrows
<1> QED
  BY <1>5, <1>6, <1>7, <1>8, <1>9 DEF DoorNext

\* The counter never runs ahead of the calls that came to it and the INCRs that
\* were repeated, a bucket never holds more than Burst, and the key is absent,
\* processing or a response.
THEOREM DoorTyping == DoorSpec => []DoorTypeOK
<1>1. TypeOK /\ LimitInv /\ CountInv /\ StrandInv => DoorTypeOK
  <2> SUFFICES ASSUME TypeOK, LimitInv, CountInv, StrandInv PROVE LimitTypeOK
    BY DEF DoorTypeOK
  <2>1. /\ IsFiniteSet(Calls) /\ Past \in SUBSET Calls
        /\ Cardinality(Past) \in Nat /\ Cardinality(Calls) \in Nat
    BY SubsetOfCalls, CallsAssumption DEF Past
  <2>2. Cardinality(Past) =< Cardinality(Calls)
    BY <2>1, FS_Subset
  <2>3. faults \in 0..MaxFaults /\ MaxFaults \in Nat
    BY CallsAssumption DEF TypeOK
  <2>4. counter \in 0..(Cardinality(Calls) + MaxFaults)
    BY <2>1, <2>2, <2>3 DEF CountInv, LimitInv, TypeOfLimit
  <2> QED
    BY <2>4 DEF LimitTypeOK, LimitInv, TypeOfLimit, CountInv, StrandInv
<1>2. TypeOK /\ TypeOK' /\ LimitInv /\ LimitInv' /\ CountInv /\ [DoorNext]_<<vars, limitVars>>
         => CountInv'
  BY CountNext
<1>3. DoorSpec => []TypeOK
  BY DoorImplements, KeyTyping, PTL
<1>4. DoorSpec => []LimitInv
  BY LimitStarts, LimitNext, PTL DEF DoorSpec
<1>5. DoorSpec => []StrandInv
  BY StrandHolds
<1> QED
  BY <1>1, <1>2, <1>3, <1>4, <1>5, CountStarts, PTL DEF DoorSpec


=============================================================================
