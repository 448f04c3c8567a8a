--------------------------- MODULE CircuitBreaker ---------------------------
(***************************************************************************)
(* One circuit breaker of backend/utils/circuit_breaker.py, shared by the  *)
(* processes of the application through three Redis keys.                  *)
(*                                                                         *)
(* A call of `call` runs in a slot of a process.  Within a process the     *)
(* helpers _get_state and _set_state suspend nothing, so the code before   *)
(* and the code after `await func(...)` run without another call of the    *)
(* same process in between (Turn); the processes interleave at every Redis *)
(* command.  The guarded function is the environment: it succeeds, raises  *)
(* or is cancelled.  Redis is configured; the branch without a client,     *)
(* which keeps the same three values in the object, is not modelled.       *)
(***************************************************************************)
EXTENDS Naturals

CONSTANTS
    Process,    \* the processes holding a CircuitBreaker object of this name
    Slot,       \* places for calls of one process that overlap
    Threshold,  \* self.threshold
    MaxFaults,  \* bound: Redis commands that raise, and process restarts
    None        \* the Redis key :state does not exist

ASSUME ThresholdAssumption == Threshold \in Nat \ {0}
ASSUME FaultsAssumption == MaxFaults \in Nat

CircuitState == {"closed", "open", "half_open"}
ASSUME NoneAssumption == None \notin CircuitState

VARIABLES
    circuit,    \* Redis circuit:{name}:state
    failures,   \* Redis circuit:{name}:failures; counts above Threshold are one
    cooling,    \* Redis circuit:{name}:last_failure is at most recovery_timeout old
    local,      \* self.state of each process
    pc,         \* where each call is
    over,       \* the calls whose INCR returned at least Threshold
    faults      \* bound only: faults so far

shared == <<circuit, failures, cooling>>
vars == <<circuit, failures, cooling, local, pc, over, faults>>

Call == Process \X Slot
ProcessOf(c) == c[1]

\* The next thing a call does: "idle" is a free slot, "running" awaits func.
CallPc == {"idle", "opened", "probe", "running",
           "check", "close", "clear", "count", "stamp", "trip"}

Suspended == {"idle", "running"}

\* Types, and that a call only trips the circuit on a count of its own that
\* reached the threshold.
TypeOK ==
    /\ circuit \in CircuitState \cup {None}
    /\ failures \in 0..Threshold
    /\ cooling \in BOOLEAN
    /\ local \in [Process -> CircuitState]
    /\ pc \in [Call -> CallPc]
    /\ over \in SUBSET Call
    /\ faults \in 0..MaxFaults
    /\ \A c \in over : pc[c] \in {"stamp", "trip"}
    /\ \A c \in Call : pc[c] = "trip" => c \in over

Init ==
    /\ circuit = None
    /\ failures = 0
    /\ cooling = FALSE
    /\ local = [p \in Process |-> "closed"]
    /\ pc = [c \in Call |-> "idle"]
    /\ over = {}
    /\ faults = 0

-----------------------------------------------------------------------------
\* _get_state: the key, or the object's own state when there is no key.
Seen(p) == IF circuit = None THEN local[p] ELSE circuit

\* A plausible bug: an await in _get_state or _set_state (an asynchronous
\* client) lets the event loop run another call between two commands.
TurnAlways(c) == c \in Call

\* The event loop of the process is free to run call c.
Turn(c) ==
    \A d \in Call : ProcessOf(d) = ProcessOf(c) /\ d # c => pc[d] \in Suspended

Goto(c, where) == pc' = [pc EXCEPT ![c] = where]

\* _set_state, in the order of the code: the object, then the key.
SetState(c, s) ==
    /\ local' = [local EXCEPT ![ProcessOf(c)] = s]
    /\ circuit' = s

Incremented == IF failures < Threshold THEN failures + 1 ELSE Threshold

-----------------------------------------------------------------------------
(* Before the function. *)

Begin(c) ==
    /\ pc[c] = "idle"
    /\ Turn(c)
    /\ Goto(c, IF Seen(ProcessOf(c)) = "open" THEN "opened" ELSE "running")
    /\ UNCHANGED <<shared, local, over, faults>>

\* A plausible bug: the comparison with recovery_timeout is the wrong way round.
ReadLastFailureFlipped(c) ==
    /\ pc[c] = "opened"
    /\ Goto(c, IF cooling THEN "probe" ELSE "idle")
    /\ UNCHANGED <<shared, local, over, faults>>

\* GET last_failure; the call is rejected while the circuit cools down.
ReadLastFailure(c) ==
    /\ pc[c] = "opened"
    /\ Goto(c, IF cooling THEN "idle" ELSE "probe")
    /\ UNCHANGED <<shared, local, over, faults>>

Probe(c) ==
    /\ pc[c] = "probe"
    /\ SetState(c, "half_open")
    /\ Goto(c, "running")
    /\ UNCHANGED <<failures, cooling, over, faults>>

-----------------------------------------------------------------------------
(* The function. *)

Succeed(c) ==
    /\ pc[c] = "running"
    /\ Turn(c)
    /\ Goto(c, "check")
    /\ UNCHANGED <<shared, local, over, faults>>

Fail(c) ==
    /\ pc[c] = "running"
    /\ Turn(c)
    /\ Goto(c, "count")
    /\ UNCHANGED <<shared, local, over, faults>>

\* CancelledError is no Exception: nothing is counted and nothing is reset.
Cancel(c) ==
    /\ pc[c] = "running"
    /\ Turn(c)
    /\ Goto(c, "idle")
    /\ UNCHANGED <<shared, local, over, faults>>

-----------------------------------------------------------------------------
(* After a success. *)

\* A plausible bug: any success closes the circuit.
CheckNothing(c) ==
    /\ pc[c] = "check"
    /\ Goto(c, "close")
    /\ UNCHANGED <<shared, local, over, faults>>

CheckRecovery(c) ==
    /\ pc[c] = "check"
    /\ Goto(c, IF Seen(ProcessOf(c)) = "half_open" THEN "close" ELSE "idle")
    /\ UNCHANGED <<shared, local, over, faults>>

Close(c) ==
    /\ pc[c] = "close"
    /\ SetState(c, "closed")
    /\ Goto(c, "clear")
    /\ UNCHANGED <<failures, cooling, over, faults>>

\* A plausible bug: closing the circuit forgets to reset the counter.
ClearNothing(c) ==
    /\ pc[c] = "clear"
    /\ Goto(c, "idle")
    /\ UNCHANGED <<shared, local, over, faults>>

ClearFailures(c) ==
    /\ pc[c] = "clear"
    /\ failures' = 0
    /\ Goto(c, "idle")
    /\ UNCHANGED <<circuit, cooling, local, over, faults>>

-----------------------------------------------------------------------------
(* After a failure, of the function or of Redis on the path of a success. *)

\* A plausible bug: the circuit trips one failure early.
CountFailureEarly(c) ==
    /\ pc[c] = "count"
    /\ failures' = Incremented
    /\ over' = IF Incremented + 1 >= Threshold THEN over \cup {c} ELSE over
    /\ Goto(c, "stamp")
    /\ UNCHANGED <<circuit, cooling, local, faults>>

CountFailure(c) ==
    /\ pc[c] = "count"
    /\ failures' = Incremented
    /\ over' = IF Incremented >= Threshold THEN over \cup {c} ELSE over
    /\ Goto(c, "stamp")
    /\ UNCHANGED <<circuit, cooling, local, faults>>

\* A plausible bug: the count is not compared with the threshold.
StampAndTrip(c) ==
    /\ pc[c] = "stamp"
    /\ cooling' = TRUE
    /\ Goto(c, "trip")
    /\ UNCHANGED <<circuit, failures, local, over, faults>>

\* SET last_failure.  The time was read just before the INCR; that it ages
\* between the two commands is neglected (milliseconds against 15 to 120 s).
StampFailure(c) ==
    /\ pc[c] = "stamp"
    /\ cooling' = TRUE
    /\ Goto(c, IF c \in over THEN "trip" ELSE "idle")
    /\ UNCHANGED <<circuit, failures, local, over, faults>>

Trip(c) ==
    /\ pc[c] = "trip"
    /\ SetState(c, "open")
    /\ over' = over \ {c}
    /\ Goto(c, "idle")
    /\ UNCHANGED <<failures, cooling, faults>>

-----------------------------------------------------------------------------
(* Time, and faults. *)

\* recovery_timeout has passed since last_failure.
CoolDown ==
    /\ cooling
    /\ cooling' = FALSE
    /\ UNCHANGED <<circuit, failures, local, pc, over, faults>>

\* The Redis command a call is at raises, whether or not it was executed
\* (the client gives up after 5 s).  _set_state has changed the object by then;
\* inside the try the error counts as a failure of the function.
RedisRaises(c) ==
    /\ faults < MaxFaults
    /\ pc[c] \notin Suspended
    /\ faults' = faults + 1
    /\ LET target == CASE pc[c] = "probe" -> "half_open"
                       [] pc[c] = "close" -> "closed"
                       [] pc[c] = "trip"  -> "open"
                       [] OTHER -> None
       IN  IF target = None
           THEN UNCHANGED <<circuit, local>>
           ELSE /\ local' = [local EXCEPT ![ProcessOf(c)] = target]
                /\ circuit' \in {circuit, target}
    /\ failures' \in {failures} \cup (CASE pc[c] = "clear" -> {0}
                                        [] pc[c] = "count" -> {Incremented}
                                        [] OTHER -> {})
    /\ cooling' \in {cooling} \cup (IF pc[c] = "stamp" THEN {TRUE} ELSE {})
    /\ over' = over \ {c}
    /\ Goto(c, IF pc[c] \in {"check", "close", "clear"} THEN "count" ELSE "idle")

\* A process dies between two commands and comes back with a new object.
Restart(p) ==
    /\ faults < MaxFaults
    /\ faults' = faults + 1
    /\ local' = [local EXCEPT ![p] = "closed"]
    /\ pc' = [c \in Call |-> IF ProcessOf(c) = p THEN "idle" ELSE pc[c]]
    /\ over' = {c \in over : ProcessOf(c) # p}
    /\ UNCHANGED shared

-----------------------------------------------------------------------------
Admit(c) == Begin(c) \/ ReadLastFailure(c) \/ Probe(c)
Settle(c) ==
    \/ CheckRecovery(c) \/ Close(c) \/ ClearFailures(c)
    \/ CountFailure(c) \/ StampFailure(c) \/ Trip(c)

Next ==
    \/ \E c \in Call : \/ Admit(c) \/ Settle(c)
                       \/ Succeed(c) \/ Fail(c) \/ Cancel(c)
                       \/ RedisRaises(c)
    \/ CoolDown
    \/ \E p \in Process : Restart(p)

\* Redis commands return, guarded functions end (they have timeouts), and the
\* callers keep calling: the telemetry bridge calls its breaker in a loop.  A
\* call waiting for its Turn gets it, the ready queue of asyncio being FIFO.
Fairness ==
    /\ \A c \in Call : /\ SF_vars(Begin(c))
                       /\ WF_vars(Admit(c))
                       /\ WF_vars(Settle(c))
                       /\ SF_vars(Succeed(c) \/ Fail(c))
    /\ WF_vars(CoolDown)

Spec == Init /\ [][Next]_vars
FairSpec == Spec /\ Fairness

-----------------------------------------------------------------------------
(* Properties. *)

\* No call is between its Redis commands.
Quiet == \A c \in Call : pc[c] \in Suspended

\* However the failures of several processes, the probes and the successes
\* that close the circuit interleave, a circuit that has counted Threshold
\* failures is not left closed (call, lines 74-86): the reset of the counter
\* cannot be lost behind the close, nor the opening behind a late close.
TripsAtThreshold ==
    faults = 0 /\ Quiet /\ failures >= Threshold => circuit \in {"open", "half_open"}

\* With one process: an open or half-open circuit still has its count, so the
\* first failure of a probe opens it again at once (lines 80-84).  Two
\* processes break this: one deletes the count behind another's opening.
OpenIsCounted ==
    faults = 0 /\ circuit \in {"open", "half_open"} => failures >= Threshold

\* With one process: once open, the circuit stays open until recovery_timeout
\* after the last failure (lines 48-63), whatever calls admitted earlier
\* return and even if Redis raises.  With two, a probe whose GET came before
\* the other's failure overwrites the fresh "open" with "half_open".
OpenHolds == [][circuit = "open" /\ cooling => circuit' = "open"]_vars

\* What the calls make of the circuit: a failure opens it with its INCR, and a
\* success that closes it deletes the count with its SET.
State == IF over # {} THEN "open" ELSE IF circuit = None THEN "closed" ELSE circuit
Count == IF \E c \in Call : pc[c] = "clear" THEN 0 ELSE failures
Hot == cooling \/ \E c \in Call : pc[c] = "stamp"
At(phases) == {c \in Call : pc[c] \in phases}

B == INSTANCE Breaker WITH
       state <- State,
       count <- Count,
       hot <- Hot,
       running <- At({"running"}),
       returned <- At({"check", "close"}),
       raised <- At({"count"}),
       broken <- faults > 0

\* With one process: as long as Redis does not fail, overlapping calls that take
\* up to three commands for one transition (lines 48-86) behave as if every
\* outcome were one step: no call is let in while the circuit is open and hot, a
\* success closes a half-open circuit and forgets its failures at once, and the
\* failure that reaches the threshold opens it at once.
ImplementsBreaker == B!Spec

\* From some time on every call of the function succeeds.
Calm == <>[][\A c \in Call : ~ Fail(c) /\ ~ Cancel(c)]_vars

\* Once the service has recovered the circuit closes for every process and
\* stays closed (lines 58-72), whatever happened before, faults included: a
\* half-open circuit must not wait for ever, nor a late probe keep reopening it.
Heals == Calm => <>[](\A p \in Process : Seen(p) = "closed")

\* GET /readyz (main.py, lines 296-346) answers 503 while the breaker object
\* of its process says "open"; once the service has recovered, every process
\* is ready again.  _get_state never updates the object, so a process whose
\* circuit another process closed stays "open" for ever.
ReadinessRecovers == Calm => <>[](\A p \in Process : local[p] # "open")

=============================================================================
