------------------------ MODULE CircuitBreaker_proof ------------------------
(***************************************************************************)
(* Theorems about CircuitBreaker, for every set of processes and slots,    *)
(* every threshold and every bound on the faults.                          *)
(***************************************************************************)
EXTENDS CircuitBreaker, TLAPS

LEMMA CallProcess ==
    ASSUME NEW c \in Call
    PROVE  ProcessOf(c) \in Process
BY DEF Call, ProcessOf

\* Where a call goes, every other call staying where it is.
LEMMA GotoEffect ==
    ASSUME TypeOK, NEW c \in Call, NEW where \in CallPc, Goto(c, where)
    PROVE  /\ pc' \in [Call -> CallPc]
           /\ pc'[c] = where
           /\ \A d \in Call : d # c => pc'[d] = pc[d]
BY DEF TypeOK, Goto

LEMMA IncrementedType ==
    ASSUME TypeOK
    PROVE  /\ Incremented \in 0..Threshold
           /\ Incremented >= failures
BY ThresholdAssumption DEF TypeOK, Incremented

LEMMA SetStateType ==
    ASSUME TypeOK, NEW c \in Call, NEW s \in CircuitState, SetState(c, s)
    PROVE  /\ local' \in [Process -> CircuitState]
           /\ circuit' = s
BY CallProcess DEF TypeOK, SetState

-----------------------------------------------------------------------------
LEMMA InitType == Init => TypeOK
<1> SUFFICES ASSUME Init PROVE TypeOK
  OBVIOUS
<1>1. "idle" \in CallPc /\ "closed" \in CircuitState
  BY DEF CallPc, CircuitState
<1>2. failures \in 0..Threshold /\ faults \in 0..MaxFaults
  BY ThresholdAssumption, FaultsAssumption DEF Init
<1>3. pc \in [Call -> CallPc] /\ local \in [Process -> CircuitState]
  BY <1>1 DEF Init
<1>4. \A c \in Call : pc[c] = "idle"
  BY DEF Init
<1>5. circuit \in CircuitState \cup {None} /\ cooling \in BOOLEAN /\ over = {}
  BY DEF Init
<1> QED BY <1>2, <1>3, <1>4, <1>5 DEF TypeOK

LEMMA AdmitType ==
    ASSUME TypeOK, NEW c \in Call, Admit(c)
    PROVE  TypeOK'
<1>1. CASE Begin(c)
  <2>1. PICK w \in {"opened", "running"} : Goto(c, w)
    BY <1>1 DEF Begin
  <2>2. w \in CallPc /\ pc[c] = "idle"
    BY <1>1 DEF Begin, CallPc
  <2> QED BY <1>1, <2>1, <2>2, GotoEffect DEF Begin, TypeOK, shared
<1>2. CASE ReadLastFailure(c)
  <2>1. PICK w \in {"idle", "probe"} : Goto(c, w)
    BY <1>2 DEF ReadLastFailure
  <2>2. w \in CallPc /\ pc[c] = "opened"
    BY <1>2 DEF ReadLastFailure, CallPc
  <2> QED BY <1>2, <2>1, <2>2, GotoEffect DEF ReadLastFailure, TypeOK, shared
<1>3. CASE Probe(c)
  <2>1. "running" \in CallPc /\ "half_open" \in CircuitState
    BY DEF CallPc, CircuitState
  <2>2. /\ pc' \in [Call -> CallPc] /\ pc'[c] = "running" /\ pc[c] = "probe"
        /\ \A d \in Call : d # c => pc'[d] = pc[d]
    BY <1>3, <2>1, GotoEffect DEF Probe
  <2>3. local' \in [Process -> CircuitState] /\ circuit' \in CircuitState
    BY <1>3, <2>1, SetStateType DEF Probe
  <2> QED BY <1>3, <2>2, <2>3 DEF Probe, TypeOK
<1> QED BY <1>1, <1>2, <1>3 DEF Admit

LEMMA FunctionType ==
    ASSUME TypeOK, NEW c \in Call, Succeed(c) \/ Fail(c) \/ Cancel(c)
    PROVE  TypeOK'
<1>1. PICK w \in {"check", "count", "idle"} : Goto(c, w)
  BY DEF Succeed, Fail, Cancel
<1>2. w \in CallPc /\ pc[c] = "running"
  BY DEF Succeed, Fail, Cancel, CallPc
<1>3. UNCHANGED <<circuit, failures, cooling, local, over, faults>>
  BY DEF Succeed, Fail, Cancel, shared
<1> QED BY <1>1, <1>2, <1>3, GotoEffect DEF TypeOK

LEMMA SettleType ==
    ASSUME TypeOK, NEW c \in Call, Settle(c)
    PROVE  TypeOK'
<1> USE DEF TypeOK
<1>1. CASE CheckRecovery(c)
  <2>1. PICK w \in {"close", "idle"} : Goto(c, w)
    BY <1>1 DEF CheckRecovery
  <2>2. w \in CallPc /\ pc[c] = "check"
    BY <1>1 DEF CheckRecovery, CallPc
  <2> QED BY <1>1, <2>1, <2>2, GotoEffect DEF CheckRecovery, shared
<1>2. CASE Close(c)
  <2>1. "clear" \in CallPc /\ "closed" \in CircuitState
    BY DEF CallPc, CircuitState
  <2>2. local' \in [Process -> CircuitState] /\ circuit' \in CircuitState
    BY <1>2, <2>1, SetStateType DEF Close
  <2> QED BY <1>2, <2>1, <2>2, GotoEffect DEF Close
<1>3. CASE ClearFailures(c)
  <2>1. "idle" \in CallPc /\ 0 \in 0..Threshold
    BY ThresholdAssumption DEF CallPc
  <2> QED BY <1>3, <2>1, GotoEffect DEF ClearFailures
<1>4. CASE CountFailure(c)
  <2>1. "stamp" \in CallPc
    BY DEF CallPc
  <2>2. over' \in SUBSET Call /\ \A d \in over' : d = c \/ d \in over
    BY <1>4 DEF CountFailure
  <2>3. over \subseteq over'
    BY <1>4 DEF CountFailure
  <2> QED BY <1>4, <2>1, <2>2, <2>3, GotoEffect, IncrementedType DEF CountFailure
<1>5. CASE StampFailure(c)
  <2>1. PICK w \in {"trip", "idle"} : Goto(c, w) /\ (w = "trip" <=> c \in over)
    BY <1>5 DEF StampFailure
  <2>2. w \in CallPc /\ pc[c] = "stamp"
    BY <1>5 DEF StampFailure, CallPc
  <2> QED BY <1>5, <2>1, <2>2, GotoEffect DEF StampFailure
<1>6. CASE Trip(c)
  <2>1. "idle" \in CallPc /\ "open" \in CircuitState
    BY DEF CallPc, CircuitState
  <2>2. local' \in [Process -> CircuitState] /\ circuit' \in CircuitState
    BY <1>6, <2>1, SetStateType DEF Trip
  <2> QED BY <1>6, <2>1, <2>2, GotoEffect DEF Trip
<1> QED BY <1>1, <1>2, <1>3, <1>4, <1>5, <1>6 DEF Settle

\* A command that raises changes what it may have changed, and no more.
LEMMA RaiseEffect ==
    ASSUME TypeOK, NEW c \in Call, RedisRaises(c)
    PROVE  /\ circuit' \in CircuitState \cup {None}
           /\ local' \in [Process -> CircuitState]
           /\ circuit' # circuit => \/ pc[c] = "probe" /\ circuit' = "half_open"
                                    \/ pc[c] = "close" /\ circuit' = "closed"
                                    \/ pc[c] = "trip" /\ circuit' = "open"
<1>0. /\ {"half_open", "closed", "open"} \subseteq CircuitState
      /\ None \notin {"half_open", "closed", "open"}
  BY NoneAssumption DEF CircuitState
<1>1. CASE pc[c] = "probe"
  BY <1>0, <1>1, CallProcess DEF RedisRaises, TypeOK
<1>2. CASE pc[c] = "close"
  BY <1>0, <1>2, CallProcess DEF RedisRaises, TypeOK
<1>3. CASE pc[c] = "trip"
  BY <1>0, <1>3, CallProcess DEF RedisRaises, TypeOK
<1>4. CASE pc[c] \notin {"probe", "close", "trip"}
  BY <1>4 DEF RedisRaises, TypeOK
<1> QED BY <1>1, <1>2, <1>3, <1>4

LEMMA RaiseType ==
    ASSUME TypeOK, NEW c \in Call, RedisRaises(c)
    PROVE  TypeOK'
<1>1. PICK w \in {"count", "idle"} : Goto(c, w)
  BY DEF RedisRaises
<1>2. w \in CallPc
  BY DEF CallPc
<1>3. /\ pc' \in [Call -> CallPc] /\ pc'[c] = w
      /\ \A d \in Call : d # c => pc'[d] = pc[d]
  BY <1>1, <1>2, GotoEffect
<1>4. failures' \in 0..Threshold
  <2>1. failures' \in {failures, 0, Incremented}
    BY DEF RedisRaises
  <2> QED BY <2>1, IncrementedType, ThresholdAssumption DEF TypeOK
<1>5. cooling' \in BOOLEAN
  BY DEF RedisRaises, TypeOK
<1>6. over' = over \ {c}
  BY DEF RedisRaises
<1>7. faults' \in 0..MaxFaults
  BY FaultsAssumption DEF RedisRaises, TypeOK
<1>8. /\ \A d \in over' : pc'[d] \in {"stamp", "trip"}
      /\ \A d \in Call : pc'[d] = "trip" => d \in over'
  BY <1>3, <1>6 DEF TypeOK
<1> QED BY <1>3, <1>4, <1>5, <1>6, <1>7, <1>8, RaiseEffect DEF TypeOK

LEMMA RestartType ==
    ASSUME TypeOK, NEW p \in Process, Restart(p)
    PROVE  TypeOK'
<1>1. "closed" \in CircuitState /\ "idle" \in CallPc
  BY DEF CircuitState, CallPc
<1>2. pc' \in [Call -> CallPc]
  BY <1>1 DEF Restart, TypeOK
<1>3. faults' \in 0..MaxFaults
  BY FaultsAssumption DEF Restart, TypeOK
<1>4. local' \in [Process -> CircuitState]
  BY <1>1 DEF Restart, TypeOK
<1>5. /\ over' \in SUBSET Call
      /\ \A d \in over' : pc'[d] \in {"stamp", "trip"}
      /\ \A d \in Call : pc'[d] = "trip" => d \in over'
  BY DEF Restart, TypeOK
<1> QED BY <1>2, <1>3, <1>4, <1>5 DEF Restart, TypeOK, shared

LEMMA StepType == TypeOK /\ [Next]_vars => TypeOK'
<1> SUFFICES ASSUME TypeOK, [Next]_vars PROVE TypeOK'
  OBVIOUS
<1>1. CASE \E c \in Call : Admit(c)
  BY <1>1, AdmitType
<1>2. CASE \E c \in Call : Settle(c)
  BY <1>2, SettleType
<1>3. CASE \E c \in Call : Succeed(c) \/ Fail(c) \/ Cancel(c)
  BY <1>3, FunctionType
<1>4. CASE \E c \in Call : RedisRaises(c)
  BY <1>4, RaiseType
<1>5. CASE CoolDown
  BY <1>5 DEF CoolDown, TypeOK
<1>6. CASE \E p \in Process : Restart(p)
  BY <1>6, RestartType
<1>7. CASE UNCHANGED vars
  BY <1>7 DEF vars, TypeOK
<1> QED BY <1>1, <1>2, <1>3, <1>4, <1>5, <1>6, <1>7 DEF Next

\* Every reachable state of `call` is well typed, and a call is about to open
\* the circuit only if the count it read itself reached the threshold.
THEOREM BreakerTypeCorrect == Spec => []TypeOK
BY InitType, StepType, PTL DEF Spec

-----------------------------------------------------------------------------
(* TripsAtThreshold, for any number of processes. *)

\* While a counted-out circuit is closed, some call is about to delete the
\* count or to open the circuit.
TripInv ==
    faults = 0 /\ failures >= Threshold /\ circuit \notin {"open", "half_open"}
        => \E c \in Call : pc[c] = "clear" \/ c \in over

\* A step of one call that keeps the keys leaves the others' promises alone.
LEMMA TripFrame ==
    ASSUME TypeOK, TripInv, NEW c \in Call,
           pc[c] \notin {"clear", "stamp", "trip"},
           \A d \in Call : d # c => pc'[d] = pc[d],
           UNCHANGED <<circuit, failures, over, faults>>
    PROVE  TripInv'
<1> SUFFICES ASSUME faults = 0, failures >= Threshold,
                    circuit \notin {"open", "half_open"}
             PROVE  \E d \in Call : pc'[d] = "clear" \/ d \in over'
  BY DEF TripInv
<1>1. PICK d \in Call : pc[d] = "clear" \/ d \in over
  BY DEF TripInv
<1>2. d # c
  BY <1>1 DEF TypeOK
<1> QED BY <1>1, <1>2

LEMMA TripStep ==
    ASSUME TypeOK, TripInv, [Next]_vars
    PROVE  TripInv'
<1>1. ASSUME NEW c \in Call, Admit(c) PROVE TripInv'
  <2>1. CASE Begin(c)
    BY <2>1, TripFrame DEF Begin, Goto, TypeOK, shared
  <2>2. CASE ReadLastFailure(c)
    BY <2>2, TripFrame DEF ReadLastFailure, Goto, TypeOK, shared
  <2>3. CASE Probe(c)
    BY <2>3 DEF Probe, SetState, TripInv
  <2> QED BY <1>1, <2>1, <2>2, <2>3 DEF Admit
<1>2. ASSUME NEW c \in Call, Succeed(c) \/ Fail(c) \/ Cancel(c) PROVE TripInv'
  BY <1>2, TripFrame DEF Succeed, Fail, Cancel, Goto, TypeOK, shared
<1>3. ASSUME NEW c \in Call, Settle(c) PROVE TripInv'
  <2>1. CASE CheckRecovery(c)
    BY <2>1, TripFrame DEF CheckRecovery, Goto, TypeOK, shared
  <2>2. CASE Close(c)
    <3>1. pc'[c] = "clear"
      BY <2>2 DEF Close, Goto, TypeOK
    <3> QED BY <3>1 DEF TripInv
  <2>3. CASE ClearFailures(c)
    BY <2>3, ThresholdAssumption DEF ClearFailures, TripInv
  <2>4. CASE CountFailure(c)
    <3>1. CASE Incremented >= Threshold
      <4>1. c \in over'
        BY <2>4, <3>1 DEF CountFailure
      <4> QED BY <4>1 DEF TripInv
    <3>2. CASE ~(Incremented >= Threshold)
      <4>1. ~(failures' >= Threshold)
        BY <2>4, <3>2 DEF CountFailure
      <4> QED BY <4>1 DEF TripInv
    <3> QED BY <3>1, <3>2
  <2>5. CASE StampFailure(c)
    <3>1. /\ pc[c] = "stamp" /\ UNCHANGED <<circuit, failures, over, faults>>
          /\ \A d \in Call : d # c => pc'[d] = pc[d]
      BY <2>5 DEF StampFailure, Goto, TypeOK
    <3> QED BY <3>1 DEF TripInv
  <2>6. CASE Trip(c)
    BY <2>6 DEF Trip, SetState, TripInv
  <2> QED BY <1>3, <2>1, <2>2, <2>3, <2>4, <2>5, <2>6 DEF Settle
<1>4. ASSUME NEW c \in Call, RedisRaises(c) PROVE TripInv'
  BY <1>4, FaultsAssumption DEF RedisRaises, TypeOK, TripInv
<1>5. CASE CoolDown
  BY <1>5 DEF CoolDown, TripInv
<1>6. ASSUME NEW p \in Process, Restart(p) PROVE TripInv'
  BY <1>6, FaultsAssumption DEF Restart, TypeOK, TripInv
<1>7. CASE UNCHANGED vars
  BY <1>7 DEF vars, TripInv
<1> QED BY <1>1, <1>2, <1>3, <1>4, <1>5, <1>6, <1>7 DEF Next

\* For every number of processes, calls and every threshold: as long as no
\* Redis command raises and no process dies, a circuit that has counted its
\* failures is open or half-open whenever no call is between two commands.
THEOREM CountedCircuitTrips == Spec => []TripsAtThreshold
<1>1. Init => TripInv
  BY ThresholdAssumption DEF Init, TripInv
<1>2. TypeOK /\ TripInv => TripsAtThreshold
  BY DEF TypeOK, TripInv, TripsAtThreshold, Quiet, Suspended
<1>3. TypeOK /\ TripInv /\ [Next]_vars => TripInv'
  BY TripStep
<1> QED BY <1>1, <1>2, <1>3, InitType, StepType, PTL DEF Spec

-----------------------------------------------------------------------------
(* OpenHolds and OpenIsCounted, for one process and any number of calls. *)

OneProcess == \A p, q \in Process : p = q

\* The event loop: at most one call of the process is between two commands.
OneTurn ==
    \A c, d \in Call : c # d => pc[c] \in Suspended \/ pc[d] \in Suspended

\* What the call that has the turn has seen of the circuit still holds.
Sighted ==
    \A c \in Call :
        /\ pc[c] = "probe" => ~(circuit = "open" /\ cooling)
        /\ pc[c] = "close" => circuit # "open"

\* Without faults: the object never runs ahead of the key, a call that saw the
\* circuit open finds it so, and an opened circuit has its count.
Counted ==
    faults = 0 =>
        /\ circuit = None => \A p \in Process : local[p] = "closed"
        /\ circuit \in {"open", "half_open"} => failures >= Threshold
        /\ \A c \in Call :
              /\ pc[c] \in {"opened", "probe"} => circuit = "open"
              /\ pc[c] = "clear" => circuit = "closed"
              /\ c \in over => failures >= Threshold

LEMMA Alone ==
    ASSUME OneProcess, OneTurn, NEW c \in Call,
           Turn(c) \/ pc[c] \notin Suspended
    PROVE  \A d \in Call : d # c => pc[d] \in Suspended
BY CallProcess DEF OneProcess, OneTurn, Turn

\* A call that moves while the others are suspended keeps the turn unique.
LEMMA TurnFrame ==
    ASSUME NEW c \in Call,
           \A d \in Call : d # c => pc[d] \in Suspended,
           \A d \in Call : d # c => pc'[d] = pc[d]
    PROVE  OneTurn'
BY DEF OneTurn

\* The call that moves has the turn, and no other call moves.
LEMMA MoveEffect ==
    ASSUME TypeOK, OneProcess, OneTurn, NEW c \in Call,
           \/ Admit(c) \/ Settle(c) \/ Succeed(c) \/ Fail(c) \/ Cancel(c)
           \/ RedisRaises(c)
    PROVE  /\ \A d \in Call : d # c => pc[d] \in Suspended
           /\ \A d \in Call : d # c => pc'[d] = pc[d]
<1>1. Turn(c) \/ pc[c] \notin Suspended
  BY DEF Admit, Settle, Begin, ReadLastFailure, Probe, Succeed, Fail, Cancel,
         CheckRecovery, Close, ClearFailures, CountFailure, StampFailure, Trip,
         RedisRaises, Suspended
<1>2. \E w : Goto(c, w)
  BY DEF Admit, Settle, Begin, ReadLastFailure, Probe, Succeed, Fail, Cancel,
         CheckRecovery, Close, ClearFailures, CountFailure, StampFailure, Trip,
         RedisRaises
<1>3. \A d \in Call : d # c => pc'[d] = pc[d]
  BY <1>2 DEF Goto, TypeOK
<1> QED BY <1>1, <1>3, Alone

LEMMA TurnStep ==
    ASSUME TypeOK, OneProcess, OneTurn, [Next]_vars
    PROVE  OneTurn'
<1>1. ASSUME NEW c \in Call,
             \/ Admit(c) \/ Settle(c) \/ Succeed(c) \/ Fail(c) \/ Cancel(c)
             \/ RedisRaises(c)
      PROVE  OneTurn'
  BY <1>1, MoveEffect, TurnFrame
<1>2. CASE CoolDown
  BY <1>2 DEF CoolDown, OneTurn
<1>3. ASSUME NEW p \in Process, Restart(p) PROVE OneTurn'
  <2>1. \A c \in Call : pc'[c] = "idle" \/ pc'[c] = pc[c]
    BY <1>3 DEF Restart
  <2> QED BY <2>1 DEF OneTurn, Suspended
<1>4. CASE UNCHANGED vars
  BY <1>4 DEF vars, OneTurn
<1> QED BY <1>1, <1>2, <1>3, <1>4 DEF Next

\* The two facts only concern the call that moves: the others are suspended.
LEMMA SightedFrame ==
    ASSUME NEW c \in Call,
           \A d \in Call : d # c => pc[d] \in Suspended,
           \A d \in Call : d # c => pc'[d] = pc[d],
           pc'[c] = "probe" => ~(circuit' = "open" /\ cooling'),
           pc'[c] = "close" => circuit' # "open"
    PROVE  Sighted'
BY DEF Sighted, Suspended

LEMMA SightedStep ==
    ASSUME TypeOK, OneProcess, OneTurn, Sighted, [Next]_vars
    PROVE  Sighted'
<1>1. ASSUME NEW c \in Call, Admit(c) PROVE Sighted'
  <2>1. /\ pc'[c] = "probe" => ~(circuit' = "open" /\ cooling')
        /\ pc'[c] = "close" => circuit' # "open"
    BY <1>1 DEF Admit, Begin, ReadLastFailure, Probe, Goto, TypeOK, shared
  <2> QED BY <1>1, <2>1, MoveEffect, SightedFrame
<1>2. ASSUME NEW c \in Call, Succeed(c) \/ Fail(c) \/ Cancel(c) PROVE Sighted'
  <2>1. pc'[c] \notin {"probe", "close"}
    BY <1>2 DEF Succeed, Fail, Cancel, Goto, TypeOK
  <2> QED BY <1>2, <2>1, MoveEffect, SightedFrame
<1>3. ASSUME NEW c \in Call, Settle(c) PROVE Sighted'
  <2>1. /\ pc'[c] # "probe"
        /\ pc'[c] = "close" => CheckRecovery(c)
    BY <1>3 DEF Settle, CheckRecovery, Close, ClearFailures, CountFailure,
                StampFailure, Trip, Goto, TypeOK
  <2>2. ASSUME CheckRecovery(c), pc'[c] = "close" PROVE circuit' # "open"
    BY <2>2, NoneAssumption DEF CheckRecovery, Goto, TypeOK, Seen, CircuitState, shared
  <2> QED BY <1>3, <2>1, <2>2, MoveEffect, SightedFrame
<1>4. ASSUME NEW c \in Call, RedisRaises(c) PROVE Sighted'
  <2>1. pc'[c] \notin {"probe", "close"}
    BY <1>4 DEF RedisRaises, Goto, TypeOK
  <2> QED BY <1>4, <2>1, MoveEffect, SightedFrame
<1>5. CASE CoolDown
  BY <1>5 DEF CoolDown, Sighted
<1>6. ASSUME NEW p \in Process, Restart(p) PROVE Sighted'
  <2>1. \A c \in Call : pc'[c] = "idle" \/ pc'[c] = pc[c]
    BY <1>6 DEF Restart
  <2> QED BY <1>6, <2>1 DEF Sighted, Restart, shared
<1>7. CASE UNCHANGED vars
  BY <1>7 DEF vars, Sighted
<1> QED BY <1>1, <1>2, <1>3, <1>4, <1>5, <1>6, <1>7 DEF Next

LEMMA OpenStep ==
    ASSUME TypeOK, Sighted, [Next]_vars, circuit = "open", cooling
    PROVE  circuit' = "open"
<1>1. ASSUME NEW c \in Call, Admit(c) PROVE circuit' = "open"
  BY <1>1 DEF Admit, Begin, ReadLastFailure, Probe, Sighted, shared
<1>2. ASSUME NEW c \in Call, Succeed(c) \/ Fail(c) \/ Cancel(c)
      PROVE  circuit' = "open"
  BY <1>2 DEF Succeed, Fail, Cancel, shared
<1>3. ASSUME NEW c \in Call, Settle(c) PROVE circuit' = "open"
  BY <1>3 DEF Settle, CheckRecovery, Close, ClearFailures, CountFailure,
              StampFailure, Trip, SetState, Sighted, shared
<1>4. ASSUME NEW c \in Call, RedisRaises(c) PROVE circuit' = "open"
  BY <1>4, RaiseEffect DEF Sighted
<1>5. CASE CoolDown
  BY <1>5 DEF CoolDown
<1>6. ASSUME NEW p \in Process, Restart(p) PROVE circuit' = "open"
  BY <1>6 DEF Restart, shared
<1>7. CASE UNCHANGED vars
  BY <1>7 DEF vars
<1> QED BY <1>1, <1>2, <1>3, <1>4, <1>5, <1>6, <1>7 DEF Next

LEMMA SingleInit == Init => OneTurn /\ Sighted /\ Counted
BY ThresholdAssumption, NoneAssumption
   DEF Init, OneTurn, Sighted, Counted, Suspended, CircuitState

\* With one process, whatever the number of its calls, the threshold and the
\* faults: once open, the circuit stays open until recovery_timeout after the
\* last failure.
THEOREM OpenCircuitHolds ==
    ASSUME OneProcess
    PROVE  Spec => OpenHolds
<1>1. TypeOK /\ OneTurn /\ Sighted /\ [Next]_vars => OneTurn' /\ Sighted'
  BY TurnStep, SightedStep
<1>2. TypeOK /\ Sighted /\ [Next]_vars
        => [circuit = "open" /\ cooling => circuit' = "open"]_vars
  BY OpenStep
<1> QED BY <1>1, <1>2, SingleInit, InitType, StepType, PTL DEF Spec, OpenHolds

-----------------------------------------------------------------------------
\* Counted about the call that moves, the others being suspended and so not
\* among the calls that have counted the threshold.
LEMMA CountedFrame ==
    ASSUME TypeOK', NEW c \in Call,
           \A d \in Call : d # c => pc[d] \in Suspended,
           \A d \in Call : d # c => pc'[d] = pc[d],
           faults' = 0 =>
              /\ circuit' = None => \A p \in Process : local'[p] = "closed"
              /\ circuit' \in {"open", "half_open"} => failures' >= Threshold
              /\ pc'[c] \in {"opened", "probe"} => circuit' = "open"
              /\ pc'[c] = "clear" => circuit' = "closed"
              /\ c \in over' => failures' >= Threshold
    PROVE  Counted'
<1>1. \A d \in Call : d # c => pc'[d] \in Suspended /\ d \notin over'
  BY DEF TypeOK, Suspended
<1> QED BY <1>1 DEF Counted, Suspended

LEMMA CountedStep ==
    ASSUME TypeOK, TypeOK', OneProcess, OneTurn, Sighted, Counted, [Next]_vars
    PROVE  Counted'
<1> USE NoneAssumption DEF CircuitState
<1>1. ASSUME NEW c \in Call, Admit(c) PROVE Counted'
  <2> SUFFICES ASSUME faults' = 0
               PROVE  /\ circuit' = None => \A p \in Process : local'[p] = "closed"
                      /\ circuit' \in {"open", "half_open"} => failures' >= Threshold
                      /\ pc'[c] \in {"opened", "probe"} => circuit' = "open"
                      /\ pc'[c] = "clear" => circuit' = "closed"
                      /\ c \in over' => failures' >= Threshold
    BY <1>1, MoveEffect, CountedFrame
  <2>1. CASE Begin(c)
    BY <2>1, CallProcess DEF Begin, Goto, Seen, TypeOK, Counted, shared
  <2>2. CASE ReadLastFailure(c)
    BY <2>2 DEF ReadLastFailure, Goto, TypeOK, Counted, shared
  <2>3. CASE Probe(c)
    BY <2>3 DEF Probe, SetState, Goto, TypeOK, Counted
  <2> QED BY <1>1, <2>1, <2>2, <2>3 DEF Admit
<1>2. ASSUME NEW c \in Call, Succeed(c) \/ Fail(c) \/ Cancel(c) PROVE Counted'
  <2>1. pc'[c] \notin {"opened", "probe", "clear"}
    BY <1>2 DEF Succeed, Fail, Cancel, Goto, TypeOK
  <2>2. UNCHANGED <<circuit, failures, local, over, faults>>
    BY <1>2 DEF Succeed, Fail, Cancel, shared
  <2> QED BY <1>2, <2>1, <2>2, MoveEffect, CountedFrame DEF Counted
<1>3. ASSUME NEW c \in Call, Settle(c) PROVE Counted'
  <2> SUFFICES ASSUME faults' = 0
               PROVE  /\ circuit' = None => \A p \in Process : local'[p] = "closed"
                      /\ circuit' \in {"open", "half_open"} => failures' >= Threshold
                      /\ pc'[c] \in {"opened", "probe"} => circuit' = "open"
                      /\ pc'[c] = "clear" => circuit' = "closed"
                      /\ c \in over' => failures' >= Threshold
    BY <1>3, MoveEffect, CountedFrame
  <2>1. CASE CheckRecovery(c)
    BY <2>1 DEF CheckRecovery, Goto, TypeOK, Counted, shared
  <2>2. CASE Close(c)
    BY <2>2 DEF Close, SetState, Goto, TypeOK, Counted
  <2>3. CASE ClearFailures(c)
    BY <2>3 DEF ClearFailures, Goto, TypeOK, Counted
  <2>4. CASE CountFailure(c)
    <3>1. pc'[c] = "stamp" /\ UNCHANGED <<circuit, local, faults>>
      BY <2>4 DEF CountFailure, Goto, TypeOK
    <3>2. failures' = Incremented /\ (c \in over' => Incremented >= Threshold)
      BY <2>4 DEF CountFailure, TypeOK
    <3>3. failures >= Threshold => failures' >= Threshold
      BY <3>2, ThresholdAssumption, IncrementedType DEF TypeOK
    <3> QED BY <3>1, <3>2, <3>3 DEF Counted
  <2>5. CASE StampFailure(c)
    BY <2>5 DEF StampFailure, Goto, TypeOK, Counted
  <2>6. CASE Trip(c)
    BY <2>6 DEF Trip, SetState, Goto, TypeOK, Counted
  <2> QED BY <1>3, <2>1, <2>2, <2>3, <2>4, <2>5, <2>6 DEF Settle
<1>4. ASSUME NEW c \in Call, RedisRaises(c) PROVE Counted'
  BY <1>4, FaultsAssumption DEF RedisRaises, TypeOK, Counted
<1>5. CASE CoolDown
  BY <1>5 DEF CoolDown, Counted
<1>6. ASSUME NEW p \in Process, Restart(p) PROVE Counted'
  BY <1>6, FaultsAssumption DEF Restart, TypeOK, Counted
<1>7. CASE UNCHANGED vars
  BY <1>7 DEF vars, Counted
<1> QED BY <1>1, <1>2, <1>3, <1>4, <1>5, <1>6, <1>7 DEF Next

\* With one process and no faults, whatever the number of its calls and the
\* threshold: an open or half-open circuit has its count, so that the first
\* failure of a probe opens it again.
THEOREM OpenCircuitCounted ==
    ASSUME OneProcess
    PROVE  Spec => []OpenIsCounted
<1>1. Counted => OpenIsCounted
  BY DEF Counted, OpenIsCounted
<1>2. TypeOK /\ OneTurn /\ Sighted /\ Counted /\ [Next]_vars
        => TypeOK' /\ OneTurn' /\ Sighted' /\ Counted'
  BY StepType, TurnStep, SightedStep, CountedStep
<1> QED BY <1>1, <1>2, SingleInit, InitType, PTL DEF Spec

-----------------------------------------------------------------------------
(* ImplementsBreaker, for one process and any number of calls. *)

\* A call that closes the circuit finds it half-open.
Closing == faults = 0 => \A c \in Call : pc[c] = "close" => circuit = "half_open"

LEMMA ClosingStep ==
    ASSUME TypeOK, TypeOK', OneProcess, OneTurn, Counted, Closing, [Next]_vars
    PROVE  Closing'
<1>1. ASSUME NEW c \in Call,
             \/ Admit(c) \/ Settle(c) \/ Succeed(c) \/ Fail(c) \/ Cancel(c)
             \/ RedisRaises(c),
             pc'[c] = "close" => CheckRecovery(c)
      PROVE  Closing'
  <2>1. \A d \in Call : pc'[d] = "close" => d = c
    BY <1>1, MoveEffect DEF Suspended
  <2>2. ASSUME CheckRecovery(c), pc'[c] = "close", faults = 0
        PROVE  circuit' = "half_open" /\ faults' = faults
    BY <2>2, CallProcess, NoneAssumption
       DEF CheckRecovery, Goto, TypeOK, Seen, Counted, CircuitState, shared
  <2>3. CheckRecovery(c) => faults' = faults
    BY DEF CheckRecovery
  <2> QED BY <1>1, <2>1, <2>2, <2>3 DEF Closing
<1>2. ASSUME NEW c \in Call,
             Admit(c) \/ Succeed(c) \/ Fail(c) \/ Cancel(c) \/ RedisRaises(c)
      PROVE  pc'[c] # "close"
  BY <1>2 DEF Admit, Begin, ReadLastFailure, Probe, Succeed, Fail, Cancel, RedisRaises,
              Goto, TypeOK
<1>3. ASSUME NEW c \in Call, Settle(c) PROVE pc'[c] = "close" => CheckRecovery(c)
  BY <1>3 DEF Settle, CheckRecovery, Close, ClearFailures, CountFailure,
              StampFailure, Trip, Goto, TypeOK
<1>4. CASE CoolDown
  BY <1>4 DEF CoolDown, Closing
<1>5. ASSUME NEW p \in Process, Restart(p) PROVE Closing'
  BY <1>5, FaultsAssumption DEF Restart, TypeOK, Closing
<1>6. CASE UNCHANGED vars
  BY <1>6 DEF vars, Closing
<1> QED BY <1>1, <1>2, <1>3, <1>4, <1>5, <1>6 DEF Next

\* What the step of one call shows, the others being suspended.
LEMMA ViewStep ==
    ASSUME TypeOK, TypeOK', NEW c \in Call,
           \A d \in Call : d # c => pc[d] \in Suspended,
           \A d \in Call : d # c => pc'[d] = pc[d]
    PROVE  /\ State = IF c \in over THEN "open" ELSE IF circuit = None THEN "closed" ELSE circuit
           /\ State' = IF c \in over' THEN "open"
                       ELSE IF circuit' = None THEN "closed" ELSE circuit'
           /\ Count = IF pc[c] = "clear" THEN 0 ELSE failures
           /\ Count' = IF pc'[c] = "clear" THEN 0 ELSE failures'
           /\ Hot = (cooling \/ pc[c] = "stamp")
           /\ Hot' = (cooling' \/ pc'[c] = "stamp")
           /\ \A phases : /\ c \in At(phases) <=> pc[c] \in phases
                          /\ At(phases)' = IF pc'[c] \in phases THEN At(phases) \cup {c}
                                           ELSE At(phases) \ {c}
<1>1. /\ over # {} <=> c \in over
      /\ over' # {} <=> c \in over'
  BY DEF TypeOK, Suspended
<1>2. /\ (\E d \in Call : pc[d] = "clear") <=> pc[c] = "clear"
      /\ (\E d \in Call : pc'[d] = "clear") <=> pc'[c] = "clear"
      /\ (\E d \in Call : pc[d] = "stamp") <=> pc[c] = "stamp"
      /\ (\E d \in Call : pc'[d] = "stamp") <=> pc'[c] = "stamp"
  BY DEF Suspended
<1>3. ASSUME NEW phases
      PROVE  /\ c \in At(phases) <=> pc[c] \in phases
             /\ At(phases)' = IF pc'[c] \in phases THEN At(phases) \cup {c}
                              ELSE At(phases) \ {c}
  BY DEF At
<1> QED BY <1>1, <1>2, <1>3 DEF State, Count, Hot

LEMMA BreakerStep ==
    ASSUME TypeOK, TypeOK', OneProcess, OneTurn, Sighted, Counted, Closing, [Next]_vars
    PROVE  [B!Next]_(B!breakerVars)
<1> DEFINE Moves(c) == \/ Admit(c) \/ Settle(c) \/ Succeed(c) \/ Fail(c) \/ Cancel(c)
                       \/ RedisRaises(c)
<1> SUFFICES ASSUME faults' = 0 PROVE [B!Next]_(B!breakerVars)
  <2>1. ASSUME faults' # 0 PROVE B!Break
    BY <2>1 DEF TypeOK, B!Break
  <2> QED BY <2>1 DEF B!Next
<1>0. faults = 0
  <2>1. ASSUME NEW c \in Call, RedisRaises(c) PROVE faults' = faults + 1
    BY <2>1 DEF RedisRaises
  <2>2. ASSUME NEW p \in Process, Restart(p) PROVE faults' = faults + 1
    BY <2>2 DEF Restart
  <2>3. CASE faults' = faults + 1
    BY <2>3, FaultsAssumption DEF TypeOK
  <2>4. CASE faults' # faults + 1
    <3>1. faults' = faults
      BY <2>1, <2>2, <2>4 DEF Next, Admit, Settle, Begin, ReadLastFailure, Probe, Succeed,
         Fail, Cancel, CheckRecovery, Close, ClearFailures, CountFailure, StampFailure, Trip,
         CoolDown, vars
    <3> QED BY <3>1
  <2> QED BY <2>3, <2>4
<1>1. CASE CoolDown
  <2>1. UNCHANGED <<State, Count, faults>> /\ \A phases : At(phases)' = At(phases)
    BY <1>1 DEF CoolDown, State, Count, At
  <2>2. Hot' = Hot \/ Hot' = FALSE
    BY <1>1 DEF CoolDown, Hot
  <2>3. CASE Hot' = FALSE
    BY <2>1, <2>3 DEF B!Next, B!Cool
  <2>4. CASE Hot' = Hot
    BY <2>1, <2>4 DEF B!breakerVars, B!circuitVars
  <2> QED BY <2>2, <2>3, <2>4
<1>2. CASE UNCHANGED vars
  BY <1>2 DEF vars, B!breakerVars, B!circuitVars, State, Count, Hot, At
<1>3. ASSUME NEW p \in Process, Restart(p) PROVE FALSE
  BY <1>0, <1>3 DEF Restart
<1>4. ASSUME NEW c \in Call, Moves(c) PROVE [B!Next]_(B!breakerVars)
  <2> USE <1>0, NoneAssumption DEF CircuitState
  <2>0. /\ \A d \in Call : d # c => pc[d] \in Suspended
        /\ \A d \in Call : d # c => pc'[d] = pc[d]
    BY <1>4, MoveEffect
  <2> DEFINE Same(phases) == At(phases)' = At(phases)
  <2>1. /\ State = IF c \in over THEN "open" ELSE IF circuit = None THEN "closed" ELSE circuit
        /\ State' = IF c \in over' THEN "open"
                    ELSE IF circuit' = None THEN "closed" ELSE circuit'
        /\ Count = IF pc[c] = "clear" THEN 0 ELSE failures
        /\ Count' = IF pc'[c] = "clear" THEN 0 ELSE failures'
        /\ Hot = (cooling \/ pc[c] = "stamp")
        /\ Hot' = (cooling' \/ pc'[c] = "stamp")
    BY <2>0, ViewStep
  <2>2. ASSUME NEW phases
        PROVE  /\ c \in At(phases) <=> pc[c] \in phases
               /\ At(phases)' = IF pc'[c] \in phases THEN At(phases) \cup {c}
                                ELSE At(phases) \ {c}
    BY <2>0, ViewStep
  <2>3. ASSUME NEW phases, pc'[c] \in phases <=> pc[c] \in phases
        PROVE  Same(phases)
    BY <2>2, <2>3
  <2>4. c \in over => pc[c] \in {"stamp", "trip"}
    BY DEF TypeOK
  <2>5. CASE Begin(c)
    <3>1. pc[c] = "idle" /\ pc'[c] = IF Seen(ProcessOf(c)) = "open" THEN "opened" ELSE "running"
      BY <2>5 DEF Begin, Goto, TypeOK
    <3>2. UNCHANGED <<State, Count, Hot, faults>> /\ Same({"check", "close"}) /\ Same({"count"})
      BY <2>1, <2>3, <2>5, <3>1 DEF Begin, shared
    <3>3. CASE pc'[c] = "opened"
      <4>1. Same({"running"})
        BY <2>3, <3>1, <3>3
      <4> QED BY <3>2, <4>1 DEF B!breakerVars, B!circuitVars
    <3>4. CASE pc'[c] = "running"
      <4>1. At({"running"})' = At({"running"}) \cup {c}
        BY <2>2, <3>4
      <4>2. State # "open"
        BY <2>1, <2>4, <3>1, <3>4 DEF Seen
      <4> QED BY <3>2, <4>1, <4>2 DEF B!Next, B!Admit, B!circuitVars
    <3> QED BY <3>1, <3>3, <3>4
  <2>6. CASE ReadLastFailure(c)
    <3>1. pc[c] = "opened" /\ pc'[c] \in {"idle", "probe"}
      BY <2>6 DEF ReadLastFailure, Goto, TypeOK
    <3>2. /\ UNCHANGED <<State, Count, Hot, faults>>
          /\ Same({"running"}) /\ Same({"check", "close"}) /\ Same({"count"})
      BY <2>1, <2>3, <2>6, <3>1 DEF ReadLastFailure, shared
    <3> QED BY <3>2 DEF B!breakerVars, B!circuitVars
  <2>7. CASE Probe(c)
    <3>1. pc[c] = "probe" /\ pc'[c] = "running"
      BY <2>7 DEF Probe, Goto, TypeOK
    <3>2. UNCHANGED <<Count, Hot, faults>> /\ Same({"check", "close"}) /\ Same({"count"})
      BY <2>1, <2>3, <2>7, <3>1 DEF Probe
    <3>3. circuit = "open" /\ ~cooling
      BY <3>1 DEF Counted, Sighted
    <3>4. State = "open" /\ ~Hot /\ State' = "half_open"
      BY <2>1, <2>4, <2>7, <3>1, <3>3 DEF Probe, SetState
    <3>5. At({"running"})' = At({"running"}) \cup {c}
      BY <2>2, <3>1
    <3> QED BY <3>2, <3>4, <3>5 DEF B!Next, B!Probe
  <2>8. CASE Succeed(c) \/ Fail(c) \/ Cancel(c)
    <3>1. /\ pc[c] = "running"
          /\ pc'[c] \in {"check", "count", "idle"}
          /\ UNCHANGED <<circuit, failures, cooling, over, faults>>
      BY <2>8 DEF Succeed, Fail, Cancel, Goto, TypeOK, shared
    <3>2. UNCHANGED <<State, Count, Hot, faults>>
      BY <2>1, <3>1
    <3>3. c \in At({"running"}) /\ At({"running"})' = At({"running"}) \ {c}
      BY <2>2, <3>1
    <3>4. CASE pc'[c] = "check"
      <4>1. At({"check", "close"})' = At({"check", "close"}) \cup {c} /\ Same({"count"})
        BY <2>2, <2>3, <3>1, <3>4
      <4> QED BY <3>2, <3>3, <4>1 DEF B!Next, B!End, B!circuitVars
    <3>5. CASE pc'[c] = "count"
      <4>1. At({"count"})' = At({"count"}) \cup {c} /\ Same({"check", "close"})
        BY <2>2, <2>3, <3>1, <3>5
      <4> QED BY <3>2, <3>3, <4>1 DEF B!Next, B!End, B!circuitVars
    <3>6. CASE pc'[c] = "idle"
      <4>1. Same({"count"}) /\ Same({"check", "close"})
        BY <2>3, <3>1, <3>6
      <4> QED BY <3>2, <3>3, <4>1 DEF B!Next, B!End, B!circuitVars
    <3> QED BY <3>1, <3>4, <3>5, <3>6
  <2>9. CASE CheckRecovery(c)
    <3>1. /\ pc[c] = "check"
          /\ pc'[c] = IF Seen(ProcessOf(c)) = "half_open" THEN "close" ELSE "idle"
      BY <2>9 DEF CheckRecovery, Goto, TypeOK
    <3>2. UNCHANGED <<State, Count, Hot, faults>> /\ Same({"running"}) /\ Same({"count"})
      BY <2>1, <2>3, <2>9, <3>1 DEF CheckRecovery, shared
    <3>3. CASE pc'[c] = "close"
      <4>1. Same({"check", "close"})
        BY <2>3, <3>1, <3>3
      <4> QED BY <3>2, <4>1 DEF B!breakerVars, B!circuitVars
    <3>4. CASE pc'[c] = "idle"
      <4>1. /\ c \in At({"check", "close"})
            /\ At({"check", "close"})' = At({"check", "close"}) \ {c}
        BY <2>2, <3>1, <3>4
      <4>2. State # "half_open"
        BY <2>1, <2>4, <3>1, <3>4 DEF Seen
      <4> QED BY <3>2, <4>1, <4>2 DEF B!Next, B!Success
    <3> QED BY <3>1, <3>3, <3>4
  <2>10. CASE Close(c)
    <3>1. pc[c] = "close" /\ pc'[c] = "clear"
      BY <2>10 DEF Close, Goto, TypeOK
    <3>2. UNCHANGED <<Hot, faults>> /\ Same({"running"}) /\ Same({"count"})
      BY <2>1, <2>3, <2>10, <3>1 DEF Close
    <3>3. /\ c \in At({"check", "close"})
          /\ At({"check", "close"})' = At({"check", "close"}) \ {c}
      BY <2>2, <3>1
    <3>4. State = "half_open"
      BY <2>1, <2>4, <3>1 DEF Closing
    <3>5. State' = "closed" /\ Count' = 0
      BY <2>1, <2>4, <2>10, <3>1 DEF Close, SetState
    <3> QED BY <3>2, <3>3, <3>4, <3>5 DEF B!Next, B!Success
  <2>11. CASE ClearFailures(c) \/ StampFailure(c) \/ Trip(c)
    <3>1. /\ pc[c] \in {"clear", "stamp", "trip"}
          /\ pc'[c] \in {"idle", "trip"}
      BY <2>11 DEF ClearFailures, StampFailure, Trip, Goto, TypeOK
    <3>2. Same({"running"}) /\ Same({"check", "close"}) /\ Same({"count"})
      BY <2>3, <3>1
    <3>3. UNCHANGED <<State, Count, Hot, faults>>
      <4>1. CASE ClearFailures(c)
        BY <2>1, <3>1, <4>1 DEF ClearFailures
      <4>2. CASE StampFailure(c)
        BY <2>1, <3>1, <4>2 DEF StampFailure
      <4>3. CASE Trip(c)
        <5>1. pc[c] = "trip" /\ c \in over /\ c \notin over' /\ pc'[c] = "idle"
          BY <4>3 DEF Trip, TypeOK, Goto
        <5> QED BY <2>1, <4>3, <5>1 DEF Trip, SetState
      <4> QED BY <2>11, <4>1, <4>2, <4>3
    <3> QED BY <3>2, <3>3 DEF B!breakerVars, B!circuitVars
  <2>12. CASE CountFailure(c)
    <3>1. /\ pc[c] = "count" /\ pc'[c] = "stamp" /\ failures' = Incremented
          /\ c \in over' <=> Incremented >= Threshold
          /\ UNCHANGED <<circuit, faults>>
      BY <2>4, <2>12 DEF CountFailure, Goto, TypeOK
    <3>2. Same({"running"}) /\ Same({"check", "close"})
      BY <2>3, <3>1
    <3>3. c \in At({"count"}) /\ At({"count"})' = At({"count"}) \ {c}
      BY <2>2, <3>1
    <3>4. Count' = (IF Count < Threshold THEN Count + 1 ELSE Threshold) /\ Hot' = TRUE
      BY <2>1, <3>1 DEF Incremented
    <3>5. Count' = Threshold <=> Incremented >= Threshold
      BY <2>1, <3>1, ThresholdAssumption, IncrementedType
    <3>6. State' = IF Count' = Threshold THEN "open" ELSE State
      BY <2>1, <2>4, <3>1, <3>5
    <3> QED BY <3>1, <3>2, <3>3, <3>4, <3>6 DEF B!Next, B!Failure
  <2>13. CASE RedisRaises(c)
    BY <2>13 DEF RedisRaises
  <2> QED BY <1>4, <2>5, <2>6, <2>7, <2>8, <2>9, <2>10, <2>11, <2>12, <2>13
         DEF Admit, Settle
<1> QED BY <1>1, <1>2, <1>3, <1>4 DEF Next

LEMMA InitBreaker == Init => B!Init /\ Closing
<1> SUFFICES ASSUME Init PROVE B!Init /\ Closing
  OBVIOUS
<1>1. \A c \in Call : pc[c] = "idle"
  BY DEF Init
<1>2. /\ State = "closed" /\ Count = 0 /\ Hot = FALSE /\ faults = 0
  BY <1>1 DEF Init, State, Count, Hot
<1>3. At({"running"}) = {} /\ At({"check", "close"}) = {} /\ At({"count"}) = {}
  BY <1>1 DEF At
<1> QED BY <1>1, <1>2, <1>3 DEF B!Init, Closing

\* With one process, whatever the number of its calls and the threshold:
\* CircuitBreaker implements Breaker.  The commands of one transition are never
\* interleaved with those of another, so until Redis fails or the process dies
\* every outcome is taken note of as if in one step.
THEOREM BreakerImplemented ==
    ASSUME OneProcess
    PROVE  Spec => ImplementsBreaker
<1>1. TypeOK /\ OneTurn /\ Sighted /\ Counted /\ Closing /\ [Next]_vars
        => TypeOK' /\ OneTurn' /\ Sighted' /\ Counted' /\ Closing'
  BY StepType, TurnStep, SightedStep, CountedStep, ClosingStep
<1>2. TypeOK /\ TypeOK' /\ OneTurn /\ Sighted /\ Counted /\ Closing /\ [Next]_vars
        => [B!Next]_(B!breakerVars)
  BY BreakerStep
<1> QED BY <1>1, <1>2, SingleInit, InitType, InitBreaker, PTL
       DEF Spec, ImplementsBreaker, B!Spec

=============================================================================
