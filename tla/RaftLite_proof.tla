--------------------------- MODULE RaftLite_proof ---------------------------
(***************************************************************************)
(* Theorems about RaftLite, for every set of nodes and calls.              *)
(***************************************************************************)
EXTENDS RaftLite, TLAPS, FiniteSetTheorems, SequenceTheorems

LEMMA InitTypeOK == Init => TypeOK
<1> SUFFICES ASSUME Init PROVE TypeOK
  OBVIOUS
<1> USE NodeAssumption, ReqAssumption, KindsAssumption DEF Init, Proc
<1>1. RedisTypeOK
  <2>1. <<>> \in Seq(Entry)
    OBVIOUS
  <2>2. NoSnap \in [term : Nat, upto : Nat, entries : Seq(Entry)]
    BY <2>1 DEF NoSnap
  <2>3. commit \in Nat \cup {-1}
    OBVIOUS
  <2> QED
    BY <2>1, <2>2, <2>3 DEF RedisTypeOK
<1>2. NodeTypeOK
  BY DEF NodeTypeOK
<1>3. TaskTypeOK
  BY DEF TaskTypeOK, LoopPc, CallPc, Status
<1>4. LocalTypeOK
  BY DEF LocalTypeOK
<1>5. AuxTypeOK
  BY DEF AuxTypeOK
<1>6. PhaseOK
  BY DEF PhaseOK, LoopPhase, CallPhase, Electing, LoopPc, CallPc, Running
<1> QED
  BY <1>1, <1>2, <1>3, <1>4, <1>5, <1>6 DEF TypeOK

LEMMA HomeType ==
  ASSUME TypeOK, NEW p \in Proc, pc[p] \notin {"idle", "done"}
  PROVE  Home(p) \in Node
BY ReqAssumption DEF TypeOK, PhaseOK, CallPhase, Running, Home, Proc


LEMMA GotoType ==
  ASSUME TypeOK, NEW p \in Proc, NEW l \in LoopPc \cup ElectPc \cup CallPc, Goto(p, l)
  PROVE  /\ pc' \in [Proc -> LoopPc \cup ElectPc \cup CallPc]
         /\ pc'[p] = l
         /\ \A q \in Proc \ {p} : pc'[q] = pc[q]
BY DEF TypeOK, TaskTypeOK, Goto

\* What the two disjuncts of EndPoll amount to.
LEMMA EndPollEffect ==
  ASSUME TypeOK, NEW n \in Node, polls[n] > 0, EndPoll(n)
  PROVE  /\ polls' \in [Node -> Nat]
         /\ \A m \in Node \ {n} : polls'[m] = polls[m]
         /\ pc' \in [Proc -> LoopPc \cup ElectPc \cup CallPc]
         /\ \A q \in Proc \ {n} : pc'[q] = pc[q]
         /\ pc'[n] \in {"eReg", "poll"}
         /\ pc'[n] = "poll" => polls'[n] > 0
<1> DEFINE l == IF polls[n] = 1 THEN "eReg" ELSE "poll"
<1>1. l \in LoopPc \cup ElectPc \cup CallPc /\ n \in Proc /\ Goto(n, l)
  BY DEF EndPoll, LoopPc, ElectPc, Proc
<1>2. /\ pc' \in [Proc -> LoopPc \cup ElectPc \cup CallPc]
      /\ pc'[n] = l
      /\ \A q \in Proc \ {n} : pc'[q] = pc[q]
  BY <1>1, GotoType
<1>3. /\ polls' \in [Node -> Nat]
      /\ \A m \in Node \ {n} : polls'[m] = polls[m]
      /\ polls'[n] = polls[n] - 1
  BY DEF EndPoll, TypeOK, NodeTypeOK
<1> QED
  BY <1>2, <1>3 DEF TypeOK, NodeTypeOK

\* What the returns of elect_leader amount to.
LEMMA ReturnEffect ==
  ASSUME TypeOK, NEW p \in Proc, NEW m \in Node, Return(p, m)
  PROVE  /\ polls' \in [Node -> Nat]
         /\ \A n \in Node \ {p} : polls'[n] = polls[n]
         /\ result' \in [Req -> Status]
         /\ pc' \in [Proc -> LoopPc \cup ElectPc \cup CallPc]
         /\ \A q \in Proc \ {p} : pc'[q] = pc[q]
         /\ p \in Node => /\ pc'[p] \in {"eReg", "poll", "obsLen"}
                          /\ pc'[p] # "eReg" => polls'[p] > 0
         /\ p \in Req => /\ pc'[p] \in {"rGuard", "done"}
                         /\ pc'[p] = "rGuard" => m = host[p]
<1> USE DEF LoopPc, ElectPc, CallPc
<1>1. CASE p \in Node
  <2>1. p \notin Req /\ UNCHANGED result /\ polls[p] \in Nat
    BY <1>1, ReqAssumption DEF Return, TypeOK, NodeTypeOK
  <2>2. CASE polls[p] = 0
    <3>1. polls' = [polls EXCEPT ![p] = PollsPerElection] /\ Goto(p, "poll")
      BY <1>1, <2>1, <2>2 DEF Return
    <3> QED
      BY <1>1, <2>1, <3>1, GotoType, BoundsAssumption
         DEF TypeOK, NodeTypeOK, TaskTypeOK
  <2>3. CASE polls[p] > 0 /\ EndPoll(p)
    BY <1>1, <2>1, <2>3, EndPollEffect DEF TypeOK, TaskTypeOK
  <2>4. CASE polls[p] > 0 /\ Goto(p, "obsLen") /\ UNCHANGED polls
    BY <1>1, <2>1, <2>4, GotoType DEF TypeOK, NodeTypeOK, TaskTypeOK
  <2> QED
    BY <1>1, <2>1, <2>2, <2>3, <2>4 DEF Return
<1>2. CASE p \in Req
  <2>1. p \notin Node /\ UNCHANGED polls
    BY <1>2, ReqAssumption DEF Return
  <2>2. CASE m = host[p] /\ Goto(p, "rGuard") /\ UNCHANGED result
    BY <1>2, <2>1, <2>2, GotoType DEF TypeOK, NodeTypeOK, TaskTypeOK, CallPc
  <2>3. ASSUME NEW s \in Status, Finish(p, s)
        PROVE  /\ result' \in [Req -> Status]
               /\ pc' \in [Proc -> LoopPc \cup ElectPc \cup CallPc]
               /\ \A q \in Proc \ {p} : pc'[q] = pc[q]
               /\ pc'[p] = "done"
    BY <1>2, <2>3, GotoType DEF Finish, TypeOK, TaskTypeOK
  <2>4. CASE Finish(p, "redirect") \/ Finish(p, "done")
    BY <1>2, <2>1, <2>3, <2>4 DEF Status, TypeOK, NodeTypeOK
  <2> QED
    BY <1>2, <2>1, <2>2, <2>4 DEF Return
<1> QED
  BY <1>1, <1>2 DEF Proc


\* A step of task p leaves the phases of the other tasks alone.
LEMMA PhaseStep ==
  ASSUME TypeOK, NEW p \in Proc,
         \A q \in Proc \ {p} : pc'[q] = pc[q] /\ pick'[q] = pick[q],
         \A n \in Node \ {p} : polls'[n] = polls[n],
         \A r \in Req \ {p} : host'[r] = host[r],
         p \in Node => LoopPhase(p)',
         p \in Req => CallPhase(p)'
  PROVE  PhaseOK'
<1>1. \A n \in Node : LoopPhase(n)'
  <2> TAKE n \in Node
  <2>1. CASE n = p
    BY <2>1
  <2>2. CASE n # p
    BY <2>2 DEF TypeOK, PhaseOK, LoopPhase, Electing, Proc
  <2> QED
    BY <2>1, <2>2
<1>2. \A r \in Req : CallPhase(r)'
  <2> TAKE r \in Req
  <2>1. CASE r = p
    BY <2>1
  <2>2. CASE r # p
    BY <2>2 DEF TypeOK, PhaseOK, CallPhase, Electing, Running, Proc
  <2> QED
    BY <2>1, <2>2
<1> QED
  BY <1>1, <1>2 DEF PhaseOK


\* What the two ways replicate_log ends amount to.
LEMMA AnswerEffect ==
  ASSUME TypeOK, NEW r \in Req, NEW s \in Status, Answer(r, s)
  PROVE  /\ pc' \in [Proc -> LoopPc \cup ElectPc \cup CallPc]
         /\ pc'[r] \in {"cCommit", "done"}
         /\ \A q \in Proc \ {r} : pc'[q] = pc[q]
         /\ result' \in [Req -> Status]
         /\ quorum' \in [Proc -> Nat]
         /\ idx' \in [Proc -> Nat]
<1>1. r \in Proc
  BY DEF Proc
<1>2. result' \in [Req -> Status] /\ quorum' \in [Proc -> Nat]
  BY <1>1 DEF Answer, TypeOK, TaskTypeOK, LocalTypeOK
<1>3. CASE Goto(r, "cCommit") /\ UNCHANGED idx
  BY <1>1, <1>2, <1>3, GotoType DEF CallPc, CompactPc, TypeOK, LocalTypeOK
<1>4. CASE Goto(r, "done") /\ idx' = [idx EXCEPT ![r] = 0]
  BY <1>1, <1>2, <1>4, GotoType DEF CallPc, TypeOK, LocalTypeOK
<1> QED
  BY <1>3, <1>4 DEF Answer

\* start keeps the types.
LEMMA StartType ==
  ASSUME TypeOK, NEW p \in Node, Start(p)
  PROVE  TypeOK'
<1>1. p \in Proc /\ Home(p) \in Node
  BY HomeType DEF Start, TypeOK, PhaseOK, LoopPhase, CallPhase, Proc, Running, Home
<1>2. /\ pc' \in [Proc -> LoopPc \cup ElectPc \cup CallPc]
      /\ pc'[p] \in {"restore"}
      /\ \A q \in Proc \ {p} : pc'[q] = pc[q]
  BY <1>1, GotoType DEF Start, LoopPc, ElectPc, CallPc, WriterPc, CompactPc
<1>3. RedisTypeOK' /\ NodeTypeOK' /\ LocalTypeOK' /\ AuxTypeOK'
  BY <1>1 DEF Start, TypeOK, RedisTypeOK, NodeTypeOK, LocalTypeOK, AuxTypeOK,
         redisVars, nodeVars, callVars, localVars, auxVars
<1>4. TaskTypeOK'
  BY <1>2 DEF Start, TypeOK, TaskTypeOK, callVars
<1>5. PhaseOK'
  <2>1. /\ \A q \in Proc \ {p} : pick'[q] = pick[q]
        /\ \A n \in Node \ {p} : polls'[n] = polls[n]
        /\ host' = host
    BY <1>1, <1>2 DEF Start, TypeOK, LocalTypeOK, nodeVars, callVars, localVars
  <2>2. p \in Node => LoopPhase(p)'
    BY <1>2 DEF Start, TypeOK, PhaseOK, LocalTypeOK, Electing, LoopPc, ElectPc, CallPc,
           WriterPc, CompactPc, nodeVars, callVars, localVars, LoopPhase
  <2>3. p \notin Req
    BY ReqAssumption
  <2> QED
    BY <1>1, <1>2, <2>1, <2>2, <2>3, PhaseStep
<1> QED
  BY <1>3, <1>4, <1>5 DEF TypeOK

\* restore_from_snapshot keeps the types.
LEMMA RestoreType ==
  ASSUME TypeOK, NEW p \in Node, Restore(p)
  PROVE  TypeOK'
<1>1. p \in Proc /\ Home(p) \in Node
  BY HomeType DEF Restore, TypeOK, PhaseOK, LoopPhase, CallPhase, Proc, Running, Home
<1>2. /\ pc' \in [Proc -> LoopPc \cup ElectPc \cup CallPc]
      /\ pc'[p] \in {"eReg"}
      /\ \A q \in Proc \ {p} : pc'[q] = pc[q]
  BY <1>1, GotoType DEF Restore, LoopPc, ElectPc, CallPc, WriterPc, CompactPc
<1>3. RedisTypeOK' /\ LocalTypeOK' /\ AuxTypeOK'
  BY <1>1 DEF Restore, TypeOK, RedisTypeOK, LocalTypeOK, AuxTypeOK, redisVars,
         nodeVars, callVars, localVars, auxVars
<1>4. NodeTypeOK'
  BY <1>1 DEF Restore, TypeOK, NodeTypeOK, redisVars, nodeVars, callVars, localVars,
         auxVars, RedisTypeOK
<1>5. TaskTypeOK'
  BY <1>2 DEF Restore, TypeOK, TaskTypeOK, callVars
<1>6. PhaseOK'
  <2>1. /\ \A q \in Proc \ {p} : pick'[q] = pick[q]
        /\ \A n \in Node \ {p} : polls'[n] = polls[n]
        /\ host' = host
    BY <1>1, <1>2 DEF Restore, TypeOK, LocalTypeOK, nodeVars, callVars, localVars
  <2>2. p \in Node => LoopPhase(p)'
    BY <1>2 DEF Restore, TypeOK, PhaseOK, LocalTypeOK, Electing, LoopPc, ElectPc,
           CallPc, WriterPc, CompactPc, nodeVars, callVars, localVars, LoopPhase
  <2>3. p \notin Req
    BY ReqAssumption
  <2> QED
    BY <1>1, <1>2, <2>1, <2>2, <2>3, PhaseStep
<1> QED
  BY <1>3, <1>4, <1>5, <1>6 DEF TypeOK

\* Registering (the first command of elect_leader) keeps the types.
LEMMA RegisterType ==
  ASSUME TypeOK, NEW p \in Proc, Register(p)
  PROVE  TypeOK'
<1>1. p \in Proc /\ Home(p) \in Node
  BY HomeType DEF Register, TypeOK, PhaseOK, LoopPhase, CallPhase, Proc, Running, Home
<1>2. /\ pc' \in [Proc -> LoopPc \cup ElectPc \cup CallPc]
      /\ pc'[p] \in {"eNodes"}
      /\ \A q \in Proc \ {p} : pc'[q] = pc[q]
  BY <1>1, GotoType DEF Register, LoopPc, ElectPc, CallPc, WriterPc, CompactPc
<1>3. RedisTypeOK' /\ NodeTypeOK' /\ LocalTypeOK' /\ AuxTypeOK'
  BY <1>1 DEF Register, TypeOK, RedisTypeOK, NodeTypeOK, LocalTypeOK, AuxTypeOK,
         redisVars, nodeVars, callVars, localVars, auxVars
<1>4. TaskTypeOK'
  BY <1>2 DEF Register, TypeOK, TaskTypeOK, callVars
<1>5. PhaseOK'
  <2>1. /\ \A q \in Proc \ {p} : pick'[q] = pick[q]
        /\ \A n \in Node \ {p} : polls'[n] = polls[n]
        /\ host' = host
    BY <1>1, <1>2 DEF Register, TypeOK, LocalTypeOK, nodeVars, callVars, localVars
  <2>2. p \in Node => LoopPhase(p)'
    BY <1>2 DEF Register, TypeOK, PhaseOK, LocalTypeOK, Electing, LoopPc, ElectPc,
           CallPc, WriterPc, CompactPc, nodeVars, callVars, localVars, LoopPhase
  <2>3. p \in Req => CallPhase(p)'
    BY <1>1, <1>2, <2>1
       DEF Register, TypeOK, PhaseOK, LocalTypeOK, Electing, LoopPc, ElectPc, CallPc,
              WriterPc, CompactPc, nodeVars, callVars, localVars, CallPhase, Running
  <2> QED
    BY <1>1, <1>2, <2>1, <2>2, <2>3, PhaseStep
<1> QED
  BY <1>3, <1>4, <1>5 DEF TypeOK

\* Reading the active nodes keeps the types.
LEMMA ReadNodesType ==
  ASSUME TypeOK, NEW p \in Proc, ReadNodes(p)
  PROVE  TypeOK'
<1>1. p \in Proc /\ Home(p) \in Node
  BY HomeType DEF ReadNodes, TypeOK, PhaseOK, LoopPhase, CallPhase, Proc, Running, Home
<1>2. /\ pc' \in [Proc -> LoopPc \cup ElectPc \cup CallPc]
      /\ pc'[p] \in {"eTerm"}
      /\ \A q \in Proc \ {p} : pc'[q] = pc[q]
  BY <1>1, GotoType DEF ReadNodes, LoopPc, ElectPc, CallPc, WriterPc, CompactPc
<1>3. RedisTypeOK' /\ NodeTypeOK' /\ AuxTypeOK'
  BY <1>1 DEF ReadNodes, TypeOK, RedisTypeOK, NodeTypeOK, AuxTypeOK, redisVars,
         nodeVars, callVars, localVars, auxVars
<1>4. LocalTypeOK'
  BY <1>1 DEF ReadNodes, TypeOK, LocalTypeOK, redisVars, nodeVars, callVars, localVars,
         auxVars, RedisTypeOK
<1>5. TaskTypeOK'
  BY <1>2 DEF ReadNodes, TypeOK, TaskTypeOK, callVars
<1>6. PhaseOK'
  <2>1. /\ \A q \in Proc \ {p} : pick'[q] = pick[q]
        /\ \A n \in Node \ {p} : polls'[n] = polls[n]
        /\ host' = host
    BY <1>1, <1>2 DEF ReadNodes, TypeOK, LocalTypeOK, nodeVars, callVars, localVars
  <2>2. p \in Node => LoopPhase(p)'
    BY <1>2 DEF ReadNodes, TypeOK, PhaseOK, LocalTypeOK, Electing, LoopPc, ElectPc,
           CallPc, WriterPc, CompactPc, nodeVars, callVars, localVars, LoopPhase
  <2>3. p \in Req => CallPhase(p)'
    BY <1>1, <1>2, <2>1
       DEF ReadNodes, TypeOK, PhaseOK, LocalTypeOK, Electing, LoopPc, ElectPc, CallPc,
              WriterPc, CompactPc, nodeVars, callVars, localVars, CallPhase, Running
  <2> QED
    BY <1>1, <1>2, <2>1, <2>2, <2>3, PhaseStep
<1> QED
  BY <1>3, <1>4, <1>5, <1>6 DEF TypeOK

\* Reading the shared term keeps the types.
LEMMA ReadTermType ==
  ASSUME TypeOK, NEW p \in Proc, ReadTerm(p)
  PROVE  TypeOK'
<1>1. p \in Proc /\ Home(p) \in Node
  BY HomeType DEF ReadTerm, TypeOK, PhaseOK, LoopPhase, CallPhase, Proc, Running, Home
<1>2. /\ pc' \in [Proc -> LoopPc \cup ElectPc \cup CallPc]
      /\ pc'[p] \in {"eLead"}
      /\ \A q \in Proc \ {p} : pc'[q] = pc[q]
  BY <1>1, GotoType DEF ReadTerm, LoopPc, ElectPc, CallPc, WriterPc, CompactPc
<1>3. RedisTypeOK' /\ LocalTypeOK' /\ AuxTypeOK'
  BY <1>1 DEF ReadTerm, TypeOK, RedisTypeOK, LocalTypeOK, AuxTypeOK, redisVars,
         nodeVars, callVars, localVars, auxVars
<1>4. NodeTypeOK'
  BY <1>1 DEF ReadTerm, TypeOK, NodeTypeOK, redisVars, nodeVars, callVars, localVars,
         auxVars, RedisTypeOK
<1>5. TaskTypeOK'
  BY <1>2 DEF ReadTerm, TypeOK, TaskTypeOK, callVars
<1>6. PhaseOK'
  <2>1. /\ \A q \in Proc \ {p} : pick'[q] = pick[q]
        /\ \A n \in Node \ {p} : polls'[n] = polls[n]
        /\ host' = host
    BY <1>1, <1>2 DEF ReadTerm, TypeOK, LocalTypeOK, nodeVars, callVars, localVars
  <2>2. p \in Node => LoopPhase(p)'
    BY <1>2 DEF ReadTerm, TypeOK, PhaseOK, LocalTypeOK, Electing, LoopPc, ElectPc,
           CallPc, WriterPc, CompactPc, nodeVars, callVars, localVars, LoopPhase
  <2>3. p \in Req => CallPhase(p)'
    BY <1>1, <1>2, <2>1
       DEF ReadTerm, TypeOK, PhaseOK, LocalTypeOK, Electing, LoopPc, ElectPc, CallPc,
              WriterPc, CompactPc, nodeVars, callVars, localVars, CallPhase, Running
  <2> QED
    BY <1>1, <1>2, <2>1, <2>2, <2>3, PhaseStep
<1> QED
  BY <1>3, <1>4, <1>5, <1>6 DEF TypeOK

\* An election that finds a live leader keeps the types.
LEMMA ReadLeaderStableType ==
  ASSUME TypeOK, NEW p \in Proc, ReadLeaderStable(p)
  PROVE  TypeOK'
<1>1. p \in Proc /\ Home(p) \in Node
  BY HomeType DEF ReadLeaderStable, TypeOK, PhaseOK, LoopPhase, CallPhase, Proc,
         Running, Home
<1>2. leaderKey \in Node /\ Return(p, leaderKey)
  BY <1>1 DEF ReadLeaderStable, TypeOK, LocalTypeOK, PhaseOK, LoopPhase, CallPhase,
         Electing, Proc
<1>3. /\ pc' \in [Proc -> LoopPc \cup ElectPc \cup CallPc]
      /\ \A q \in Proc \ {p} : pc'[q] = pc[q]
      /\ polls' \in [Node -> Nat]
      /\ \A n \in Node \ {p} : polls'[n] = polls[n]
      /\ result' \in [Req -> Status]
      /\ p \in Node => /\ pc'[p] \in {"eReg", "poll", "obsLen"}
                       /\ pc'[p] # "eReg" => polls'[p] > 0
      /\ p \in Req => pc'[p] \in {"rGuard", "done"}
  BY <1>2, <1>1, ReturnEffect
<1>4. RedisTypeOK' /\ LocalTypeOK' /\ AuxTypeOK'
  BY <1>1 DEF ReadLeaderStable, TypeOK, RedisTypeOK, LocalTypeOK, AuxTypeOK, redisVars,
         nodeVars, callVars, localVars, auxVars
<1>5. NodeTypeOK'
  BY <1>1, <1>3 DEF ReadLeaderStable, TypeOK, NodeTypeOK, redisVars, nodeVars,
         callVars, localVars, auxVars, RedisTypeOK, LocalTypeOK
<1>6. TaskTypeOK'
  BY <1>3 DEF ReadLeaderStable, TypeOK, TaskTypeOK, callVars
<1>7. PhaseOK'
  <2>1. /\ \A q \in Proc \ {p} : pick'[q] = pick[q]
        /\ \A n \in Node \ {p} : polls'[n] = polls[n]
        /\ host' = host
    BY <1>1, <1>3 DEF ReadLeaderStable, TypeOK, LocalTypeOK, nodeVars, callVars,
           localVars
  <2>2. p \in Node => LoopPhase(p)'
    BY <1>3 DEF ReadLeaderStable, TypeOK, PhaseOK, LocalTypeOK, Electing, LoopPc,
           ElectPc, CallPc, WriterPc, CompactPc, nodeVars, callVars, localVars,
              LoopPhase
  <2>3. p \in Req => CallPhase(p)'
    BY <1>1, <1>3, <2>1
       DEF ReadLeaderStable, TypeOK, PhaseOK, LocalTypeOK, Electing, LoopPc, ElectPc,
              CallPc, WriterPc, CompactPc, nodeVars, callVars, localVars, CallPhase,
                 Running
  <2> QED
    BY <1>1, <1>3, <2>1, <2>2, <2>3, PhaseStep
<1> QED
  BY <1>4, <1>5, <1>6, <1>7 DEF TypeOK

\* An election that finds no live leader keeps the types.
LEMMA ReadLeaderNoneType ==
  ASSUME TypeOK, NEW p \in Proc, ReadLeaderNone(p)
  PROVE  TypeOK'
<1>1. p \in Proc /\ Home(p) \in Node
  BY HomeType DEF ReadLeaderNone, TypeOK, PhaseOK, LoopPhase, CallPhase, Proc, Running,
         Home
<1>2. /\ pc' \in [Proc -> LoopPc \cup ElectPc \cup CallPc]
      /\ pc'[p] \in {"eNX"}
      /\ \A q \in Proc \ {p} : pc'[q] = pc[q]
  BY <1>1, GotoType DEF ReadLeaderNone, LoopPc, ElectPc, CallPc, WriterPc, CompactPc
<1>3. RedisTypeOK' /\ NodeTypeOK' /\ AuxTypeOK'
  BY <1>1 DEF ReadLeaderNone, TypeOK, RedisTypeOK, NodeTypeOK, AuxTypeOK, redisVars,
         nodeVars, callVars, localVars, auxVars
<1>4. LocalTypeOK'
  BY <1>1, BoundsAssumption
     DEF ReadLeaderNone, TypeOK, LocalTypeOK, redisVars, nodeVars, callVars, localVars,
            auxVars, NodeTypeOK, Bump
<1>5. TaskTypeOK'
  BY <1>2 DEF ReadLeaderNone, TypeOK, TaskTypeOK, callVars
<1>6. PhaseOK'
  <2>1. /\ \A q \in Proc \ {p} : pick'[q] = pick[q]
        /\ \A n \in Node \ {p} : polls'[n] = polls[n]
        /\ host' = host
    BY <1>1, <1>2 DEF ReadLeaderNone, TypeOK, LocalTypeOK, nodeVars, callVars, localVars
  <2>2. p \in Node => LoopPhase(p)'
    BY <1>2 DEF ReadLeaderNone, TypeOK, PhaseOK, LocalTypeOK, Electing, LoopPc,
           ElectPc, CallPc, WriterPc, CompactPc, nodeVars, callVars, localVars,
              LoopPhase
  <2>3. p \in Req => CallPhase(p)'
    BY <1>1, <1>2, <2>1
       DEF ReadLeaderNone, TypeOK, PhaseOK, LocalTypeOK, Electing, LoopPc, ElectPc,
              CallPc, WriterPc, CompactPc, nodeVars, callVars, localVars, CallPhase,
                 Running
  <2> QED
    BY <1>1, <1>2, <2>1, <2>2, <2>3, PhaseStep
<1> QED
  BY <1>3, <1>4, <1>5, <1>6 DEF TypeOK

\* SET NX of the leader key keeps the types.
LEMMA SetLeaderNXType ==
  ASSUME TypeOK, NEW p \in Proc, SetLeaderNX(p)
  PROVE  TypeOK'
<1>1. p \in Proc /\ Home(p) \in Node
  BY HomeType DEF SetLeaderNX, TypeOK, PhaseOK, LoopPhase, CallPhase, Proc, Running,
         Home
<1>2. /\ pc' \in [Proc -> LoopPc \cup ElectPc \cup CallPc]
      /\ pc'[p] \in {"eSet", "eReread"}
      /\ \A q \in Proc \ {p} : pc'[q] = pc[q]
  BY <1>1, GotoType DEF SetLeaderNX, LoopPc, ElectPc, CallPc, WriterPc, CompactPc
<1>3. NodeTypeOK' /\ LocalTypeOK' /\ AuxTypeOK'
  BY <1>1 DEF SetLeaderNX, TypeOK, NodeTypeOK, LocalTypeOK, AuxTypeOK, redisVars,
         nodeVars, callVars, localVars, auxVars
<1>4. RedisTypeOK'
  BY <1>1 DEF SetLeaderNX, TypeOK, RedisTypeOK, redisVars, nodeVars, callVars,
         localVars, auxVars, PhaseOK, LoopPhase, CallPhase, Electing, Proc
<1>5. TaskTypeOK'
  BY <1>2 DEF SetLeaderNX, TypeOK, TaskTypeOK, callVars
<1>6. PhaseOK'
  <2>1. /\ \A q \in Proc \ {p} : pick'[q] = pick[q]
        /\ \A n \in Node \ {p} : polls'[n] = polls[n]
        /\ host' = host
    BY <1>1, <1>2 DEF SetLeaderNX, TypeOK, LocalTypeOK, nodeVars, callVars, localVars
  <2>2. p \in Node => LoopPhase(p)'
    BY <1>2 DEF SetLeaderNX, TypeOK, PhaseOK, LocalTypeOK, Electing, LoopPc, ElectPc,
           CallPc, WriterPc, CompactPc, nodeVars, callVars, localVars, LoopPhase
  <2>3. p \in Req => CallPhase(p)'
    BY <1>1, <1>2, <2>1
       DEF SetLeaderNX, TypeOK, PhaseOK, LocalTypeOK, Electing, LoopPc, ElectPc,
              CallPc, WriterPc, CompactPc, nodeVars, callVars, localVars, CallPhase,
                 Running
  <2> QED
    BY <1>1, <1>2, <2>1, <2>2, <2>3, PhaseStep
<1> QED
  BY <1>3, <1>4, <1>5, <1>6 DEF TypeOK

\* Reading the leader key again after a lost SET NX keeps the types.
LEMMA RereadLeaderType ==
  ASSUME TypeOK, NEW p \in Proc, RereadLeader(p)
  PROVE  TypeOK'
<1>1. p \in Proc /\ Home(p) \in Node
  BY HomeType DEF RereadLeader, TypeOK, PhaseOK, LoopPhase, CallPhase, Proc, Running,
         Home
<1>2. /\ pc' \in [Proc -> LoopPc \cup ElectPc \cup CallPc]
      /\ pc'[p] \in {"eSet"}
      /\ \A q \in Proc \ {p} : pc'[q] = pc[q]
  BY <1>1, GotoType DEF RereadLeader, LoopPc, ElectPc, CallPc, WriterPc, CompactPc
<1>3. RedisTypeOK' /\ NodeTypeOK' /\ AuxTypeOK'
  BY <1>1 DEF RereadLeader, TypeOK, RedisTypeOK, NodeTypeOK, AuxTypeOK, redisVars,
         nodeVars, callVars, localVars, auxVars
<1>4. LocalTypeOK'
  BY <1>1 DEF RereadLeader, TypeOK, LocalTypeOK, redisVars, nodeVars, callVars,
         localVars, auxVars, RedisTypeOK
<1>5. TaskTypeOK'
  BY <1>2 DEF RereadLeader, TypeOK, TaskTypeOK, callVars
<1>6. PhaseOK'
  <2>1. /\ \A q \in Proc \ {p} : pick'[q] = pick[q]
        /\ \A n \in Node \ {p} : polls'[n] = polls[n]
        /\ host' = host
    BY <1>1, <1>2 DEF RereadLeader, TypeOK, LocalTypeOK, nodeVars, callVars, localVars
  <2>2. p \in Node => LoopPhase(p)'
    BY <1>2 DEF RereadLeader, TypeOK, PhaseOK, LocalTypeOK, Electing, LoopPc, ElectPc,
           CallPc, WriterPc, CompactPc, nodeVars, callVars, localVars, RedisTypeOK,
              LoopPhase
  <2>3. p \in Req => CallPhase(p)'
    BY <1>1, <1>2, <2>1
       DEF RereadLeader, TypeOK, PhaseOK, LocalTypeOK, Electing, LoopPc, ElectPc,
              CallPc, WriterPc, CompactPc, nodeVars, callVars, localVars, RedisTypeOK,
                 CallPhase, Running
  <2> QED
    BY <1>1, <1>2, <2>1, <2>2, <2>3, PhaseStep
<1> QED
  BY <1>3, <1>4, <1>5, <1>6 DEF TypeOK

\* The end of an election keeps the types.
LEMMA SetTermType ==
  ASSUME TypeOK, NEW p \in Proc, SetTerm(p)
  PROVE  TypeOK'
<1>1. p \in Proc /\ Home(p) \in Node
  BY HomeType DEF SetTerm, TypeOK, PhaseOK, LoopPhase, CallPhase, Proc, Running, Home
<1>2. pick[p] \in Node /\ Return(p, pick[p])
  BY <1>1 DEF SetTerm, TypeOK, LocalTypeOK, PhaseOK, LoopPhase, CallPhase, Electing,
         Proc
<1>3. /\ pc' \in [Proc -> LoopPc \cup ElectPc \cup CallPc]
      /\ \A q \in Proc \ {p} : pc'[q] = pc[q]
      /\ polls' \in [Node -> Nat]
      /\ \A n \in Node \ {p} : polls'[n] = polls[n]
      /\ result' \in [Req -> Status]
      /\ p \in Node => /\ pc'[p] \in {"eReg", "poll", "obsLen"}
                       /\ pc'[p] # "eReg" => polls'[p] > 0
      /\ p \in Req => pc'[p] \in {"rGuard", "done"}
  BY <1>2, <1>1, ReturnEffect
<1>4. LocalTypeOK' /\ AuxTypeOK'
  BY <1>1 DEF SetTerm, TypeOK, LocalTypeOK, AuxTypeOK, redisVars, nodeVars, callVars,
         localVars, auxVars
<1>5. RedisTypeOK'
  BY <1>1 DEF SetTerm, TypeOK, RedisTypeOK, redisVars, nodeVars, callVars, localVars,
         auxVars, LocalTypeOK
<1>6. NodeTypeOK'
  BY <1>1, <1>3 DEF SetTerm, TypeOK, NodeTypeOK, redisVars, nodeVars, callVars,
         localVars, auxVars, RedisTypeOK, LocalTypeOK
<1>7. TaskTypeOK'
  BY <1>3 DEF SetTerm, TypeOK, TaskTypeOK, callVars
<1>8. PhaseOK'
  <2>1. /\ \A q \in Proc \ {p} : pick'[q] = pick[q]
        /\ \A n \in Node \ {p} : polls'[n] = polls[n]
        /\ host' = host
    BY <1>1, <1>3 DEF SetTerm, TypeOK, LocalTypeOK, nodeVars, callVars, localVars
  <2>2. p \in Node => LoopPhase(p)'
    BY <1>3 DEF SetTerm, TypeOK, PhaseOK, LocalTypeOK, Electing, LoopPc, ElectPc,
           CallPc, WriterPc, CompactPc, nodeVars, callVars, localVars, LoopPhase
  <2>3. p \in Req => CallPhase(p)'
    BY <1>1, <1>3, <2>1
       DEF SetTerm, TypeOK, PhaseOK, LocalTypeOK, Electing, LoopPc, ElectPc, CallPc,
              WriterPc, CompactPc, nodeVars, callVars, localVars, CallPhase, Running
  <2> QED
    BY <1>1, <1>3, <2>1, <2>2, <2>3, PhaseStep
<1> QED
  BY <1>4, <1>5, <1>6, <1>7, <1>8 DEF TypeOK

\* trigger_election keeps the types.
LEMMA TriggerType ==
  ASSUME TypeOK, NEW p \in Proc, Trigger(p)
  PROVE  TypeOK'
<1>1. p \in Proc /\ Home(p) \in Node
  BY HomeType DEF Trigger, TypeOK, PhaseOK, LoopPhase, CallPhase, Proc, Running, Home
<1>2. /\ pc' \in [Proc -> LoopPc \cup ElectPc \cup CallPc]
      /\ pc'[p] \in {"eReg"}
      /\ \A q \in Proc \ {p} : pc'[q] = pc[q]
  BY <1>1, GotoType DEF Trigger, LoopPc, ElectPc, CallPc, WriterPc, CompactPc
<1>3. RedisTypeOK' /\ NodeTypeOK' /\ LocalTypeOK' /\ AuxTypeOK'
  BY <1>1 DEF Trigger, TypeOK, RedisTypeOK, NodeTypeOK, LocalTypeOK, AuxTypeOK,
         redisVars, nodeVars, callVars, localVars, auxVars
<1>4. TaskTypeOK'
  BY <1>2 DEF Trigger, TypeOK, TaskTypeOK, callVars
<1>5. PhaseOK'
  <2>1. /\ \A q \in Proc \ {p} : pick'[q] = pick[q]
        /\ \A n \in Node \ {p} : polls'[n] = polls[n]
        /\ host' = host
    BY <1>1, <1>2 DEF Trigger, TypeOK, LocalTypeOK, nodeVars, callVars, localVars
  <2>2. p \in Node => LoopPhase(p)'
    BY <1>2 DEF Trigger, TypeOK, PhaseOK, LocalTypeOK, Electing, LoopPc, ElectPc,
           CallPc, WriterPc, CompactPc, nodeVars, callVars, localVars, LoopPhase
  <2>3. p \in Req => CallPhase(p)'
    BY <1>1, <1>2, <2>1
       DEF Trigger, TypeOK, PhaseOK, LocalTypeOK, Electing, LoopPc, ElectPc, CallPc,
              WriterPc, CompactPc, nodeVars, callVars, localVars, CallPhase, Running
  <2> QED
    BY <1>1, <1>2, <2>1, <2>2, <2>3, PhaseStep
<1> QED
  BY <1>3, <1>4, <1>5 DEF TypeOK

\* An election at the coarser grain keeps the types.
LEMMA ElectAtOnceType ==
  ASSUME TypeOK, NEW p \in Proc, ElectAtOnce(p)
  PROVE  TypeOK'
<1>1. p \in Proc /\ Home(p) \in Node
  BY HomeType DEF ElectAtOnce, TypeOK, PhaseOK, LoopPhase, CallPhase, Proc, Running,
         Home
<1>2. PICK m \in Node :
        /\ leaderKey' = m
        /\ termKey' = IF leaderKey \in active' THEN termKey ELSE Bump(termKey)
        /\ curTerm' = [curTerm EXCEPT ![Home(p)] = termKey']
        /\ isLeader' = [isLeader EXCEPT ![Home(p)] = (m = Home(p))]
        /\ Return(p, m)
  BY DEF ElectAtOnce
<1>3. /\ pc' \in [Proc -> LoopPc \cup ElectPc \cup CallPc]
      /\ \A q \in Proc \ {p} : pc'[q] = pc[q]
      /\ polls' \in [Node -> Nat]
      /\ \A n \in Node \ {p} : polls'[n] = polls[n]
      /\ result' \in [Req -> Status]
      /\ p \in Node => /\ pc'[p] \in {"eReg", "poll", "obsLen"}
                       /\ pc'[p] # "eReg" => polls'[p] > 0
      /\ p \in Req => pc'[p] \in {"rGuard", "done"}
  BY <1>2, <1>1, ReturnEffect
<1>4. RedisTypeOK' /\ NodeTypeOK'
  <2>1. termKey \in Nat /\ termKey' \in Nat
    BY <1>2, BoundsAssumption DEF TypeOK, RedisTypeOK, Bump
  <2>2. active' \subseteq Node
    BY <1>1 DEF ElectAtOnce, TypeOK, RedisTypeOK
  <2>3. RedisTypeOK'
    BY <1>2, <2>1, <2>2 DEF ElectAtOnce, TypeOK, RedisTypeOK
  <2>4. NodeTypeOK'
    BY <1>2, <1>1, <1>3, <2>1 DEF TypeOK, NodeTypeOK
  <2> QED
    BY <2>3, <2>4
<1>5. LocalTypeOK' /\ AuxTypeOK'
  BY <1>1 DEF ElectAtOnce, TypeOK, LocalTypeOK, AuxTypeOK, redisVars, nodeVars,
         callVars, localVars, auxVars
<1>6. TaskTypeOK'
  BY <1>3 DEF ElectAtOnce, TypeOK, TaskTypeOK, callVars
<1>7. PhaseOK'
  <2>1. /\ \A q \in Proc \ {p} : pick'[q] = pick[q]
        /\ \A n \in Node \ {p} : polls'[n] = polls[n]
        /\ host' = host
    BY <1>1, <1>3 DEF ElectAtOnce, TypeOK, LocalTypeOK, nodeVars, callVars, localVars
  <2>2. p \in Node => LoopPhase(p)'
    BY <1>3 DEF ElectAtOnce, TypeOK, PhaseOK, LocalTypeOK, Electing, LoopPc, ElectPc,
           CallPc, WriterPc, CompactPc, nodeVars, callVars, localVars, LoopPhase
  <2>3. p \in Req => CallPhase(p)'
    BY <1>1, <1>3, <2>1
       DEF ElectAtOnce, TypeOK, PhaseOK, LocalTypeOK, Electing, LoopPc, ElectPc,
              CallPc, WriterPc, CompactPc, nodeVars, callVars, localVars, CallPhase,
                 Running
  <2> QED
    BY <1>1, <1>3, <2>1, <2>2, <2>3, PhaseStep
<1> QED
  BY <1>4, <1>5, <1>6, <1>7 DEF TypeOK

\* The leader's heartbeat keeps the types.
LEMMA HeartbeatType ==
  ASSUME TypeOK, NEW p \in Node, Heartbeat(p)
  PROVE  TypeOK'
<1>1. p \in Proc /\ Home(p) \in Node
  BY HomeType DEF Heartbeat, TypeOK, PhaseOK, LoopPhase, CallPhase, Proc, Running, Home
<1>2. /\ pc' \in [Proc -> LoopPc \cup ElectPc \cup CallPc]
      /\ pc'[p] \in {"eReg", "poll"}
      /\ \A q \in Proc \ {p} : pc'[q] = pc[q]
      /\ polls' \in [Node -> Nat]
      /\ \A n \in Node \ {p} : polls'[n] = polls[n]
      /\ pc'[p] = "poll" => polls'[p] > 0
  BY EndPollEffect DEF Heartbeat, TypeOK, PhaseOK, LoopPhase
<1>3. RedisTypeOK' /\ LocalTypeOK' /\ AuxTypeOK'
  BY <1>1 DEF Heartbeat, TypeOK, RedisTypeOK, LocalTypeOK, AuxTypeOK, redisVars,
         nodeVars, callVars, localVars, auxVars
<1>4. NodeTypeOK'
  BY <1>1, <1>2 DEF Heartbeat, TypeOK, NodeTypeOK, redisVars, nodeVars, callVars,
         localVars, auxVars
<1>5. TaskTypeOK'
  BY <1>2 DEF Heartbeat, TypeOK, TaskTypeOK, callVars
<1>6. PhaseOK'
  <2>1. /\ \A q \in Proc \ {p} : pick'[q] = pick[q]
        /\ \A n \in Node \ {p} : polls'[n] = polls[n]
        /\ host' = host
    BY <1>1, <1>2 DEF Heartbeat, TypeOK, LocalTypeOK, nodeVars, callVars, localVars
  <2>2. p \in Node => LoopPhase(p)'
    BY <1>2 DEF Heartbeat, TypeOK, PhaseOK, LocalTypeOK, Electing, LoopPc, ElectPc,
           CallPc, WriterPc, CompactPc, nodeVars, callVars, localVars, LoopPhase
  <2>3. p \notin Req
    BY ReqAssumption
  <2> QED
    BY <1>1, <1>2, <2>1, <2>2, <2>3, PhaseStep
<1> QED
  BY <1>3, <1>4, <1>5, <1>6 DEF TypeOK

\* A follower's look at the heartbeat keeps the types.
LEMMA CheckHeartbeatType ==
  ASSUME TypeOK, NEW p \in Node, CheckHeartbeat(p)
  PROVE  TypeOK'
<1>1. p \in Proc /\ Home(p) \in Node
  BY HomeType DEF CheckHeartbeat, TypeOK, PhaseOK, LoopPhase, CallPhase, Proc, Running,
         Home
<1>2. /\ pc' \in [Proc -> LoopPc \cup ElectPc \cup CallPc]
      /\ pc'[p] \in {"obsLen", "trig"}
      /\ \A q \in Proc \ {p} : pc'[q] = pc[q]
  BY <1>1, GotoType DEF CheckHeartbeat, LoopPc, ElectPc, CallPc, WriterPc, CompactPc
<1>3. RedisTypeOK' /\ NodeTypeOK' /\ LocalTypeOK' /\ AuxTypeOK'
  BY <1>1 DEF CheckHeartbeat, TypeOK, RedisTypeOK, NodeTypeOK, LocalTypeOK, AuxTypeOK,
         redisVars, nodeVars, callVars, localVars, auxVars
<1>4. TaskTypeOK'
  BY <1>2 DEF CheckHeartbeat, TypeOK, TaskTypeOK, callVars
<1>5. PhaseOK'
  <2>1. /\ \A q \in Proc \ {p} : pick'[q] = pick[q]
        /\ \A n \in Node \ {p} : polls'[n] = polls[n]
        /\ host' = host
    BY <1>1, <1>2 DEF CheckHeartbeat, TypeOK, LocalTypeOK, nodeVars, callVars, localVars
  <2>2. p \in Node => LoopPhase(p)'
    BY <1>2 DEF CheckHeartbeat, TypeOK, PhaseOK, LocalTypeOK, Electing, LoopPc,
           ElectPc, CallPc, WriterPc, CompactPc, nodeVars, callVars, localVars,
              LoopPhase
  <2>3. p \notin Req
    BY ReqAssumption
  <2> QED
    BY <1>1, <1>2, <2>1, <2>2, <2>3, PhaseStep
<1> QED
  BY <1>3, <1>4, <1>5 DEF TypeOK

\* The observer's read of the log length keeps the types.
LEMMA ObserveLengthType ==
  ASSUME TypeOK, NEW p \in Node, ObserveLength(p)
  PROVE  TypeOK'
<1>1. p \in Proc /\ Home(p) \in Node
  BY HomeType DEF ObserveLength, TypeOK, PhaseOK, LoopPhase, CallPhase, Proc, Running,
         Home
<1>2. /\ pc' \in [Proc -> LoopPc \cup ElectPc \cup CallPc]
      /\ pc'[p] \in {"obsCommit"}
      /\ \A q \in Proc \ {p} : pc'[q] = pc[q]
  BY <1>1, GotoType DEF ObserveLength, LoopPc, ElectPc, CallPc, WriterPc, CompactPc
<1>3. RedisTypeOK' /\ NodeTypeOK' /\ AuxTypeOK'
  BY <1>1 DEF ObserveLength, TypeOK, RedisTypeOK, NodeTypeOK, AuxTypeOK, redisVars,
         nodeVars, callVars, localVars, auxVars
<1>4. LocalTypeOK'
  BY <1>1 DEF ObserveLength, TypeOK, LocalTypeOK, redisVars, nodeVars, callVars,
         localVars, auxVars, RedisTypeOK
<1>5. TaskTypeOK'
  BY <1>2 DEF ObserveLength, TypeOK, TaskTypeOK, callVars
<1>6. PhaseOK'
  <2>1. /\ \A q \in Proc \ {p} : pick'[q] = pick[q]
        /\ \A n \in Node \ {p} : polls'[n] = polls[n]
        /\ host' = host
    BY <1>1, <1>2 DEF ObserveLength, TypeOK, LocalTypeOK, nodeVars, callVars, localVars
  <2>2. p \in Node => LoopPhase(p)'
    BY <1>2 DEF ObserveLength, TypeOK, PhaseOK, LocalTypeOK, Electing, LoopPc, ElectPc,
           CallPc, WriterPc, CompactPc, nodeVars, callVars, localVars, LoopPhase
  <2>3. p \notin Req
    BY ReqAssumption
  <2> QED
    BY <1>1, <1>2, <2>1, <2>2, <2>3, PhaseStep
<1> QED
  BY <1>3, <1>4, <1>5, <1>6 DEF TypeOK

\* The observer's read of the commit index keeps the types.
LEMMA ObserveCommitType ==
  ASSUME TypeOK, NEW p \in Node, ObserveCommit(p)
  PROVE  TypeOK'
<1>1. p \in Proc /\ Home(p) \in Node
  BY HomeType DEF ObserveCommit, TypeOK, PhaseOK, LoopPhase, CallPhase, Proc, Running,
         Home
<1>2. /\ pc' \in [Proc -> LoopPc \cup ElectPc \cup CallPc]
      /\ pc'[p] \in {"eReg", "poll", "obsAck"}
      /\ \A q \in Proc \ {p} : pc'[q] = pc[q]
      /\ polls' \in [Node -> Nat]
      /\ \A n \in Node \ {p} : polls'[n] = polls[n]
      /\ pc'[p] # "eReg" => polls'[p] > 0
  <2>1. polls[p] > 0 /\ "obsAck" \in LoopPc \cup ElectPc \cup CallPc
    BY DEF ObserveCommit, TypeOK, PhaseOK, LoopPhase, LoopPc
  <2>2. CASE Goto(p, "obsAck") /\ UNCHANGED polls
    BY <1>1, <2>1, <2>2, GotoType DEF TypeOK, NodeTypeOK
  <2>3. CASE EndPoll(p)
    BY <2>1, <2>3, EndPollEffect
  <2> QED
    BY <2>2, <2>3 DEF ObserveCommit
<1>3. RedisTypeOK' /\ AuxTypeOK'
  BY <1>1 DEF ObserveCommit, TypeOK, RedisTypeOK, AuxTypeOK, redisVars, nodeVars,
         callVars, localVars, auxVars
<1>4. NodeTypeOK'
  BY <1>1, <1>2 DEF ObserveCommit, TypeOK, NodeTypeOK, redisVars, nodeVars, callVars,
         localVars, auxVars
<1>5. LocalTypeOK'
  BY <1>1 DEF ObserveCommit, TypeOK, LocalTypeOK, redisVars, nodeVars, callVars,
         localVars, auxVars, RedisTypeOK
<1>6. TaskTypeOK'
  BY <1>2 DEF ObserveCommit, TypeOK, TaskTypeOK, callVars
<1>7. PhaseOK'
  <2>1. /\ \A q \in Proc \ {p} : pick'[q] = pick[q]
        /\ \A n \in Node \ {p} : polls'[n] = polls[n]
        /\ host' = host
    BY <1>1, <1>2 DEF ObserveCommit, TypeOK, LocalTypeOK, nodeVars, callVars, localVars
  <2>2. p \in Node => LoopPhase(p)'
    BY <1>2 DEF ObserveCommit, TypeOK, PhaseOK, LocalTypeOK, Electing, LoopPc, ElectPc,
           CallPc, WriterPc, CompactPc, nodeVars, callVars, localVars, LoopPhase
  <2>3. p \notin Req
    BY ReqAssumption
  <2> QED
    BY <1>1, <1>2, <2>1, <2>2, <2>3, PhaseStep
<1> QED
  BY <1>3, <1>4, <1>5, <1>6, <1>7 DEF TypeOK

\* The observer's acknowledgement keeps the types.
LEMMA ObserveAckType ==
  ASSUME TypeOK, NEW p \in Node, ObserveAck(p)
  PROVE  TypeOK'
<1>1. p \in Proc /\ Home(p) \in Node
  BY HomeType DEF ObserveAck, TypeOK, PhaseOK, LoopPhase, CallPhase, Proc, Running, Home
<1>2. /\ pc' \in [Proc -> LoopPc \cup ElectPc \cup CallPc]
      /\ pc'[p] \in {"eReg", "poll"}
      /\ \A q \in Proc \ {p} : pc'[q] = pc[q]
      /\ polls' \in [Node -> Nat]
      /\ \A n \in Node \ {p} : polls'[n] = polls[n]
      /\ pc'[p] = "poll" => polls'[p] > 0
  BY EndPollEffect DEF ObserveAck, TypeOK, PhaseOK, LoopPhase
<1>3. <<idx[p], p>> \in Nat \X Node /\ idx[p] \in Nat
  BY <1>1 DEF TypeOK, LocalTypeOK
<1>4. LocalTypeOK' /\ AuxTypeOK'
  BY <1>1 DEF ObserveAck, TypeOK, LocalTypeOK, AuxTypeOK, redisVars, nodeVars,
         callVars, localVars, auxVars
<1>5. RedisTypeOK'
  BY <1>1, <1>3 DEF ObserveAck, TypeOK, RedisTypeOK, redisVars, nodeVars, callVars,
         localVars, auxVars
<1>6. NodeTypeOK'
  BY <1>1, <1>2 DEF ObserveAck, TypeOK, NodeTypeOK, redisVars, nodeVars, callVars,
         localVars, auxVars
<1>7. TaskTypeOK'
  BY <1>2 DEF ObserveAck, TypeOK, TaskTypeOK, callVars
<1>8. PhaseOK'
  <2>1. /\ \A q \in Proc \ {p} : pick'[q] = pick[q]
        /\ \A n \in Node \ {p} : polls'[n] = polls[n]
        /\ host' = host
    BY <1>1, <1>2 DEF ObserveAck, TypeOK, LocalTypeOK, nodeVars, callVars, localVars
  <2>2. p \in Node => LoopPhase(p)'
    BY <1>2 DEF ObserveAck, TypeOK, PhaseOK, LocalTypeOK, Electing, LoopPc, ElectPc,
           CallPc, WriterPc, CompactPc, nodeVars, callVars, localVars, LoopPhase
  <2>3. p \notin Req
    BY ReqAssumption
  <2> QED
    BY <1>1, <1>2, <2>1, <2>2, <2>3, PhaseStep
<1> QED
  BY <1>4, <1>5, <1>6, <1>7, <1>8 DEF TypeOK

\* The leadership guard of replicate_log keeps the types.
LEMMA GuardLeaderType ==
  ASSUME TypeOK, NEW p \in Req, GuardLeader(p)
  PROVE  TypeOK'
<1>1. p \in Proc /\ Home(p) \in Node
  BY HomeType DEF GuardLeader, TypeOK, PhaseOK, LoopPhase, CallPhase, Proc, Running,
         Home
<1>2. /\ pc' \in [Proc -> LoopPc \cup ElectPc \cup CallPc]
      /\ pc'[p] \in {"rNodes", "done"}
      /\ \A q \in Proc \ {p} : pc'[q] = pc[q]
  BY <1>1, GotoType DEF GuardLeader, LoopPc, ElectPc, CallPc, WriterPc, CompactPc,
         Finish
<1>3. RedisTypeOK' /\ NodeTypeOK' /\ LocalTypeOK' /\ AuxTypeOK'
  BY <1>1 DEF GuardLeader, TypeOK, RedisTypeOK, NodeTypeOK, LocalTypeOK, AuxTypeOK,
         redisVars, nodeVars, callVars, localVars, auxVars, Finish
<1>4. TaskTypeOK'
  BY <1>2 DEF GuardLeader, TypeOK, TaskTypeOK, callVars, Finish, Status
<1>5. PhaseOK'
  <2>1. /\ \A q \in Proc \ {p} : pick'[q] = pick[q]
        /\ \A n \in Node \ {p} : polls'[n] = polls[n]
        /\ host' = host
    BY <1>1, <1>2 DEF GuardLeader, TypeOK, LocalTypeOK, nodeVars, callVars, localVars,
           Finish
  <2>2. p \notin Node
    BY ReqAssumption
  <2>3. p \in Req => CallPhase(p)'
    BY <1>1, <1>2, <2>1
       DEF GuardLeader, TypeOK, PhaseOK, LocalTypeOK, Electing, LoopPc, ElectPc,
              CallPc, WriterPc, CompactPc, nodeVars, callVars, localVars, Finish,
                 CallPhase, Running
  <2> QED
    BY <1>1, <1>2, <2>1, <2>2, <2>3, PhaseStep
<1> QED
  BY <1>3, <1>4, <1>5 DEF TypeOK

\* Computing the quorum keeps the types.
LEMMA ReadQuorumType ==
  ASSUME TypeOK, NEW p \in Req, ReadQuorum(p)
  PROVE  TypeOK'
<1>1. p \in Proc /\ Home(p) \in Node
  BY HomeType DEF ReadQuorum, TypeOK, PhaseOK, LoopPhase, CallPhase, Proc, Running, Home
<1>2. /\ pc' \in [Proc -> LoopPc \cup ElectPc \cup CallPc]
      /\ pc'[p] \in {"rLen"}
      /\ \A q \in Proc \ {p} : pc'[q] = pc[q]
  BY <1>1, GotoType DEF ReadQuorum, LoopPc, ElectPc, CallPc, WriterPc, CompactPc
<1>3. Cardinality(active \cup {host[p]}) \div 2 + 1 \in Nat
  <2>1. active \cup {host[p]} \subseteq Node
    BY <1>1, ReqAssumption DEF Home, TypeOK, RedisTypeOK
  <2>2. Cardinality(active \cup {host[p]}) \in Nat
    BY <2>1, NodeAssumption, FS_Subset, FS_CardinalityType
  <2> QED
    BY <2>2
<1>4. RedisTypeOK' /\ NodeTypeOK' /\ AuxTypeOK'
  BY <1>1 DEF ReadQuorum, TypeOK, RedisTypeOK, NodeTypeOK, AuxTypeOK, redisVars,
         nodeVars, callVars, localVars, auxVars
<1>5. LocalTypeOK'
  BY <1>1, <1>3 DEF ReadQuorum, TypeOK, LocalTypeOK, redisVars, nodeVars, callVars,
         localVars, auxVars
<1>6. TaskTypeOK'
  BY <1>2 DEF ReadQuorum, TypeOK, TaskTypeOK, callVars
<1>7. PhaseOK'
  <2>1. /\ \A q \in Proc \ {p} : pick'[q] = pick[q]
        /\ \A n \in Node \ {p} : polls'[n] = polls[n]
        /\ host' = host
    BY <1>1, <1>2 DEF ReadQuorum, TypeOK, LocalTypeOK, nodeVars, callVars, localVars
  <2>2. p \notin Node
    BY ReqAssumption
  <2>3. p \in Req => CallPhase(p)'
    BY <1>1, <1>2, <2>1
       DEF ReadQuorum, TypeOK, PhaseOK, LocalTypeOK, Electing, LoopPc, ElectPc, CallPc,
              WriterPc, CompactPc, nodeVars, callVars, localVars, CallPhase, Running
  <2> QED
    BY <1>1, <1>2, <2>1, <2>2, <2>3, PhaseStep
<1> QED
  BY <1>4, <1>5, <1>6, <1>7 DEF TypeOK

\* The writer's read of the log length keeps the types.
LEMMA ReadLengthType ==
  ASSUME TypeOK, NEW p \in Req, ReadLength(p)
  PROVE  TypeOK'
<1>1. p \in Proc /\ Home(p) \in Node
  BY HomeType DEF ReadLength, TypeOK, PhaseOK, LoopPhase, CallPhase, Proc, Running, Home
<1>2. /\ pc' \in [Proc -> LoopPc \cup ElectPc \cup CallPc]
      /\ pc'[p] \in {"rPush"}
      /\ \A q \in Proc \ {p} : pc'[q] = pc[q]
  BY <1>1, GotoType DEF ReadLength, LoopPc, ElectPc, CallPc, WriterPc, CompactPc
<1>3. RedisTypeOK' /\ NodeTypeOK' /\ AuxTypeOK'
  BY <1>1 DEF ReadLength, TypeOK, RedisTypeOK, NodeTypeOK, AuxTypeOK, redisVars,
         nodeVars, callVars, localVars, auxVars
<1>4. LocalTypeOK'
  BY <1>1 DEF ReadLength, TypeOK, LocalTypeOK, redisVars, nodeVars, callVars,
         localVars, auxVars, RedisTypeOK
<1>5. TaskTypeOK'
  BY <1>2 DEF ReadLength, TypeOK, TaskTypeOK, callVars
<1>6. PhaseOK'
  <2>1. /\ \A q \in Proc \ {p} : pick'[q] = pick[q]
        /\ \A n \in Node \ {p} : polls'[n] = polls[n]
        /\ host' = host
    BY <1>1, <1>2 DEF ReadLength, TypeOK, LocalTypeOK, nodeVars, callVars, localVars
  <2>2. p \notin Node
    BY ReqAssumption
  <2>3. p \in Req => CallPhase(p)'
    BY <1>1, <1>2, <2>1
       DEF ReadLength, TypeOK, PhaseOK, LocalTypeOK, Electing, LoopPc, ElectPc, CallPc,
              WriterPc, CompactPc, nodeVars, callVars, localVars, CallPhase, Running
  <2> QED
    BY <1>1, <1>2, <2>1, <2>2, <2>3, PhaseStep
<1> QED
  BY <1>3, <1>4, <1>5, <1>6 DEF TypeOK

\* Pushing an entry keeps the types.
LEMMA PushType ==
  ASSUME TypeOK, NEW p \in Req, Push(p)
  PROVE  TypeOK'
<1>1. p \in Proc /\ Home(p) \in Node
  BY HomeType DEF Push, TypeOK, PhaseOK, LoopPhase, CallPhase, Proc, Running, Home
<1>2. /\ pc' \in [Proc -> LoopPc \cup ElectPc \cup CallPc]
      /\ pc'[p] \in {"rAck"}
      /\ \A q \in Proc \ {p} : pc'[q] = pc[q]
  BY <1>1, GotoType DEF Push, LoopPc, ElectPc, CallPc, WriterPc, CompactPc
<1>3. [req |-> p, idx |-> idx[p], term |-> curTerm[host[p]]] \in Entry
  BY <1>1, ReqAssumption DEF Home, Entry, TypeOK, LocalTypeOK, NodeTypeOK
<1>4. NodeTypeOK' /\ LocalTypeOK' /\ AuxTypeOK'
  BY <1>1 DEF Push, TypeOK, NodeTypeOK, LocalTypeOK, AuxTypeOK, redisVars, nodeVars,
         callVars, localVars, auxVars
<1>5. RedisTypeOK'
  BY <1>1, <1>3 DEF Push, TypeOK, RedisTypeOK, redisVars, nodeVars, callVars,
         localVars, auxVars
<1>6. TaskTypeOK'
  BY <1>2 DEF Push, TypeOK, TaskTypeOK, callVars
<1>7. PhaseOK'
  <2>1. /\ \A q \in Proc \ {p} : pick'[q] = pick[q]
        /\ \A n \in Node \ {p} : polls'[n] = polls[n]
        /\ host' = host
    BY <1>1, <1>2 DEF Push, TypeOK, LocalTypeOK, nodeVars, callVars, localVars
  <2>2. p \notin Node
    BY ReqAssumption
  <2>3. p \in Req => CallPhase(p)'
    BY <1>1, <1>2, <2>1
       DEF Push, TypeOK, PhaseOK, LocalTypeOK, Electing, LoopPc, ElectPc, CallPc,
              WriterPc, CompactPc, nodeVars, callVars, localVars, CallPhase, Running
  <2> QED
    BY <1>1, <1>2, <2>1, <2>2, <2>3, PhaseStep
<1> QED
  BY <1>4, <1>5, <1>6, <1>7 DEF TypeOK

\* The writer's own acknowledgement keeps the types.
LEMMA SelfAckType ==
  ASSUME TypeOK, NEW p \in Req, SelfAck(p)
  PROVE  TypeOK'
<1>1. p \in Proc /\ Home(p) \in Node
  BY HomeType DEF SelfAck, TypeOK, PhaseOK, LoopPhase, CallPhase, Proc, Running, Home
<1>2. /\ pc' \in [Proc -> LoopPc \cup ElectPc \cup CallPc]
      /\ pc'[p] \in {"rCount"}
      /\ \A q \in Proc \ {p} : pc'[q] = pc[q]
  BY <1>1, GotoType DEF SelfAck, LoopPc, ElectPc, CallPc, WriterPc, CompactPc
<1>3. <<idx[p], host[p]>> \in Nat \X Node
  BY <1>1, ReqAssumption DEF Home, TypeOK, LocalTypeOK
<1>4. NodeTypeOK' /\ LocalTypeOK' /\ AuxTypeOK'
  BY <1>1 DEF SelfAck, TypeOK, NodeTypeOK, LocalTypeOK, AuxTypeOK, redisVars, nodeVars,
         callVars, localVars, auxVars
<1>5. RedisTypeOK'
  BY <1>1, <1>3 DEF SelfAck, TypeOK, RedisTypeOK, redisVars, nodeVars, callVars,
         localVars, auxVars
<1>6. TaskTypeOK'
  BY <1>2 DEF SelfAck, TypeOK, TaskTypeOK, callVars
<1>7. PhaseOK'
  <2>1. /\ \A q \in Proc \ {p} : pick'[q] = pick[q]
        /\ \A n \in Node \ {p} : polls'[n] = polls[n]
        /\ host' = host
    BY <1>1, <1>2 DEF SelfAck, TypeOK, LocalTypeOK, nodeVars, callVars, localVars
  <2>2. p \notin Node
    BY ReqAssumption
  <2>3. p \in Req => CallPhase(p)'
    BY <1>1, <1>2, <2>1
       DEF SelfAck, TypeOK, PhaseOK, LocalTypeOK, Electing, LoopPc, ElectPc, CallPc,
              WriterPc, CompactPc, nodeVars, callVars, localVars, CallPhase, Running
  <2> QED
    BY <1>1, <1>2, <2>1, <2>2, <2>3, PhaseStep
<1> QED
  BY <1>4, <1>5, <1>6, <1>7 DEF TypeOK

\* Counting acknowledgements keeps the types.
LEMMA CountAcksType ==
  ASSUME TypeOK, NEW p \in Req, CountAcks(p)
  PROVE  TypeOK'
<1>1. p \in Proc /\ Home(p) \in Node
  BY HomeType DEF CountAcks, TypeOK, PhaseOK, LoopPhase, CallPhase, Proc, Running, Home
<1>2. /\ pc' \in [Proc -> LoopPc \cup ElectPc \cup CallPc]
      /\ pc'[p] \in {"rCommit", "rSleep"}
      /\ \A q \in Proc \ {p} : pc'[q] = pc[q]
  BY <1>1, GotoType DEF CountAcks, LoopPc, ElectPc, CallPc, WriterPc, CompactPc
<1>3. RedisTypeOK' /\ NodeTypeOK' /\ LocalTypeOK' /\ AuxTypeOK'
  BY <1>1 DEF CountAcks, TypeOK, RedisTypeOK, NodeTypeOK, LocalTypeOK, AuxTypeOK,
         redisVars, nodeVars, callVars, localVars, auxVars
<1>4. TaskTypeOK'
  BY <1>2 DEF CountAcks, TypeOK, TaskTypeOK, callVars
<1>5. PhaseOK'
  <2>1. /\ \A q \in Proc \ {p} : pick'[q] = pick[q]
        /\ \A n \in Node \ {p} : polls'[n] = polls[n]
        /\ host' = host
    BY <1>1, <1>2 DEF CountAcks, TypeOK, LocalTypeOK, nodeVars, callVars, localVars
  <2>2. p \notin Node
    BY ReqAssumption
  <2>3. p \in Req => CallPhase(p)'
    BY <1>1, <1>2, <2>1
       DEF CountAcks, TypeOK, PhaseOK, LocalTypeOK, Electing, LoopPc, ElectPc, CallPc,
              WriterPc, CompactPc, nodeVars, callVars, localVars, CallPhase, Running
  <2> QED
    BY <1>1, <1>2, <2>1, <2>2, <2>3, PhaseStep
<1> QED
  BY <1>3, <1>4, <1>5 DEF TypeOK

\* Waiting for more acknowledgements keeps the types.
LEMMA RetryType ==
  ASSUME TypeOK, NEW p \in Req, Retry(p)
  PROVE  TypeOK'
<1>1. p \in Proc /\ Home(p) \in Node
  BY HomeType DEF Retry, TypeOK, PhaseOK, LoopPhase, CallPhase, Proc, Running, Home
<1>2. /\ pc' \in [Proc -> LoopPc \cup ElectPc \cup CallPc]
      /\ pc'[p] \in {"rAck"}
      /\ \A q \in Proc \ {p} : pc'[q] = pc[q]
  BY <1>1, GotoType DEF Retry, LoopPc, ElectPc, CallPc, WriterPc, CompactPc
<1>3. RedisTypeOK' /\ NodeTypeOK' /\ LocalTypeOK' /\ AuxTypeOK'
  BY <1>1 DEF Retry, TypeOK, RedisTypeOK, NodeTypeOK, LocalTypeOK, AuxTypeOK,
         redisVars, nodeVars, callVars, localVars, auxVars
<1>4. TaskTypeOK'
  BY <1>2 DEF Retry, TypeOK, TaskTypeOK, callVars
<1>5. PhaseOK'
  <2>1. /\ \A q \in Proc \ {p} : pick'[q] = pick[q]
        /\ \A n \in Node \ {p} : polls'[n] = polls[n]
        /\ host' = host
    BY <1>1, <1>2 DEF Retry, TypeOK, LocalTypeOK, nodeVars, callVars, localVars
  <2>2. p \notin Node
    BY ReqAssumption
  <2>3. p \in Req => CallPhase(p)'
    BY <1>1, <1>2, <2>1
       DEF Retry, TypeOK, PhaseOK, LocalTypeOK, Electing, LoopPc, ElectPc, CallPc,
              WriterPc, CompactPc, nodeVars, callVars, localVars, CallPhase, Running
  <2> QED
    BY <1>1, <1>2, <2>1, <2>2, <2>3, PhaseStep
<1> QED
  BY <1>3, <1>4, <1>5 DEF TypeOK

\* Giving up on an entry keeps the types.
LEMMA TimeOutType ==
  ASSUME TypeOK, NEW p \in Req, TimeOut(p)
  PROVE  TypeOK'
<1>1. p \in Proc /\ Home(p) \in Node
  BY HomeType DEF TimeOut, TypeOK, PhaseOK, LoopPhase, CallPhase, Proc, Running, Home
<1>2. /\ pc' \in [Proc -> LoopPc \cup ElectPc \cup CallPc]
      /\ pc'[p] \in {"cCommit", "done"}
      /\ \A q \in Proc \ {p} : pc'[q] = pc[q]
      /\ result' \in [Req -> Status]
      /\ quorum' \in [Proc -> Nat]
      /\ idx' \in [Proc -> Nat]
  BY AnswerEffect DEF TimeOut, Status
<1>3. RedisTypeOK' /\ NodeTypeOK' /\ AuxTypeOK'
  BY <1>1 DEF TimeOut, TypeOK, RedisTypeOK, NodeTypeOK, AuxTypeOK, redisVars, nodeVars,
         callVars, localVars, auxVars
<1>4. LocalTypeOK'
  BY <1>1, <1>2 DEF TimeOut, TypeOK, LocalTypeOK, redisVars, nodeVars, callVars,
         localVars, auxVars
<1>5. TaskTypeOK'
  BY <1>2 DEF TimeOut, TypeOK, TaskTypeOK, callVars
<1>6. PhaseOK'
  <2>1. /\ \A q \in Proc \ {p} : pick'[q] = pick[q]
        /\ \A n \in Node \ {p} : polls'[n] = polls[n]
        /\ host' = host
    BY <1>1, <1>2 DEF TimeOut, TypeOK, LocalTypeOK, nodeVars, callVars, localVars
  <2>2. p \notin Node
    BY ReqAssumption
  <2>3. p \in Req => CallPhase(p)'
    BY <1>1, <1>2, <2>1
       DEF TimeOut, TypeOK, PhaseOK, LocalTypeOK, Electing, LoopPc, ElectPc, CallPc,
              WriterPc, CompactPc, nodeVars, callVars, localVars, CallPhase, Running
  <2> QED
    BY <1>1, <1>2, <2>1, <2>2, <2>3, PhaseStep
<1> QED
  BY <1>3, <1>4, <1>5, <1>6 DEF TypeOK

\* Writing the commit index keeps the types.
LEMMA WriteCommitType ==
  ASSUME TypeOK, NEW p \in Req, WriteCommit(p)
  PROVE  TypeOK'
<1>1. p \in Proc /\ Home(p) \in Node
  BY HomeType DEF WriteCommit, TypeOK, PhaseOK, LoopPhase, CallPhase, Proc, Running,
         Home
<1>2. /\ pc' \in [Proc -> LoopPc \cup ElectPc \cup CallPc]
      /\ pc'[p] \in {"cCommit", "done"}
      /\ \A q \in Proc \ {p} : pc'[q] = pc[q]
      /\ result' \in [Req -> Status]
      /\ quorum' \in [Proc -> Nat]
      /\ idx' \in [Proc -> Nat]
  BY AnswerEffect DEF WriteCommit, Status
<1>3. NodeTypeOK' /\ AuxTypeOK'
  BY <1>1 DEF WriteCommit, TypeOK, NodeTypeOK, AuxTypeOK, redisVars, nodeVars,
         callVars, localVars, auxVars
<1>4. RedisTypeOK'
  BY <1>1 DEF WriteCommit, TypeOK, RedisTypeOK, redisVars, nodeVars, callVars,
         localVars, auxVars, LocalTypeOK
<1>5. LocalTypeOK'
  BY <1>1, <1>2 DEF WriteCommit, TypeOK, LocalTypeOK, redisVars, nodeVars, callVars,
         localVars, auxVars
<1>6. TaskTypeOK'
  BY <1>2 DEF WriteCommit, TypeOK, TaskTypeOK, callVars
<1>7. PhaseOK'
  <2>1. /\ \A q \in Proc \ {p} : pick'[q] = pick[q]
        /\ \A n \in Node \ {p} : polls'[n] = polls[n]
        /\ host' = host
    BY <1>1, <1>2 DEF WriteCommit, TypeOK, LocalTypeOK, nodeVars, callVars, localVars
  <2>2. p \notin Node
    BY ReqAssumption
  <2>3. p \in Req => CallPhase(p)'
    BY <1>1, <1>2, <2>1
       DEF WriteCommit, TypeOK, PhaseOK, LocalTypeOK, Electing, LoopPc, ElectPc,
              CallPc, WriterPc, CompactPc, nodeVars, callVars, localVars, CallPhase,
                 Running
  <2> QED
    BY <1>1, <1>2, <2>1, <2>2, <2>3, PhaseStep
<1> QED
  BY <1>3, <1>4, <1>5, <1>6, <1>7 DEF TypeOK

\* take_snapshot's read of the log length keeps the types.
LEMMA SnapshotLengthType ==
  ASSUME TypeOK, NEW p \in Req, SnapshotLength(p)
  PROVE  TypeOK'
<1>1. p \in Proc /\ Home(p) \in Node
  BY HomeType DEF SnapshotLength, TypeOK, PhaseOK, LoopPhase, CallPhase, Proc, Running,
         Home
<1>2. /\ pc' \in [Proc -> LoopPc \cup ElectPc \cup CallPc]
      /\ pc'[p] \in {"cCommit"}
      /\ \A q \in Proc \ {p} : pc'[q] = pc[q]
  BY <1>1, GotoType DEF SnapshotLength, LoopPc, ElectPc, CallPc, WriterPc, CompactPc
<1>3. RedisTypeOK' /\ NodeTypeOK' /\ AuxTypeOK'
  BY <1>1 DEF SnapshotLength, TypeOK, RedisTypeOK, NodeTypeOK, AuxTypeOK, redisVars,
         nodeVars, callVars, localVars, auxVars
<1>4. LocalTypeOK'
  BY <1>1 DEF SnapshotLength, TypeOK, LocalTypeOK, redisVars, nodeVars, callVars,
         localVars, auxVars, RedisTypeOK
<1>5. TaskTypeOK'
  BY <1>2 DEF SnapshotLength, TypeOK, TaskTypeOK, callVars
<1>6. PhaseOK'
  <2>1. /\ \A q \in Proc \ {p} : pick'[q] = pick[q]
        /\ \A n \in Node \ {p} : polls'[n] = polls[n]
        /\ host' = host
    BY <1>1, <1>2 DEF SnapshotLength, TypeOK, LocalTypeOK, nodeVars, callVars, localVars
  <2>2. p \notin Node
    BY ReqAssumption
  <2>3. p \in Req => CallPhase(p)'
    BY <1>1, <1>2, <2>1
       DEF SnapshotLength, TypeOK, PhaseOK, LocalTypeOK, Electing, LoopPc, ElectPc,
              CallPc, WriterPc, CompactPc, nodeVars, callVars, localVars, CallPhase,
                 Running
  <2> QED
    BY <1>1, <1>2, <2>1, <2>2, <2>3, PhaseStep
<1> QED
  BY <1>3, <1>4, <1>5, <1>6 DEF TypeOK

\* _compact_log's read of the commit index keeps the types.
LEMMA ReadCommitType ==
  ASSUME TypeOK, NEW p \in Req, ReadCommit(p)
  PROVE  TypeOK'
<1>1. p \in Proc /\ Home(p) \in Node
  BY HomeType DEF ReadCommit, TypeOK, PhaseOK, LoopPhase, CallPhase, Proc, Running, Home
<1>2. /\ pc' \in [Proc -> LoopPc \cup ElectPc \cup CallPc]
      /\ pc'[p] \in {"cRange", "sStop", "done"}
      /\ \A q \in Proc \ {p} : pc'[q] = pc[q]
  BY <1>1, GotoType DEF ReadCommit, LoopPc, ElectPc, CallPc, WriterPc, CompactPc,
         AfterCompaction
<1>3. RedisTypeOK' /\ NodeTypeOK' /\ AuxTypeOK'
  BY <1>1 DEF ReadCommit, TypeOK, RedisTypeOK, NodeTypeOK, AuxTypeOK, redisVars,
         nodeVars, callVars, localVars, auxVars, AfterCompaction
<1>4. LocalTypeOK'
  BY <1>1 DEF ReadCommit, TypeOK, LocalTypeOK, redisVars, nodeVars, callVars,
         localVars, auxVars, AfterCompaction, RedisTypeOK, SafeIndex, Smaller
<1>5. TaskTypeOK'
  BY <1>2 DEF ReadCommit, TypeOK, TaskTypeOK, callVars, AfterCompaction
<1>6. PhaseOK'
  <2>1. /\ \A q \in Proc \ {p} : pick'[q] = pick[q]
        /\ \A n \in Node \ {p} : polls'[n] = polls[n]
        /\ host' = host
    BY <1>1, <1>2 DEF ReadCommit, TypeOK, LocalTypeOK, nodeVars, callVars, localVars,
           AfterCompaction
  <2>2. p \notin Node
    BY ReqAssumption
  <2>3. p \in Req => CallPhase(p)'
    BY <1>1, <1>2, <2>1
       DEF ReadCommit, TypeOK, PhaseOK, LocalTypeOK, Electing, LoopPc, ElectPc, CallPc,
              WriterPc, CompactPc, nodeVars, callVars, localVars, AfterCompaction,
                 CallPhase, Running
  <2> QED
    BY <1>1, <1>2, <2>1, <2>2, <2>3, PhaseStep
<1> QED
  BY <1>3, <1>4, <1>5, <1>6 DEF TypeOK

\* _compact_log's read of the entries keeps the types.
LEMMA ReadRangeType ==
  ASSUME TypeOK, NEW p \in Req, ReadRange(p)
  PROVE  TypeOK'
<1>1. p \in Proc /\ Home(p) \in Node
  BY HomeType DEF ReadRange, TypeOK, PhaseOK, LoopPhase, CallPhase, Proc, Running, Home
<1>2. /\ pc' \in [Proc -> LoopPc \cup ElectPc \cup CallPc]
      /\ pc'[p] \in {"cSnap"}
      /\ \A q \in Proc \ {p} : pc'[q] = pc[q]
  BY <1>1, GotoType DEF ReadRange, LoopPc, ElectPc, CallPc, WriterPc, CompactPc
<1>3. RedisTypeOK' /\ NodeTypeOK' /\ AuxTypeOK'
  BY <1>1 DEF ReadRange, TypeOK, RedisTypeOK, NodeTypeOK, AuxTypeOK, redisVars,
         nodeVars, callVars, localVars, auxVars
<1>4. LocalTypeOK'
  BY <1>1 DEF ReadRange, TypeOK, LocalTypeOK, redisVars, nodeVars, callVars, localVars,
         auxVars, RedisTypeOK, Smaller
<1>5. TaskTypeOK'
  BY <1>2 DEF ReadRange, TypeOK, TaskTypeOK, callVars
<1>6. PhaseOK'
  <2>1. /\ \A q \in Proc \ {p} : pick'[q] = pick[q]
        /\ \A n \in Node \ {p} : polls'[n] = polls[n]
        /\ host' = host
    BY <1>1, <1>2 DEF ReadRange, TypeOK, LocalTypeOK, nodeVars, callVars, localVars
  <2>2. p \notin Node
    BY ReqAssumption
  <2>3. p \in Req => CallPhase(p)'
    BY <1>1, <1>2, <2>1
       DEF ReadRange, TypeOK, PhaseOK, LocalTypeOK, Electing, LoopPc, ElectPc, CallPc,
              WriterPc, CompactPc, nodeVars, callVars, localVars, CallPhase, Running
  <2> QED
    BY <1>1, <1>2, <2>1, <2>2, <2>3, PhaseStep
<1> QED
  BY <1>3, <1>4, <1>5, <1>6 DEF TypeOK

\* Storing the snapshot keeps the types.
LEMMA WriteSnapshotType ==
  ASSUME TypeOK, NEW p \in Req, WriteSnapshot(p)
  PROVE  TypeOK'
<1>1. p \in Proc /\ Home(p) \in Node
  BY HomeType DEF WriteSnapshot, TypeOK, PhaseOK, LoopPhase, CallPhase, Proc, Running,
         Home
<1>2. /\ pc' \in [Proc -> LoopPc \cup ElectPc \cup CallPc]
      /\ pc'[p] \in {"cTrim"}
      /\ \A q \in Proc \ {p} : pc'[q] = pc[q]
  BY <1>1, GotoType DEF WriteSnapshot, LoopPc, ElectPc, CallPc, WriterPc, CompactPc
<1>3. snap' \in [term : Nat, upto : Nat, entries : Seq(Entry)]
  <2>1. chunk[p] \in Seq(Entry) /\ idx[p] \in Nat /\ curTerm[host[p]] \in Nat
    BY <1>1, ReqAssumption DEF Home, TypeOK, LocalTypeOK, NodeTypeOK
  <2>2. chunk[p] # <<>> => chunk[p][Len(chunk[p])] \in Entry
    BY <2>1
  <2>3. chunk[p] # <<>> => chunk[p][Len(chunk[p])].term \in Nat
    BY <2>2 DEF Entry
  <2> QED
    BY <2>1, <2>3 DEF WriteSnapshot
<1>4. NodeTypeOK' /\ LocalTypeOK' /\ AuxTypeOK'
  BY <1>1 DEF WriteSnapshot, TypeOK, NodeTypeOK, LocalTypeOK, AuxTypeOK, redisVars,
         nodeVars, callVars, localVars, auxVars
<1>5. RedisTypeOK'
  BY <1>1, <1>3 DEF WriteSnapshot, TypeOK, RedisTypeOK, redisVars, nodeVars, callVars,
         localVars, auxVars
<1>6. TaskTypeOK'
  BY <1>2 DEF WriteSnapshot, TypeOK, TaskTypeOK, callVars
<1>7. PhaseOK'
  <2>1. /\ \A q \in Proc \ {p} : pick'[q] = pick[q]
        /\ \A n \in Node \ {p} : polls'[n] = polls[n]
        /\ host' = host
    BY <1>1, <1>2 DEF WriteSnapshot, TypeOK, LocalTypeOK, nodeVars, callVars, localVars
  <2>2. p \notin Node
    BY ReqAssumption
  <2>3. p \in Req => CallPhase(p)'
    BY <1>1, <1>2, <2>1
       DEF WriteSnapshot, TypeOK, PhaseOK, LocalTypeOK, Electing, LoopPc, ElectPc,
              CallPc, WriterPc, CompactPc, nodeVars, callVars, localVars, CallPhase,
                 Running
  <2> QED
    BY <1>1, <1>2, <2>1, <2>2, <2>3, PhaseStep
<1> QED
  BY <1>4, <1>5, <1>6, <1>7 DEF TypeOK

\* Trimming the log keeps the types.
LEMMA TrimLogType ==
  ASSUME TypeOK, NEW p \in Req, TrimLog(p)
  PROVE  TypeOK'
<1>1. p \in Proc /\ Home(p) \in Node
  BY HomeType DEF TrimLog, TypeOK, PhaseOK, LoopPhase, CallPhase, Proc, Running, Home
<1>2. /\ pc' \in [Proc -> LoopPc \cup ElectPc \cup CallPc]
      /\ pc'[p] \in {"sStop", "done"}
      /\ \A q \in Proc \ {p} : pc'[q] = pc[q]
  BY <1>1, GotoType DEF TrimLog, LoopPc, ElectPc, CallPc, WriterPc, CompactPc,
         AfterCompaction
<1>3. NodeTypeOK' /\ LocalTypeOK' /\ AuxTypeOK'
  BY <1>1 DEF TrimLog, TypeOK, NodeTypeOK, LocalTypeOK, AuxTypeOK, redisVars, nodeVars,
         callVars, localVars, auxVars, AfterCompaction
<1>4. RedisTypeOK'
  BY <1>1 DEF TrimLog, TypeOK, RedisTypeOK, redisVars, nodeVars, callVars, localVars,
         auxVars, AfterCompaction, LocalTypeOK
<1>5. TaskTypeOK'
  BY <1>2 DEF TrimLog, TypeOK, TaskTypeOK, callVars, AfterCompaction
<1>6. PhaseOK'
  <2>1. /\ \A q \in Proc \ {p} : pick'[q] = pick[q]
        /\ \A n \in Node \ {p} : polls'[n] = polls[n]
        /\ host' = host
    BY <1>1, <1>2 DEF TrimLog, TypeOK, LocalTypeOK, nodeVars, callVars, localVars,
           AfterCompaction
  <2>2. p \notin Node
    BY ReqAssumption
  <2>3. p \in Req => CallPhase(p)'
    BY <1>1, <1>2, <2>1
       DEF TrimLog, TypeOK, PhaseOK, LocalTypeOK, Electing, LoopPc, ElectPc, CallPc,
              WriterPc, CompactPc, nodeVars, callVars, localVars, AfterCompaction,
                 CallPhase, Running
  <2> QED
    BY <1>1, <1>2, <2>1, <2>2, <2>3, PhaseStep
<1> QED
  BY <1>3, <1>4, <1>5, <1>6 DEF TypeOK

\* A failed command of the loop keeps the types.
LEMMA LoopFailsType ==
  ASSUME TypeOK, NEW p \in Node, LoopFails(p)
  PROVE  TypeOK'
<1>1. p \in Proc /\ Home(p) \in Node
  BY HomeType DEF LoopFails, TypeOK, PhaseOK, LoopPhase, CallPhase, Proc, Running,
         Home, Up
<1>2. /\ pc' \in [Proc -> LoopPc \cup ElectPc \cup CallPc]
      /\ pc'[p] \in {"eReg"}
      /\ \A q \in Proc \ {p} : pc'[q] = pc[q]
  BY <1>1, GotoType DEF LoopFails, LoopPc, ElectPc, CallPc, WriterPc, CompactPc,
         ClearLocals
<1>3. RedisTypeOK' /\ NodeTypeOK' /\ LocalTypeOK' /\ AuxTypeOK'
  BY <1>1 DEF LoopFails, TypeOK, RedisTypeOK, NodeTypeOK, LocalTypeOK, AuxTypeOK,
         redisVars, nodeVars, callVars, localVars, auxVars, ClearLocals
<1>4. TaskTypeOK'
  BY <1>2 DEF LoopFails, TypeOK, TaskTypeOK, callVars, ClearLocals
<1>5. PhaseOK'
  <2>1. /\ \A q \in Proc \ {p} : pick'[q] = pick[q]
        /\ \A n \in Node \ {p} : polls'[n] = polls[n]
        /\ host' = host
    BY <1>1, <1>2 DEF LoopFails, TypeOK, LocalTypeOK, nodeVars, callVars, localVars,
           ClearLocals
  <2>2. p \in Node => LoopPhase(p)'
    BY <1>2 DEF LoopFails, TypeOK, PhaseOK, LocalTypeOK, Electing, LoopPc, ElectPc,
           CallPc, WriterPc, CompactPc, nodeVars, callVars, localVars, ClearLocals,
              LoopPhase
  <2>3. p \notin Req
    BY ReqAssumption
  <2> QED
    BY <1>1, <1>2, <2>1, <2>2, <2>3, PhaseStep
<1> QED
  BY <1>3, <1>4, <1>5 DEF TypeOK

\* A failed command of a call keeps the types.
LEMMA CallFailsType ==
  ASSUME TypeOK, NEW p \in Req, CallFails(p)
  PROVE  TypeOK'
<1>1. p \in Proc /\ Home(p) \in Node
  BY HomeType DEF CallFails, TypeOK, PhaseOK, LoopPhase, CallPhase, Proc, Running, Home
<1>2. /\ pc' \in [Proc -> LoopPc \cup ElectPc \cup CallPc]
      /\ pc'[p] \in {"sStop", "done"}
      /\ \A q \in Proc \ {p} : pc'[q] = pc[q]
  BY <1>1, GotoType DEF CallFails, LoopPc, ElectPc, CallPc, WriterPc, CompactPc,
         ClearLocals, Finish, AfterCompaction
<1>3. RedisTypeOK' /\ NodeTypeOK' /\ LocalTypeOK' /\ AuxTypeOK'
  BY <1>1 DEF CallFails, TypeOK, RedisTypeOK, NodeTypeOK, LocalTypeOK, AuxTypeOK,
         redisVars, nodeVars, callVars, localVars, auxVars, ClearLocals, Finish,
            AfterCompaction
<1>4. TaskTypeOK'
  BY <1>2 DEF CallFails, TypeOK, TaskTypeOK, callVars, ClearLocals, Finish,
         AfterCompaction, Status
<1>5. PhaseOK'
  <2>1. /\ \A q \in Proc \ {p} : pick'[q] = pick[q]
        /\ \A n \in Node \ {p} : polls'[n] = polls[n]
        /\ host' = host
    BY <1>1, <1>2 DEF CallFails, TypeOK, LocalTypeOK, nodeVars, callVars, localVars,
           ClearLocals, Finish, AfterCompaction
  <2>2. p \notin Node
    BY ReqAssumption
  <2>3. p \in Req => CallPhase(p)'
    BY <1>1, <1>2, <2>1
       DEF CallFails, TypeOK, PhaseOK, LocalTypeOK, Electing, LoopPc, ElectPc, CallPc,
              WriterPc, CompactPc, nodeVars, callVars, localVars, ClearLocals, Finish,
                 AfterCompaction, CallPhase, Running
  <2> QED
    BY <1>1, <1>2, <2>1, <2>2, <2>3, PhaseStep
<1> QED
  BY <1>3, <1>4, <1>5 DEF TypeOK

\* The loss of a process, however it comes, keeps the types.
LEMMA DieType ==
  ASSUME TypeOK, NEW n \in Node, Die(n), faults' \in Nat
  PROVE  TypeOK'
<1> DEFINE dead == {n} \cup {r \in Req : host[r] = n /\ Running(r)}
<1>1. dead \subseteq Proc
  BY DEF Proc
<1>2. RedisTypeOK'
  BY DEF Die, redisVars, TypeOK, RedisTypeOK
<1>3. NodeTypeOK'
  BY DEF Die, TypeOK, NodeTypeOK
<1>4. pc' = [p \in Proc |-> IF p \notin dead THEN pc[p] ELSE IF p = n THEN "down" ELSE "done"]
  BY DEF Die
<1>5. pc' \in [Proc -> LoopPc \cup ElectPc \cup CallPc]
  BY <1>4 DEF TypeOK, TaskTypeOK, LoopPc, CallPc
<1>6. TaskTypeOK'
  <2>1. result' \in [Req -> Status]
    BY DEF Die, TypeOK, TaskTypeOK, Status
  <2> QED
    BY <1>5, <2>1 DEF Die, TypeOK, TaskTypeOK
<1>7. LocalTypeOK'
  <2> USE DEF Die, TypeOK, LocalTypeOK
  <2>1. seen' \in [Proc -> SUBSET Node]
    OBVIOUS
  <2>2. pick' \in [Proc -> Node \cup {NoNode}]
    OBVIOUS
  <2>3. newTerm' \in [Proc -> Nat] /\ quorum' \in [Proc -> Nat] /\ idx' \in [Proc -> Nat]
    OBVIOUS
  <2>4. <<>> \in Seq(Entry)
    OBVIOUS
  <2>5. chunk' \in [Proc -> Seq(Entry)]
    BY <2>4
  <2> QED
    BY <2>1, <2>2, <2>3, <2>5
<1>8. AuxTypeOK'
  BY DEF Die, TypeOK, AuxTypeOK
<1>9. PhaseOK'
  <2>1. ASSUME NEW m \in Node PROVE LoopPhase(m)'
    <3>1. m \in dead <=> m = n
      BY ReqAssumption
    <3>2. CASE m = n
      BY <1>4, <3>1, <3>2 DEF LoopPhase, Electing, LoopPc, Proc
    <3>3. CASE m # n
      <4>1. pc'[m] = pc[m] /\ pick'[m] = pick[m] /\ polls'[m] = polls[m]
        BY <1>4, <3>1, <3>3, m \in Proc DEF Die, TypeOK, NodeTypeOK, Proc
      <4> QED
        BY <4>1 DEF TypeOK, PhaseOK, LoopPhase, Electing
    <3> QED
      BY <3>2, <3>3
  <2>2. ASSUME NEW r \in Req PROVE CallPhase(r)'
    <3>1. r # n /\ r \in Proc
      BY ReqAssumption DEF Proc
    <3>2. CASE r \in dead
      BY <1>4, <3>1, <3>2 DEF CallPhase, Electing, Running, CallPc
    <3>3. CASE r \notin dead
      <4>1. pc'[r] = pc[r] /\ pick'[r] = pick[r] /\ host'[r] = host[r]
        BY <1>4, <3>1, <3>3 DEF Die
      <4> QED
        BY <4>1 DEF TypeOK, PhaseOK, CallPhase, Electing, Running
    <3> QED
      BY <3>2, <3>3
  <2> QED
    BY <2>1, <2>2 DEF PhaseOK
<1> QED
  BY <1>2, <1>3, <1>6, <1>7, <1>8, <1>9 DEF TypeOK

\* A new client call keeps the types.
LEMMA InvokeType ==
  ASSUME TypeOK, NEW r \in Req, NEW n \in Node, NEW k \in Kinds, Invoke(r, n, k)
  PROVE  TypeOK'
<1>1. r \in Proc /\ r \notin Node
  BY ReqAssumption DEF Proc
<1>2. /\ pc' \in [Proc -> LoopPc \cup ElectPc \cup CallPc]
      /\ pc'[r] \in {"trig", "sLen", "eReg"}
      /\ \A q \in Proc \ {r} : pc'[q] = pc[q]
  BY <1>1, GotoType DEF Invoke, EntryPc, ElectPc, CallPc, CompactPc
<1>3. RedisTypeOK' /\ LocalTypeOK' /\ AuxTypeOK'
  BY DEF Invoke, TypeOK, RedisTypeOK, LocalTypeOK, AuxTypeOK, redisVars, localVars, auxVars
<1>4. NodeTypeOK'
  BY DEF Invoke, TypeOK, NodeTypeOK
<1>5. TaskTypeOK'
  BY <1>2 DEF Invoke, TypeOK, TaskTypeOK
<1>6. PhaseOK'
  <2>1. /\ pick' = pick /\ polls' = polls
        /\ host'[r] \in Node
        /\ \A s \in Req \ {r} : host'[s] = host[s]
    BY DEF Invoke, localVars, TypeOK, TaskTypeOK
  <2>2. CallPhase(r)'
    BY <1>2, <2>1 DEF CallPhase, Electing, ElectPc, CallPc, CompactPc
  <2> QED
    BY <1>1, <1>2, <2>1, <2>2, PhaseStep
<1> QED
  BY <1>3, <1>4, <1>5, <1>6 DEF TypeOK

\* What time does (TTLs, ageing timestamps) keeps the types.
LEMMA TimeType ==
  ASSUME TypeOK,
         \/ LeaderKeyExpires
         \/ HeartbeatAges
         \/ \E n \in Node : NodeAges(n)
         \/ \E i \in ackTTL : AckSetExpires(i)
  PROVE  TypeOK'
<1>1. RedisTypeOK'
  BY DEF LeaderKeyExpires, HeartbeatAges, NodeAges, AckSetExpires, TypeOK, RedisTypeOK
<1>2. AuxTypeOK'
  BY DEF LeaderKeyExpires, HeartbeatAges, NodeAges, AckSetExpires, TypeOK, AuxTypeOK, auxVars
<1>3. UNCHANGED <<nodeVars, pc, callVars, localVars>>
  BY DEF LeaderKeyExpires, HeartbeatAges, NodeAges, AckSetExpires
<1>4. NodeTypeOK' /\ TaskTypeOK' /\ LocalTypeOK'
  BY <1>3 DEF TypeOK, NodeTypeOK, TaskTypeOK, LocalTypeOK, nodeVars, callVars, localVars
<1>5. PhaseOK'
  BY <1>3 DEF TypeOK, PhaseOK, LoopPhase, CallPhase, Electing, Running, nodeVars, callVars,
              localVars
<1> QED
  BY <1>1, <1>2, <1>4, <1>5 DEF TypeOK

\* Every step keeps the types.
LEMMA NextTypeOK == TypeOK /\ [Next]_vars => TypeOK'
<1> SUFFICES ASSUME TypeOK, [Next]_vars PROVE TypeOK'
  OBVIOUS
<1>1. ASSUME NEW p \in Proc, Elect(p) PROVE TypeOK'
  BY <1>1, RegisterType, ElectAtOnceType, ReadNodesType, ReadTermType,
     ReadLeaderStableType, ReadLeaderNoneType, SetLeaderNXType, RereadLeaderType,
     SetTermType, TriggerType DEF Elect
<1>2. ASSUME NEW n \in Node, Loop(n) PROVE TypeOK'
  BY <1>1, <1>2, RestoreType, HeartbeatType, CheckHeartbeatType, ObserveLengthType,
     ObserveCommitType, ObserveAckType DEF Loop, Proc
<1>3. ASSUME NEW r \in Req, Replicate(r) PROVE TypeOK'
  BY <1>3, GuardLeaderType, ReadQuorumType, ReadLengthType, PushType, SelfAckType,
     CountAcksType, RetryType, TimeOutType, WriteCommitType DEF Replicate
<1>4. ASSUME NEW r \in Req, Compact(r) PROVE TypeOK'
  BY <1>4, SnapshotLengthType, ReadCommitType, ReadRangeType, WriteSnapshotType,
     TrimLogType DEF Compact
<1>5. ASSUME NEW r \in Req, Stop(r) PROVE TypeOK'
  <2>1. host[r] \in Node /\ faults' \in Nat
    BY <1>5 DEF Stop, TypeOK, PhaseOK, CallPhase, Running, AuxTypeOK
  <2> QED
    BY <1>5, <2>1, DieType DEF Stop
<1>6. ASSUME NEW r \in Req, Call(r) \/ CallFails(r) PROVE TypeOK'
  BY <1>1, <1>3, <1>4, <1>5, <1>6, CallFailsType DEF Call, Proc
<1>7. ASSUME NEW n \in Node, Crash(n) PROVE TypeOK'
  <2>1. faults' \in Nat
    BY <1>7 DEF Crash, TypeOK, AuxTypeOK
  <2> QED
    BY <1>7, <2>1, DieType DEF Crash
<1>8. CASE UNCHANGED vars
  BY <1>8 DEF vars, redisVars, nodeVars, callVars, localVars, auxVars, TypeOK, RedisTypeOK,
              NodeTypeOK, TaskTypeOK, LocalTypeOK, AuxTypeOK, PhaseOK, LoopPhase,
              CallPhase, Electing, Running
<1> QED
  BY <1>2, <1>6, <1>7, <1>8, StartType, LoopFailsType, InvokeType, TimeType DEF Next

\* Every reachable state is well typed, and what a task's next command says of
\* the rest of its state is so: a loop that is polling has polls left, a call
\* under way has a node, an election about to write has picked one.
THEOREM TypeCorrect == Spec => []TypeOK
<1> QED
  BY InitTypeOK, NextTypeOK, PTL DEF Spec

-----------------------------------------------------------------------------
(* Leadership                                                              *)

\* What task p relies on: a writer, and a call about to ask for leadership of
\* the log, that its node holds the leader key; an election that lost SET NX,
\* that some node does; an election about to report its pick, that the pick does.
LeaseTask(p) ==
  /\ p \in Req /\ pc[p] \in WriterPc \cup {"rGuard"} => leaderKey = host[p]
  /\ pc[p] = "eReread" => leaderKey # NoNode
  /\ pc[p] = "eSet" => leaderKey = pick[p]

LeaderHolds == \A n \in Node : isLeader[n] => leaderKey = n

\* The inductive strengthening of LeaseExclusive.
LeaseInv == ~lapsed => LeaderHolds /\ \A p \in Proc : LeaseTask(p)

\* A step of task p that leaves the leader key alone, and sets is_leader only on
\* the holder, keeps the invariant if p itself may rely on what it relies on.
LEMMA LeaseStep ==
  ASSUME LeaseInv, NEW p \in Proc, ~lapsed,
         leaderKey' = leaderKey,
         \A n \in Node : isLeader'[n] => isLeader[n] \/ leaderKey = n,
         \A q \in Proc \ {p} : pc'[q] = pc[q] /\ pick'[q] = pick[q],
         \A r \in Req \ {p} : host'[r] = host[r],
         LeaseTask(p)'
  PROVE  LeaseInv'
<1>1. LeaderHolds'
  BY DEF LeaseInv, LeaderHolds
<1>2. ASSUME NEW q \in Proc PROVE LeaseTask(q)'
  <2>1. CASE q = p
    BY <2>1
  <2>2. CASE q # p
    BY <2>2 DEF LeaseInv, LeaseTask
  <2> QED
    BY <2>1, <2>2
<1> QED
  BY <1>1, <1>2 DEF LeaseInv

\* Without a holder nobody leads, writes, or is about to: task p may make
\* node m the holder if its own next command is consistent with that.
LEMMA LeaseTaken ==
  ASSUME TypeOK, LeaseInv, NEW p \in Proc, NEW m \in Node, ~lapsed,
         leaderKey = NoNode, leaderKey' = m,
         \A n \in Node : isLeader'[n] => isLeader[n] \/ m = n,
         \A q \in Proc \ {p} : pc'[q] = pc[q] /\ pick'[q] = pick[q],
         \A r \in Req \ {p} : host'[r] = host[r],
         LeaseTask(p)'
  PROVE  LeaseInv'
<1>1. LeaderHolds'
  BY NodeAssumption DEF LeaseInv, LeaderHolds
<1>2. ASSUME NEW q \in Proc PROVE LeaseTask(q)'
  <2>1. CASE q = p
    BY <2>1
  <2>2. CASE q # p
    <3>1. pc[q] # "eReread"
      BY DEF LeaseInv, LeaseTask
    <3>2. pc[q] # "eSet"
      BY NodeAssumption DEF LeaseInv, LeaseTask, TypeOK, PhaseOK, LoopPhase, CallPhase,
                            Electing, Proc
    <3>3. q \in Req => pc[q] \notin WriterPc \cup {"rGuard"}
      BY NodeAssumption DEF LeaseInv, LeaseTask, TypeOK, PhaseOK, CallPhase, Running,
                            WriterPc
    <3> QED
      BY <2>2, <3>1, <3>2, <3>3 DEF LeaseTask
  <2> QED
    BY <2>1, <2>2
<1> QED
  BY <1>1, <1>2 DEF LeaseInv

\* An election at either grain keeps the invariant.
LEMMA ElectLease ==
  ASSUME TypeOK, TypeOK', LeaseInv, NEW p \in Proc, Elect(p)
  PROVE  LeaseInv'
<1> SUFFICES ASSUME ~lapsed' PROVE LeaseInv'
  BY DEF LeaseInv
<1> USE DEF TypeOK, TaskTypeOK, NodeTypeOK, LocalTypeOK, callVars, localVars, nodeVars,
            redisVars, auxVars, Goto, LeaseTask, WriterPc
<1>1. CASE Register(p)
  BY <1>1, LeaseStep DEF Register
<1>2. CASE ReadNodes(p)
  BY <1>2, LeaseStep DEF ReadNodes
<1>3. CASE ReadTerm(p)
  BY <1>3, LeaseStep DEF ReadTerm
<1>4. CASE ReadLeaderNone(p)
  BY <1>4, LeaseStep DEF ReadLeaderNone
<1>5. CASE RereadLeader(p)
  BY <1>5, LeaseStep DEF RereadLeader, LeaseInv
<1>6. CASE SetLeaderNX(p)
  <2>1. pick[p] \in Node
    BY <1>6 DEF SetLeaderNX, PhaseOK, LoopPhase, CallPhase, Electing, Proc
  <2>2. CASE leaderKey = NoNode
    BY <1>6, <2>1, <2>2, LeaseTaken DEF SetLeaderNX
  <2>3. CASE leaderKey # NoNode
    BY <1>6, <2>3, LeaseStep DEF SetLeaderNX
  <2> QED
    BY <2>2, <2>3
<1>7. ASSUME NEW m \in Node, Return(p, m), leaderKey' = m, host' = host
      PROVE  LeaseTask(p)'
  BY <1>7, ReturnEffect, ReqAssumption DEF Proc
<1>8. ASSUME NEW m \in Node, Return(p, m)
      PROVE  \A q \in Proc \ {p} : pc'[q] = pc[q]
  BY <1>8, ReturnEffect
<1>9. CASE ReadLeaderStable(p)
  <2>1. leaderKey \in Node /\ Return(p, leaderKey)
    BY <1>9 DEF ReadLeaderStable
  <2>2. \A n \in Node : isLeader'[n] => isLeader[n] \/ leaderKey = n
    BY <1>9 DEF ReadLeaderStable
  <2> QED
    BY <1>7, <1>8, <1>9, <2>1, <2>2, LeaseStep DEF ReadLeaderStable
<1>10. CASE SetTerm(p)
  <2>1. pick[p] \in Node /\ Return(p, pick[p]) /\ leaderKey = pick[p] /\ ~lapsed
    BY <1>10 DEF SetTerm, PhaseOK, LoopPhase, CallPhase, Electing, Proc, LeaseInv
  <2>2. \A n \in Node : isLeader'[n] => isLeader[n] \/ leaderKey = n
    BY <1>10, <2>1 DEF SetTerm
  <2>3. leaderKey' = leaderKey /\ host' = host
    BY <1>10 DEF SetTerm
  <2>4. \A q \in Proc \ {p} : pick'[q] = pick[q]
    BY <1>10 DEF SetTerm
  <2> QED
    BY <1>7, <1>8, <2>1, <2>2, <2>3, <2>4, LeaseStep
<1>11. CASE Trigger(p)
  BY <1>11, LeaseStep DEF Trigger
<1>12. CASE ElectAtOnce(p)
  <2>1. PICK m \in Node : /\ IF leaderKey = NoNode THEN Least(m, active') ELSE m = leaderKey
                          /\ leaderKey' = m
                          /\ isLeader' = [isLeader EXCEPT ![Home(p)] = (m = Home(p))]
                          /\ Return(p, m)
    BY <1>12 DEF ElectAtOnce
  <2>2. \A n \in Node : isLeader'[n] => isLeader[n] \/ m = n
    BY <2>1
  <2>3. host' = host /\ pick' = pick /\ ~lapsed
    BY <1>12 DEF ElectAtOnce
  <2>4. LeaseTask(p)' /\ \A q \in Proc \ {p} : pc'[q] = pc[q]
    BY <1>7, <1>8, <2>1, <2>3
  <2>5. CASE leaderKey = NoNode
    BY <2>1, <2>2, <2>3, <2>4, <2>5, LeaseTaken
  <2>6. CASE leaderKey # NoNode
    BY <2>1, <2>2, <2>3, <2>4, <2>6, LeaseStep
  <2> QED
    BY <2>5, <2>6
<1> QED
  BY <1>1, <1>2, <1>3, <1>4, <1>5, <1>6, <1>9, <1>10, <1>11, <1>12 DEF Elect

\* The rest of the loop takes part in no election and sets no is_leader.
LEMMA LoopLease ==
  ASSUME TypeOK, TypeOK', LeaseInv, NEW n \in Node, Start(n) \/ Loop(n) \/ LoopFails(n)
  PROVE  LeaseInv'
<1> SUFFICES ASSUME ~lapsed' PROVE LeaseInv'
  BY DEF LeaseInv
<1>1. n \in Proc /\ n \notin Req
  BY ReqAssumption DEF Proc
<1>2. CASE Elect(n)
  BY <1>1, <1>2, ElectLease
<1>3. CASE ~Elect(n)
  <2>1. /\ leaderKey' = leaderKey /\ isLeader' = isLeader /\ host' = host /\ lapsed' = lapsed
        /\ \A q \in Proc \ {n} : pick'[q] = pick[q]
    BY <1>3 DEF Start, Loop, LoopFails, Restore, Heartbeat, CheckHeartbeat, ObserveLength,
                ObserveCommit, ObserveAck, ClearLocals, redisVars, nodeVars, callVars,
                localVars, auxVars, TypeOK, LocalTypeOK
  <2>2. /\ \A q \in Proc \ {n} : pc'[q] = pc[q]
        /\ pc'[n] \notin {"eReread", "eSet"}
    BY <1>1, <1>3 DEF Start, Loop, LoopFails, Restore, Heartbeat, CheckHeartbeat, ObserveLength,
                ObserveCommit, ObserveAck, EndPoll, Goto, TypeOK, TaskTypeOK
  <2> QED
    BY <1>1, <2>1, <2>2, LeaseStep DEF LeaseTask
<1> QED
  BY <1>2, <1>3

\* Calls past the election keep the invariant: the guard of replicate_log sets
\* is_leader on the holder of the key, and no writer is let in otherwise.
LEMMA CallLease ==
  ASSUME TypeOK, TypeOK', LeaseInv, NEW r \in Req,
         Replicate(r) \/ Compact(r) \/ CallFails(r)
  PROVE  LeaseInv'
<1> SUFFICES ASSUME ~lapsed' PROVE LeaseInv'
  BY DEF LeaseInv
<1>1. r \in Proc /\ r \notin Node
  BY ReqAssumption DEF Proc
<1>2. /\ leaderKey' = leaderKey /\ host' = host /\ lapsed' = lapsed
      /\ \A q \in Proc \ {r} : pick'[q] = pick[q]
  BY DEF Replicate, GuardLeader, ReadQuorum, ReadLength, Push, SelfAck, CountAcks, Retry,
         TimeOut, WriteCommit, Compact, SnapshotLength, ReadCommit, ReadRange, WriteSnapshot,
         TrimLog, CallFails, ClearLocals, redisVars, callVars, localVars, auxVars, TypeOK,
         LocalTypeOK
<1>3. /\ \A q \in Proc \ {r} : pc'[q] = pc[q]
      /\ pc'[r] \notin {"eReread", "eSet"}
      /\ pc'[r] \in WriterPc \cup {"rGuard"} => pc[r] \in WriterPc \cup {"rGuard"}
  BY <1>1 DEF Replicate, GuardLeader, ReadQuorum, ReadLength, Push, SelfAck, CountAcks, Retry,
         TimeOut, WriteCommit, Answer, Compact, SnapshotLength, ReadCommit, ReadRange,
         WriteSnapshot, TrimLog, CallFails, Finish, AfterCompaction, Goto, WriterPc, TypeOK,
         TaskTypeOK
<1>4. \A n \in Node : isLeader'[n] => isLeader[n] \/ leaderKey = n
  <2>1. CASE GuardLeader(r)
    <3>1. leaderKey = host[r]
      BY <1>1, <1>2, <2>1 DEF GuardLeader, LeaseInv, LeaseTask
    <3> QED
      BY <2>1, <3>1 DEF GuardLeader, TypeOK, NodeTypeOK
  <2>2. CASE ~GuardLeader(r)
    BY <2>2 DEF Replicate, ReadQuorum, ReadLength, Push, SelfAck, CountAcks, Retry,
         TimeOut, WriteCommit, Compact, SnapshotLength, ReadCommit, ReadRange, WriteSnapshot,
         TrimLog, CallFails, nodeVars
  <2> QED
    BY <2>1, <2>2
<1> QED
  BY <1>1, <1>2, <1>3, <1>4, LeaseStep DEF LeaseInv, LeaseTask

\* The loss of a process keeps the invariant: the key stays where it is.
LEMMA DieLease ==
  ASSUME TypeOK, LeaseInv, NEW n \in Node, Die(n)
  PROVE  LeaseInv'
<1> SUFFICES ASSUME ~lapsed' PROVE LeaseInv'
  BY DEF LeaseInv
<1>1. leaderKey' = leaderKey /\ host' = host /\ lapsed' = lapsed
  BY DEF Die, redisVars
<1>2. LeaderHolds'
  BY <1>1 DEF Die, LeaseInv, LeaderHolds, TypeOK, NodeTypeOK
<1>3. ASSUME NEW q \in Proc PROVE LeaseTask(q)'
  <2>1. \/ pc'[q] \in {"down", "done"}
        \/ pc'[q] = pc[q] /\ pick'[q] = pick[q]
    BY DEF Die
  <2> QED
    BY <1>1, <2>1 DEF LeaseInv, LeaseTask, WriterPc
<1> QED
  BY <1>2, <1>3 DEF LeaseInv

\* Every step keeps the invariant.
LEMMA NextLeaseInv == TypeOK /\ TypeOK' /\ LeaseInv /\ [Next]_vars => LeaseInv'
<1> SUFFICES ASSUME TypeOK, TypeOK', LeaseInv, [Next]_vars PROVE LeaseInv'
  OBVIOUS
<1>1. ASSUME NEW n \in Node, Start(n) \/ Loop(n) \/ LoopFails(n) PROVE LeaseInv'
  BY <1>1, LoopLease
<1>2. ASSUME NEW n \in Node, Crash(n) PROVE LeaseInv'
  BY <1>2, DieLease DEF Crash
<1>3. ASSUME NEW r \in Req, Call(r) \/ CallFails(r) PROVE LeaseInv'
  <2>1. CASE Elect(r)
    BY <2>1, ElectLease DEF Proc
  <2>2. CASE Stop(r)
    <3>1. host[r] \in Node
      BY <2>2 DEF Stop, TypeOK, PhaseOK, CallPhase, Running
    <3> QED
      BY <2>2, <3>1, DieLease DEF Stop
  <2> QED
    BY <1>3, <2>1, <2>2, CallLease DEF Call
<1>4. ASSUME NEW r \in Req, NEW n \in Node, NEW k \in Kinds, Invoke(r, n, k)
      PROVE  LeaseInv'
  <2>1. r \in Proc /\ leaderKey' = leaderKey /\ lapsed' = lapsed /\ pick' = pick
    BY <1>4 DEF Invoke, redisVars, auxVars, localVars, Proc
  <2>2. \A m \in Node : isLeader'[m] => isLeader[m]
    BY <1>4 DEF Invoke, TypeOK, NodeTypeOK
  <2>3. \A s \in Req \ {r} : host'[s] = host[s]
    BY <1>4 DEF Invoke, TypeOK, TaskTypeOK
  <2>4. pc'[r] \in {"trig", "sLen", "eReg"} /\ \A q \in Proc \ {r} : pc'[q] = pc[q]
    BY <1>4, <2>1 DEF Invoke, Goto, EntryPc, TypeOK, TaskTypeOK
  <2>5. LeaseTask(r)'
    BY <2>4 DEF LeaseTask, WriterPc
  <2> QED
    BY <2>1, <2>2, <2>3, <2>4, <2>5, LeaseStep DEF LeaseInv
<1>5. CASE LeaderKeyExpires
  BY <1>5 DEF LeaderKeyExpires, LeaseInv
<1>6. CASE \/ HeartbeatAges \/ UNCHANGED vars
           \/ \E n \in Node : NodeAges(n)
           \/ \E i \in ackTTL : AckSetExpires(i)
  <2>1. UNCHANGED <<leaderKey, isLeader, lapsed, pc, host, pick>>
    BY <1>6 DEF HeartbeatAges, NodeAges, AckSetExpires, vars, redisVars, nodeVars, auxVars,
                callVars, localVars
  <2> QED
    BY <2>1 DEF LeaseInv, LeaderHolds, LeaseTask
<1> QED
  BY <1>1, <1>2, <1>3, <1>4, <1>5, <1>6 DEF Next

\* For any number of nodes and calls and whatever the interleaving of their
\* commands: until a leader key expires or is deleted, a node whose is_leader is
\* set, and a node past the guard of replicate_log, holds the leader key.
THEOREM LeadershipExclusive == Spec => []LeaseExclusive
<1>1. Init => LeaseInv
  BY DEF Init, LeaseInv, LeaderHolds, LeaseTask, WriterPc
<1>2. LeaseInv => LeaseExclusive
  BY DEF LeaseInv, LeaderHolds, LeaseTask, LeaseExclusive, Proc
<1> QED
  BY <1>1, <1>2, NextLeaseInv, TypeCorrect, PTL DEF Spec

-----------------------------------------------------------------------------
(* The log                                                                 *)

\* What task p relies on until a compaction: a length it has read, and an index
\* it acknowledges or commits, are still within the log.
LogTask(p) ==
  /\ pc[p] \in {"obsCommit", "rPush"} => idx[p] <= Len(log)
  /\ pc[p] \in {"obsAck", "rAck", "rCount", "rSleep", "rCommit"} => idx[p] < Len(log)
  /\ pc[p] # "cTrim"

\* The inductive strengthening of LogBacked.
LogInv ==
  snapshots = 0 => /\ commit < Len(log)
                   /\ \A a \in acks : a[1] < Len(log)
                   /\ \A p \in Proc : LogTask(p)

\* A step of task p that does not shorten the log, and acknowledges and commits
\* only what is in it, keeps the invariant if p's own next command does.
LEMMA LogStep ==
  ASSUME TypeOK, TypeOK', LogInv, NEW p \in Proc, snapshots = 0,
         Len(log') >= Len(log),
         \A q \in Proc \ {p} : pc'[q] = pc[q] /\ idx'[q] = idx[q],
         commit' = commit \/ commit' < Len(log'),
         \A a \in acks' : a \in acks \/ a[1] < Len(log'),
         LogTask(p)'
  PROVE  LogInv'
<1>1. Len(log) \in Nat /\ Len(log') \in Nat
  BY DEF TypeOK, RedisTypeOK
<1>2. commit' < Len(log')
  BY <1>1 DEF LogInv, TypeOK, RedisTypeOK
<1>3. ASSUME NEW a \in acks' PROVE a[1] < Len(log')
  <2>1. a[1] \in Nat
    BY <1>3 DEF TypeOK, RedisTypeOK
  <2> QED
    BY <1>1, <1>3, <2>1 DEF LogInv
<1>4. ASSUME NEW q \in Proc PROVE LogTask(q)'
  <2>1. CASE q = p
    BY <2>1
  <2>2. CASE q # p
    <3>1. idx[q] \in Nat
      BY DEF TypeOK, LocalTypeOK
    <3> QED
      BY <1>1, <2>2, <3>1 DEF LogInv, LogTask
  <2> QED
    BY <2>1, <2>2
<1> QED
  BY <1>2, <1>3, <1>4 DEF LogInv

\* An election touches neither the log nor any index.
LEMMA ElectLog ==
  ASSUME TypeOK, TypeOK', LogInv, NEW p \in Proc, Elect(p)
  PROVE  LogInv'
<1> SUFFICES ASSUME snapshots' = 0 PROVE LogInv'
  BY DEF LogInv
<1>1. UNCHANGED <<log, commit, acks, snapshots, idx>>
  BY DEF Elect, Register, ElectAtOnce, ReadNodes, ReadTerm, ReadLeaderStable, ReadLeaderNone,
         SetLeaderNX, RereadLeader, SetTerm, Trigger, redisVars, localVars, auxVars
<1>2. /\ \A q \in Proc \ {p} : pc'[q] = pc[q]
      /\ pc'[p] \in ElectPc \cup {"poll", "obsLen", "rGuard", "done"}
  <2>1. ASSUME NEW m \in Node, Return(p, m)
        PROVE  /\ \A q \in Proc \ {p} : pc'[q] = pc[q]
               /\ pc'[p] \in ElectPc \cup {"poll", "obsLen", "rGuard", "done"}
    BY <2>1, ReturnEffect DEF Proc, ElectPc
  <2>2. CASE ReadLeaderStable(p) \/ SetTerm(p) \/ ElectAtOnce(p)
    <3>1. pick[p] \in Node \/ ~SetTerm(p)
      BY DEF SetTerm, TypeOK, PhaseOK, LoopPhase, CallPhase, Electing, Proc
    <3>2. leaderKey \in Node \/ ~ReadLeaderStable(p)
      BY DEF ReadLeaderStable, TypeOK, LocalTypeOK
    <3> QED
      BY <2>1, <2>2, <3>1, <3>2 DEF ReadLeaderStable, SetTerm, ElectAtOnce
  <2>3. CASE ~(ReadLeaderStable(p) \/ SetTerm(p) \/ ElectAtOnce(p))
    BY <2>3 DEF Elect, Register, ReadNodes, ReadTerm, ReadLeaderNone, SetLeaderNX,
                RereadLeader, Trigger, Goto, ElectPc, TypeOK, TaskTypeOK
  <2> QED
    BY <2>2, <2>3
<1>3. LogTask(p)'
  BY <1>2 DEF LogTask, ElectPc
<1> QED
  BY <1>1, <1>2, <1>3, LogStep DEF TypeOK, RedisTypeOK

\* The loop acknowledges only an index below a length it has read.
LEMMA LoopLog ==
  ASSUME TypeOK, TypeOK', LogInv, NEW n \in Node, Start(n) \/ Loop(n) \/ LoopFails(n)
  PROVE  LogInv'
<1> SUFFICES ASSUME snapshots' = 0 PROVE LogInv'
  BY DEF LogInv
<1>1. n \in Proc /\ Len(log) \in Nat /\ idx[n] \in Nat /\ commit \in Nat \cup {-1}
  BY DEF Proc, TypeOK, RedisTypeOK, LocalTypeOK
<1>2. CASE Elect(n)
  BY <1>1, <1>2, ElectLog
<1>3. CASE ~Elect(n)
  <2>1. /\ UNCHANGED <<log, commit, snapshots>>
        /\ \A q \in Proc \ {n} : pc'[q] = pc[q] /\ idx'[q] = idx[q]
    BY <1>1, <1>3 DEF Start, Loop, LoopFails, Restore, Heartbeat, CheckHeartbeat,
         ObserveLength, ObserveCommit, ObserveAck, EndPoll, ClearLocals, Goto, redisVars,
         localVars, auxVars, TypeOK, TaskTypeOK, LocalTypeOK
  <2>2. LogTask(n)'
    <3> USE DEF LogTask, EndPoll, Goto, TypeOK, TaskTypeOK, LocalTypeOK
    <3>1. CASE ObserveLength(n)
      BY <1>1, <2>1, <3>1 DEF ObserveLength
    <3>2. CASE ObserveCommit(n)
      <4>1. idx[n] <= Len(log)
        BY <1>1, <2>1, <3>2 DEF ObserveCommit, LogInv
      <4> QED
        BY <1>1, <2>1, <3>2, <4>1 DEF ObserveCommit
    <3>3. CASE ~ObserveLength(n) /\ ~ObserveCommit(n)
      BY <1>1, <1>3, <3>3 DEF Start, Loop, LoopFails, Restore, Heartbeat, CheckHeartbeat,
           ObserveAck, ClearLocals
    <3> QED
      BY <3>1, <3>2, <3>3
  <2>3. \A a \in acks' : a \in acks \/ a[1] < Len(log')
    <3>1. CASE ObserveAck(n)
      <4>1. idx[n] < Len(log)
        BY <1>1, <2>1, <3>1 DEF ObserveAck, LogInv, LogTask
      <4> QED
        BY <2>1, <3>1, <4>1 DEF ObserveAck
    <3>2. CASE ~ObserveAck(n)
      BY <1>3, <3>2 DEF Start, Loop, LoopFails, Restore, Heartbeat, CheckHeartbeat,
           ObserveLength, ObserveCommit, redisVars
    <3> QED
      BY <3>1, <3>2
  <2> QED
    BY <1>1, <2>1, <2>2, <2>3, LogStep
<1> QED
  BY <1>2, <1>3

\* replicate_log acknowledges and commits only the entry it has pushed, and
\* nothing is trimmed before a snapshot has been stored.
LEMMA CallLog ==
  ASSUME TypeOK, TypeOK', LogInv, NEW r \in Req,
         Replicate(r) \/ Compact(r) \/ CallFails(r)
  PROVE  LogInv'
<1> SUFFICES ASSUME snapshots' = 0 PROVE LogInv'
  BY DEF LogInv
<1>1. r \in Proc /\ Len(log) \in Nat /\ idx[r] \in Nat /\ snapshots \in Nat
  BY DEF Proc, TypeOK, RedisTypeOK, LocalTypeOK, AuxTypeOK
<1>2. ~WriteSnapshot(r)
  BY <1>1 DEF WriteSnapshot
<1>3. snapshots = 0 /\ LogTask(r)
  BY <1>1, <1>2 DEF Replicate, GuardLeader, ReadQuorum, ReadLength, Push, SelfAck, CountAcks,
       Retry, TimeOut, WriteCommit, Compact, SnapshotLength, ReadCommit, ReadRange, TrimLog,
       CallFails, auxVars, LogInv
<1>4. ~TrimLog(r)
  BY <1>3 DEF TrimLog, LogTask
<1>5. \A q \in Proc \ {r} : pc'[q] = pc[q] /\ idx'[q] = idx[q]
  BY <1>1, <1>2, <1>4 DEF Replicate, GuardLeader, ReadQuorum, ReadLength, Push, SelfAck,
       CountAcks, Retry, TimeOut, WriteCommit, Answer, Compact, SnapshotLength, ReadCommit,
       ReadRange, CallFails, ClearLocals, Finish, Goto, localVars, TypeOK, TaskTypeOK,
       LocalTypeOK
<1>6. CASE Push(r)
  <2>1. Len(log') = Len(log) + 1
    BY <1>6 DEF Push, TypeOK, RedisTypeOK
  <2>2. pc'[r] = "rAck" /\ idx' = idx /\ idx[r] <= Len(log)
    BY <1>1, <1>3, <1>6 DEF Push, Goto, localVars, LogTask, TypeOK, TaskTypeOK
  <2>3. LogTask(r)'
    BY <1>1, <2>1, <2>2 DEF LogTask
  <2>4. commit' = commit /\ acks' = acks
    BY <1>6 DEF Push
  <2> QED
    BY <1>1, <1>3, <1>5, <2>1, <2>3, <2>4, LogStep
<1>7. CASE ~Push(r)
  <2>1. log' = log
    BY <1>2, <1>4, <1>7 DEF Replicate, GuardLeader, ReadQuorum, ReadLength, SelfAck,
         CountAcks, Retry, TimeOut, WriteCommit, Compact, SnapshotLength, ReadCommit,
         ReadRange, CallFails, redisVars
  <2>2. commit' = commit \/ commit' < Len(log')
    BY <1>2, <1>3, <1>4, <1>7, <2>1 DEF Replicate, GuardLeader, ReadQuorum, ReadLength,
         SelfAck, CountAcks, Retry, TimeOut, WriteCommit, Compact, SnapshotLength,
         ReadCommit, ReadRange, CallFails, redisVars, LogTask
  <2>3. \A a \in acks' : a \in acks \/ a[1] < Len(log')
    BY <1>2, <1>3, <1>4, <1>7, <2>1 DEF Replicate, GuardLeader, ReadQuorum, ReadLength,
         SelfAck, CountAcks, Retry, TimeOut, WriteCommit, Compact, SnapshotLength,
         ReadCommit, ReadRange, CallFails, redisVars, LogTask
  <2>4. LogTask(r)'
    <3> USE DEF LogTask, Goto, TypeOK, TaskTypeOK, LocalTypeOK
    <3>1. CASE ReadLength(r)
      BY <1>1, <2>1, <3>1 DEF ReadLength
    <3>2. CASE Replicate(r) /\ ~ReadLength(r)
      BY <1>1, <1>3, <1>7, <2>1, <3>2 DEF Replicate, GuardLeader, ReadQuorum, SelfAck,
           CountAcks, Retry, TimeOut, WriteCommit, Answer, Finish, localVars
    <3>3. CASE Compact(r) \/ CallFails(r)
      BY <1>1, <1>2, <1>4, <3>3 DEF Compact, SnapshotLength, ReadCommit, ReadRange,
           AfterCompaction, CallFails, Finish
    <3> QED
      BY <3>1, <3>2, <3>3
  <2> QED
    BY <1>1, <1>3, <1>5, <2>1, <2>2, <2>3, <2>4, LogStep
<1> QED
  BY <1>6, <1>7

\* The loss of a process keeps the invariant: Redis stays as it is.
LEMMA DieLog ==
  ASSUME TypeOK, LogInv, NEW n \in Node, Die(n)
  PROVE  LogInv'
<1>1. UNCHANGED <<log, commit, acks, snapshots>>
  BY DEF Die, redisVars
<1>2. ASSUME NEW q \in Proc, LogTask(q) PROVE LogTask(q)'
  <2>1. \/ pc'[q] \in {"down", "done"}
        \/ pc'[q] = pc[q] /\ idx'[q] = idx[q]
    BY DEF Die
  <2> QED
    BY <1>1, <1>2, <2>1 DEF LogTask
<1> QED
  BY <1>1, <1>2 DEF LogInv

\* Every step keeps the invariant.
LEMMA NextLogInv == TypeOK /\ TypeOK' /\ LogInv /\ [Next]_vars => LogInv'
<1> SUFFICES ASSUME TypeOK, TypeOK', LogInv, [Next]_vars PROVE LogInv'
  OBVIOUS
<1>1. ASSUME NEW n \in Node, Start(n) \/ Loop(n) \/ LoopFails(n) PROVE LogInv'
  BY <1>1, LoopLog
<1>2. ASSUME NEW n \in Node, Crash(n) PROVE LogInv'
  BY <1>2, DieLog DEF Crash
<1>3. ASSUME NEW r \in Req, Call(r) \/ CallFails(r) PROVE LogInv'
  <2>1. CASE Elect(r)
    BY <2>1, ElectLog DEF Proc
  <2>2. CASE Stop(r)
    <3>1. host[r] \in Node
      BY <2>2 DEF Stop, TypeOK, PhaseOK, CallPhase, Running
    <3> QED
      BY <2>2, <3>1, DieLog DEF Stop
  <2> QED
    BY <1>3, <2>1, <2>2, CallLog DEF Call
<1>4. ASSUME NEW r \in Req, NEW n \in Node, NEW k \in Kinds, Invoke(r, n, k)
      PROVE  LogInv'
  <2>1. r \in Proc /\ UNCHANGED <<log, commit, acks, snapshots, idx>>
    BY <1>4 DEF Invoke, redisVars, auxVars, localVars, Proc
  <2>2. pc'[r] \in {"trig", "sLen", "eReg"} /\ \A q \in Proc \ {r} : pc'[q] = pc[q]
    BY <1>4, <2>1 DEF Invoke, Goto, EntryPc, TypeOK, TaskTypeOK
  <2>3. LogTask(r)' /\ Len(log) \in Nat
    BY <2>2 DEF LogTask, TypeOK, RedisTypeOK
  <2> QED
    BY <2>1, <2>2, <2>3, LogStep DEF LogInv
<1>5. CASE \/ LeaderKeyExpires \/ HeartbeatAges \/ UNCHANGED vars
           \/ \E n \in Node : NodeAges(n)
           \/ \E i \in ackTTL : AckSetExpires(i)
  <2>1. UNCHANGED <<log, commit, snapshots, pc, idx>> /\ acks' \subseteq acks
    BY <1>5 DEF LeaderKeyExpires, HeartbeatAges, NodeAges, AckSetExpires, vars, redisVars,
                auxVars, localVars
  <2> QED
    BY <2>1 DEF LogInv, LogTask
<1> QED
  BY <1>1, <1>2, <1>3, <1>4, <1>5 DEF Next

\* For any number of nodes, calls and entries: until a compaction, commit_index
\* and every acknowledged index name an entry of the log, although the writer
\* and the observers use lengths and commit indices read commands earlier.
THEOREM AcknowledgedIsLogged == Spec => []LogBacked
<1>1. Init => LogInv
  <2> SUFFICES ASSUME Init PROVE LogInv
    OBVIOUS
  <2>1. Len(log) = 0 /\ commit = -1 /\ acks = {}
    BY DEF Init
  <2>2. ASSUME NEW p \in Proc PROVE LogTask(p)
    BY DEF Init, LogTask
  <2> QED
    BY <2>1, <2>2 DEF LogInv
<1>2. LogInv => LogBacked
  BY DEF LogInv, LogBacked
<1> QED
  BY <1>1, <1>2, NextLogInv, TypeCorrect, PTL DEF Spec

=============================================================================
