--------------------------- MODULE TaskGraph_proof ---------------------------
(***************************************************************************)
(* Theorems about TaskGraph, for every finite set of ids and all limits.   *)
(*                                                                         *)
(* The loops keep counters, so the invariants say what the counters count: *)
(* inbound[n] is the number of dependencies of n that have not been        *)
(* visited (SortInv) or scheduled (WaveInv) yet.  What the analysis        *)
(* answers then follows from what each loop keeps about every set of       *)
(* tasks: no set of visited tasks is a cycle (SortInv), and the search has *)
(* not left any set of tasks that is closed under edges (ConnectInv).      *)
(***************************************************************************)
EXTENDS TaskGraph, FiniteSetTheorems, TLAPS

\* No dependency is missing: what StartSort has checked.
Closed == \A n \in nodes : deps[n] \subseteq nodes

SortInv ==
    phase = "sort" =>
        /\ Closed
        /\ queue = {n \in nodes \ visited : inbound[n] = 0}
        /\ \A n \in nodes : inbound[n] = Cardinality(deps[n] \ visited)
        /\ \A n \in visited : deps[n] \subseteq visited
        /\ \A S \in SUBSET visited : S # {} => \E n \in S : deps[n] \cap S = {}

\* A set of tasks that no edge leaves.
Island(S) == \A n \in S : Neighbours(n) \subseteq S

ConnectInv ==
    phase = "connect" =>
        /\ Closed
        /\ pending \cup connected # {}
        /\ pending \cap connected = {}
        /\ \A n \in connected : Neighbours(n) \subseteq connected \cup pending
        /\ \A S \in SUBSET nodes :
              Island(S) => \/ pending \cup connected \subseteq S
                           \/ (pending \cup connected) \cap S = {}

Scheduling == {"waves", "done"}

\* The tasks in the waves so far.
Sent == Scheduled(Len(waves))

WaveInv ==
    /\ phase \notin Scheduling => wave = {} /\ waves = <<>>
    /\ phase = "waves" =>
        /\ Sent \subseteq nodes
        /\ wave = {n \in nodes \ Sent : inbound[n] = 0}
        /\ \A n \in nodes : inbound[n] = Cardinality(deps[n] \ Sent)
        /\ \A n \in Sent : deps[n] \subseteq Sent

GraphInv == TypeOK /\ SortInv /\ ConnectInv /\ WaveInv

-----------------------------------------------------------------------------
LEMMA FiniteDeps ==
    ASSUME TypeOK, NEW n \in Id
    PROVE  IsFiniteSet(deps[n]) /\ Cardinality(deps[n]) \in Nat
<1>1. deps[n] \in SUBSET Node
  BY DEF TypeOK
<1>2. IsFiniteSet(deps[n])
  BY <1>1, NodeAssumption, FS_Subset
<1> QED BY <1>2, FS_CardinalityType

LEMMA NodeIds ==
    ASSUME TypeOK
    PROVE  \A n \in nodes : n \in Id
BY DEF TypeOK

\* What the counters count goes down by one with an element taken out.
LEMMA OneLess ==
    ASSUME NEW S, IsFiniteSet(S), NEW n \in S
    PROVE  /\ Cardinality(S) \in Nat \ {0}
           /\ Cardinality(S \ {n}) = Cardinality(S) - 1
<1>1. Cardinality(S \ {n}) = Cardinality(S) - 1
  BY FS_RemoveElement
<1>2. Cardinality(S) \in Nat /\ S # {}
  BY FS_CardinalityType
<1>3. Cardinality(S) # 0
  BY <1>2, FS_EmptySet
<1> QED BY <1>1, <1>2, <1>3

LEMMA SameGraph ==
    ASSUME UNCHANGED <<nodes, deps>>
    PROVE  /\ Cyclic' = Cyclic
           /\ Apart' = Apart
           /\ Closed' = Closed
           /\ \A n : Neighbours(n)' = Neighbours(n)
           /\ \A S : Island(S)' = Island(S)
<1>1. \A n : Neighbours(n)' = Neighbours(n)
  BY DEF Neighbours
<1>2. Cyclic' = Cyclic /\ Closed' = Closed
  BY DEF Cyclic, Closed
<1>3. Apart' = Apart /\ \A S : Island(S)' = Island(S)
  BY <1>1 DEF Apart, Island
<1> QED BY <1>1, <1>2, <1>3

\* Neighbourhood is symmetric, so what is outside an island is one.
LEMMA OutsideIsland ==
    ASSUME NEW S \in SUBSET nodes, Island(S), NEW n \in nodes \ S
    PROVE  Neighbours(n) \cap S = {}
BY DEF Island, Neighbours

-----------------------------------------------------------------------------
LEMMA InitInv == Init => GraphInv /\ RejectsExactly /\ WaveOrder
<1> SUFFICES ASSUME Init PROVE GraphInv /\ RejectsExactly /\ WaveOrder
  OBVIOUS
<1>1. nodes \in SUBSET Id /\ given \in SUBSET Node
  BY DEF Init, Id
<1>2. deps \in [Id -> SUBSET Node]
  <2>1. PICK d \in [given -> SUBSET Node] :
            deps = [n \in Id |-> IF n \in given THEN d[n] ELSE {}]
    BY DEF Init
  <2>2. \A n \in given : d[n] \in SUBSET Node
    BY <2>1
  <2> QED BY <2>1, <2>2
<1>3. phase = "analyze" /\ waves = <<>> /\ wave = {}
  BY DEF Init
<1>4. TypeOK
  <2>1. phase \in Phase /\ checks \in 1..MaxChecks
    BY ChecksAssumption DEF Init, Phase
  <2>2. waves \in Seq(SUBSET Id)
    BY <1>3
  <2> QED BY <1>1, <1>2, <1>3, <2>1, <2>2 DEF Init, TypeOK
<1>5. SortInv /\ ConnectInv /\ WaveInv /\ RejectsExactly
  BY <1>3 DEF SortInv, ConnectInv, WaveInv, RejectsExactly
<1>6. WaveOrder
  BY <1>3 DEF WaveOrder
<1> QED BY <1>4, <1>5, <1>6 DEF GraphInv

-----------------------------------------------------------------------------
(* The steps.  Each lemma proves the whole invariant for some actions. *)

\* The analysis raises: only its answer changes.
LEMMA RaiseStep ==
    ASSUME GraphInv, WaveOrder, NEW why \in Raised, Raise(why), phase \notin Scheduling
    PROVE  GraphInv' /\ WaveOrder'
<1> USE DEF Raise, graph, asked, sort, link, plan
<1>1. phase' \in Phase /\ phase' \notin {"sort", "connect"} \cup Scheduling
  BY DEF Raised, Phase, Scheduling
<1>2. TypeOK'
  BY <1>1 DEF GraphInv, TypeOK
<1>3. SortInv' /\ ConnectInv'
  BY <1>1 DEF SortInv, ConnectInv
<1>4. WaveInv' /\ WaveOrder'
  BY <1>1 DEF GraphInv, WaveInv, WaveOrder, Scheduled, Scheduling
<1> QED BY <1>2, <1>3, <1>4 DEF GraphInv

LEMMA RejectStep ==
    ASSUME GraphInv, WaveOrder,
           RejectEmpty \/ RejectMissing \/ RejectOrphans \/ RejectCycle \/ RejectDisconnected
    PROVE  GraphInv' /\ WaveOrder' /\ RejectsExactly'
<1>1. PICK why \in Raised : Raise(why)
  BY DEF Raised, RejectEmpty, RejectMissing, RejectOrphans, RejectCycle, RejectDisconnected
<1>2. phase \notin Scheduling
  BY DEF Scheduling, RejectEmpty, RejectMissing, RejectOrphans, RejectCycle, RejectDisconnected
<1>3. GraphInv' /\ WaveOrder'
  BY <1>1, <1>2, RaiseStep
<1>4. Cyclic' = Cyclic /\ Apart' = Apart
  BY <1>1, SameGraph DEF Raise, graph
<1>5. CASE RejectEmpty \/ RejectMissing
  <2>1. phase' \in {"empty", "missing"}
    BY <1>5 DEF RejectEmpty, RejectMissing, Raise
  <2> QED BY <1>3, <2>1 DEF RejectsExactly
<1>6. CASE RejectOrphans
  <2>1. PICK n \in nodes : deps[n] = {} /\ Children(n) = {}
    BY <1>6 DEF RejectOrphans, Orphans, Roots
  <2>2. Neighbours(n) = {}
    BY <2>1 DEF Neighbours, Children
  <2>3. nodes # {n}
    BY <1>6, FS_Singleton DEF RejectOrphans
  <2>4. Apart
    BY <2>2, <2>3 DEF Apart
  <2>5. phase' = "orphan"
    BY <1>6 DEF RejectOrphans, Raise
  <2> QED BY <1>3, <1>4, <2>4, <2>5 DEF RejectsExactly
<1>7. CASE RejectCycle
  <2> DEFINE S == nodes \ visited
  <2>1. /\ phase = "sort" /\ queue = {} /\ S # {}
        /\ phase' = "circular"
    BY <1>7 DEF RejectCycle, Raise, GraphInv, TypeOK
  <2>2. ASSUME NEW n \in S PROVE deps[n] \cap S # {}
    <3>1. inbound[n] # 0 /\ inbound[n] = Cardinality(deps[n] \ visited)
      BY <2>1 DEF GraphInv, SortInv
    <3>2. deps[n] \ visited # {}
      BY <3>1, FS_EmptySet
    <3>3. deps[n] \subseteq nodes
      BY <2>1 DEF GraphInv, SortInv, Closed
    <3> QED BY <3>2, <3>3
  <2>3. Cyclic
    <3>1. S \in SUBSET nodes
      OBVIOUS
    <3> QED BY <2>1, <2>2, <3>1 DEF Cyclic
  <2> QED BY <1>3, <1>4, <2>1, <2>3 DEF RejectsExactly
<1>8. CASE RejectDisconnected
  <2>1. /\ phase = "connect" /\ pending = {} /\ connected # nodes
        /\ phase' = "disconnected"
    BY <1>8 DEF RejectDisconnected, Raise
  <2>2. /\ connected \in SUBSET nodes
        /\ connected # {}
        /\ \A n \in connected : Neighbours(n) \subseteq connected
    BY <2>1 DEF GraphInv, TypeOK, ConnectInv
  <2>3. Apart
    BY <2>1, <2>2 DEF Apart
  <2> QED BY <1>3, <1>4, <2>1, <2>3 DEF RejectsExactly
<1> QED BY <1>5, <1>6, <1>7, <1>8

LEMMA StartSortStep ==
    ASSUME GraphInv, WaveOrder, StartSort
    PROVE  GraphInv' /\ WaveOrder' /\ RejectsExactly'
<1> USE DEF StartSort, graph, asked, link, plan
<1>1. \A n \in Id : inbound'[n] = Cardinality(deps[n]) /\ inbound'[n] \in Nat
  BY FiniteDeps DEF InDegrees, GraphInv
<1>2. inbound' \in [Id -> Nat] /\ depth' \in [Id -> Nat]
  BY <1>1 DEF InDegrees
<1>3. phase' = "sort" /\ phase' \in Phase
  BY DEF Phase
<1>4. queue' \in SUBSET nodes
  BY DEF Roots
<1>5. TypeOK'
  BY <1>2, <1>3, <1>4 DEF GraphInv, TypeOK
<1>6. SortInv'
  <2>1. Closed'
    BY DEF Closed, Lacking
  <2>2. \A n \in nodes : inbound'[n] = Cardinality(deps'[n] \ visited')
    BY <1>1, NodeIds DEF GraphInv
  <2>3. \A n \in nodes : inbound'[n] = 0 <=> deps[n] = {}
    BY <1>1, NodeIds, FiniteDeps, FS_EmptySet DEF GraphInv
  <2>4. queue' = {n \in nodes' \ visited' : inbound'[n] = 0}
    BY <2>3 DEF Roots
  <2> QED BY <2>1, <2>2, <2>4 DEF SortInv
<1>7. ConnectInv' /\ RejectsExactly'
  BY <1>3 DEF ConnectInv, RejectsExactly
<1>8. WaveInv' /\ WaveOrder'
  BY <1>3 DEF GraphInv, WaveInv, WaveOrder, Scheduled, Scheduling
<1> QED BY <1>5, <1>6, <1>7, <1>8 DEF GraphInv

LEMMA VisitStep ==
    ASSUME GraphInv, WaveOrder, NEW n \in Id, Visit(n)
    PROVE  GraphInv' /\ WaveOrder' /\ RejectsExactly'
<1> USE DEF Visit, graph, asked, link, plan
<1>1. /\ phase = "sort" /\ phase' = "sort"
      /\ n \in nodes \ visited /\ deps[n] \subseteq visited
      /\ Children(n) \in SUBSET nodes
      /\ nodes' = nodes /\ deps' = deps
  <2>1. n \in nodes \ visited /\ inbound[n] = 0 /\ deps[n] \subseteq nodes
        /\ inbound[n] = Cardinality(deps[n] \ visited)
    BY DEF GraphInv, SortInv, Closed
  <2>2. IsFiniteSet(deps[n] \ visited)
    BY FiniteDeps, FS_Subset DEF GraphInv
  <2>3. deps[n] \subseteq visited
    BY <2>1, <2>2, FS_EmptySet
  <2> QED BY <2>1, <2>3 DEF Children
<1>2. \A m \in Children(n) :
        /\ inbound[m] \in Nat \ {0}
        /\ inbound'[m] = inbound[m] - 1
        /\ Cardinality(deps[m] \ visited') = inbound[m] - 1
  <2> SUFFICES ASSUME NEW m \in Children(n)
               PROVE  /\ inbound[m] \in Nat \ {0}
                      /\ inbound'[m] = inbound[m] - 1
                      /\ Cardinality(deps[m] \ visited') = inbound[m] - 1
    OBVIOUS
  <2>1. m \in nodes /\ m \in Id /\ n \in deps[m] \ visited
    BY <1>1, NodeIds DEF Children, GraphInv
  <2>2. IsFiniteSet(deps[m] \ visited)
    BY <2>1, FiniteDeps, FS_Subset DEF GraphInv
  <2>3. deps[m] \ visited' = (deps[m] \ visited) \ {n}
    OBVIOUS
  <2>4. inbound[m] = Cardinality(deps[m] \ visited)
    BY <1>1, <2>1 DEF GraphInv, SortInv
  <2>5. inbound'[m] = inbound[m] - 1
    BY <2>1
  <2> QED BY <2>1, <2>2, <2>3, <2>4, <2>5, OneLess
<1>3. \A m \in nodes \ Children(n) :
        /\ inbound'[m] = inbound[m]
        /\ deps[m] \ visited' = deps[m] \ visited
  BY NodeIds DEF GraphInv, Children
<1>4. TypeOK'
  <2>1. \A m \in Id : inbound'[m] \in Nat /\ depth'[m] \in Nat
    <3>1. \A m \in Id : inbound'[m] \in Nat
      <4>1. ASSUME NEW m \in Children(n) PROVE inbound'[m] \in Nat
        <5>1. inbound[m] \in Nat \ {0} /\ inbound'[m] = inbound[m] - 1
          BY <1>2
        <5> HIDE DEF Visit
        <5> QED BY <5>1
      <4>2. \A m \in Id \ Children(n) : inbound'[m] = inbound[m] /\ inbound[m] \in Nat
        BY DEF GraphInv, TypeOK
      <4> QED BY <4>1, <4>2
    <3>2. \A m \in Id : depth'[m] \in Nat
      BY DEF GraphInv, TypeOK, Larger
    <3> QED BY <3>1, <3>2
  <2>2. inbound' \in [Id -> Nat] /\ depth' \in [Id -> Nat]
    <3>1. inbound' = [m \in Id |-> inbound'[m]] /\ depth' = [m \in Id |-> depth'[m]]
      OBVIOUS
    <3> QED BY <2>1, <3>1
  <2>3. queue' \in SUBSET nodes /\ visited' \in SUBSET nodes
    BY <1>1 DEF GraphInv, TypeOK
  <2> QED BY <1>1, <2>2, <2>3 DEF GraphInv, TypeOK
<1>5. SortInv'
  <2>1. Closed'
    BY <1>1 DEF GraphInv, SortInv, Closed
  <2>2. \A m \in nodes : inbound'[m] = Cardinality(deps[m] \ visited')
    <3>1. \A m \in nodes : inbound[m] = Cardinality(deps[m] \ visited)
      BY <1>1 DEF GraphInv, SortInv
    <3> QED BY <1>2, <1>3, <3>1
  <2>3. queue' = {m \in nodes \ visited' : inbound'[m] = 0}
    <3>1. queue = {m \in nodes \ visited : inbound[m] = 0}
      BY <1>1 DEF GraphInv, SortInv
    <3>2. ASSUME NEW m \in Children(n) PROVE m \notin visited /\ m # n
      BY <1>1 DEF GraphInv, SortInv, Children
    <3>3. ASSUME NEW m \in Children(n)
          PROVE  m \in nodes \ visited' /\ (inbound'[m] = 0 <=> inbound[m] = 1)
      <4>1. inbound[m] \in Nat \ {0} /\ inbound'[m] = inbound[m] - 1
        BY <1>2
      <4>2. m \in nodes \ visited'
        BY <1>1, <3>2
      <4> HIDE DEF Visit
      <4> QED BY <4>1, <4>2
    <3>4. \A m \in nodes \ Children(n) : m \in queue' <=> m \in queue /\ m # n
      OBVIOUS
    <3>5. \A m \in Children(n) : inbound[m] # 0
      BY <1>2
    <3>6. \A m \in nodes \ Children(n) : m \in queue' <=> m \notin visited' /\ inbound'[m] = 0
      BY <1>3, <3>1, <3>4
    <3>7. \A m \in Children(n) : m \in queue' <=> m \notin visited' /\ inbound'[m] = 0
      BY <3>1, <3>3, <3>5
    <3>8. queue' \in SUBSET nodes
      BY <1>4, <1>1 DEF TypeOK
    <3> QED BY <3>6, <3>7, <3>8
  <2>4. \A m \in visited' : deps[m] \subseteq visited'
    BY <1>1 DEF GraphInv, SortInv
  <2>5. ASSUME NEW S \in SUBSET visited', S # {}
        PROVE  \E m \in S : deps[m] \cap S = {}
    <3>1. \A T \in SUBSET visited : T # {} => \E m \in T : deps[m] \cap T = {}
      BY <1>1 DEF GraphInv, SortInv
    <3>2. CASE S \ {n} = {}
      <4>1. n \in S /\ S = {n}
        BY <2>5, <3>2
      <4>2. deps[n] \cap {n} = {}
        BY <1>1
      <4> QED BY <4>1, <4>2
    <3>3. CASE S \ {n} # {}
      <4>1. S \ {n} \in SUBSET visited
        OBVIOUS
      <4>2. PICK m \in S \ {n} : deps[m] \cap (S \ {n}) = {}
        BY <3>1, <3>3, <4>1
      <4>3. n \notin deps[m]
        BY <1>1, <4>1, <4>2 DEF GraphInv, SortInv
      <4> QED BY <4>2, <4>3
    <3> QED BY <3>2, <3>3
  <2> QED BY <1>1, <2>1, <2>2, <2>3, <2>4, <2>5 DEF SortInv
<1>6. ConnectInv' /\ RejectsExactly'
  BY <1>1 DEF ConnectInv, RejectsExactly
<1>7. WaveInv' /\ WaveOrder'
  BY <1>1 DEF GraphInv, WaveInv, WaveOrder, Scheduled, Scheduling
<1> QED BY <1>4, <1>5, <1>6, <1>7 DEF GraphInv

LEMMA StartConnectStep ==
    ASSUME GraphInv, WaveOrder, StartConnect
    PROVE  GraphInv' /\ WaveOrder' /\ RejectsExactly'
<1> USE DEF StartConnect, graph, asked, sort, plan
<1>1. PICK root \in nodes : pending' = {root}
  OBVIOUS
<1>2. phase' = "connect" /\ phase' \in Phase
  BY DEF Phase
<1>3. TypeOK'
  BY <1>1, <1>2 DEF GraphInv, TypeOK
<1>4. Closed'
  BY DEF GraphInv, SortInv, Closed
<1>5. ConnectInv'
  <2>1. ASSUME NEW S \in SUBSET nodes
        PROVE  \/ pending' \cup connected' \subseteq S
               \/ (pending' \cup connected') \cap S = {}
    BY <1>1
  <2> QED BY <1>1, <1>4, <2>1 DEF ConnectInv
<1>6. ~Cyclic
  BY DEF GraphInv, SortInv, Cyclic
<1>7. RejectsExactly'
  BY <1>2, <1>6, SameGraph DEF RejectsExactly
<1>8. SortInv' /\ WaveInv' /\ WaveOrder'
  BY <1>2 DEF SortInv, GraphInv, WaveInv, WaveOrder, Scheduled, Scheduling
<1> QED BY <1>3, <1>5, <1>7, <1>8 DEF GraphInv

LEMMA ConnectStep ==
    ASSUME GraphInv, WaveOrder, RejectsExactly, NEW n \in Id, Connect(n)
    PROVE  GraphInv' /\ WaveOrder' /\ RejectsExactly'
<1> USE DEF Connect, graph, asked, sort, plan
<1>1. /\ phase = "connect" /\ phase' = "connect"
      /\ n \in pending /\ n \in nodes
      /\ Neighbours(n) \in SUBSET nodes
      /\ nodes' = nodes /\ deps' = deps
  BY DEF GraphInv, TypeOK, Neighbours
<1>2. pending' \cup connected' = pending \cup connected \cup Neighbours(n)
  BY <1>1
<1>3. TypeOK'
  BY <1>1 DEF GraphInv, TypeOK
<1>4. ConnectInv'
  <2>1. \A m \in connected' : Neighbours(m) \subseteq connected' \cup pending'
    BY <1>1, <1>2 DEF GraphInv, ConnectInv
  <2>2. ASSUME NEW S \in SUBSET nodes, Island(S)
        PROVE  \/ pending' \cup connected' \subseteq S
               \/ (pending' \cup connected') \cap S = {}
    <3>1. \/ pending \cup connected \subseteq S
          \/ (pending \cup connected) \cap S = {}
      BY <1>1, <2>2 DEF GraphInv, ConnectInv
    <3>2. CASE n \in S
      BY <1>1, <1>2, <2>2, <3>1, <3>2 DEF Island
    <3>3. CASE n \notin S
      <4>1. Neighbours(n) \cap S = {}
        BY <1>1, <2>2, <3>3, OutsideIsland
      <4> QED BY <1>1, <1>2, <3>1, <3>3, <4>1
    <3> QED BY <3>2, <3>3
  <2>3. Closed' /\ (\A m : Neighbours(m)' = Neighbours(m)) /\ (\A S : Island(S)' = Island(S))
    BY <1>1, SameGraph DEF GraphInv, ConnectInv
  <2>4. pending' \cup connected' # {}
    BY <1>1, <1>2
  <2>5. pending' \cap connected' = {}
    OBVIOUS
  <2> QED BY <1>1, <2>1, <2>2, <2>3, <2>4, <2>5 DEF ConnectInv
<1>5. RejectsExactly'
  BY <1>1, SameGraph DEF RejectsExactly
<1>6. SortInv' /\ WaveInv' /\ WaveOrder'
  BY <1>1 DEF SortInv, GraphInv, WaveInv, WaveOrder, Scheduled, Scheduling
<1> QED BY <1>3, <1>4, <1>5, <1>6 DEF GraphInv

\* The search has reached every task, so every island is the whole graph.
LEMMA NotApart ==
    ASSUME GraphInv, phase = "connect", pending = {}, connected = nodes
    PROVE  ~Apart
<1> SUFFICES ASSUME NEW S \in SUBSET nodes, S # {}, S # nodes, Island(S)
             PROVE  FALSE
  BY DEF Apart, Island
<1>1. connected \subseteq S \/ connected \cap S = {}
  BY DEF GraphInv, ConnectInv
<1> QED BY <1>1

LEMMA SentNone ==
    ASSUME waves = <<>>
    PROVE  Sent = {}
BY DEF Sent, Scheduled

LEMMA AnalyzedStep ==
    ASSUME GraphInv, WaveOrder, RejectsExactly, Analyzed
    PROVE  GraphInv' /\ WaveOrder' /\ RejectsExactly'
<1> USE DEF Analyzed, graph, asked, link
<1>1. phase = "connect" /\ pending = {} /\ connected = nodes
  OBVIOUS
<1>2. ~Cyclic' /\ ~Apart'
  <2>1. ~Cyclic /\ ~Apart
    BY <1>1, NotApart DEF RejectsExactly
  <2> QED BY <2>1, SameGraph
<1>3. waves = <<>> /\ wave = {}
  BY <1>1 DEF GraphInv, WaveInv, Scheduling
<1>4. CASE check = "validate"
  <2>1. phase' \in {"flatten", "validated"} /\ phase' \in Phase
    BY <1>4 DEF Phase
  <2>2. TypeOK'
    BY <1>4, <2>1 DEF GraphInv, TypeOK, sort, plan
  <2>3. SortInv' /\ ConnectInv' /\ RejectsExactly'
    BY <2>1 DEF SortInv, ConnectInv, RejectsExactly
  <2>4. WaveInv' /\ WaveOrder'
    BY <1>3, <1>4, <2>1 DEF WaveInv, WaveOrder, plan
  <2> QED BY <2>2, <2>3, <2>4 DEF GraphInv
<1>5. CASE check # "validate"
  <2>1. phase' = "waves" /\ phase' \in Phase /\ waves' = <<>>
    BY <1>3, <1>5 DEF Phase
  <2>2. \A n \in Id : inbound'[n] = Cardinality(deps[n]) /\ inbound'[n] \in Nat
    BY <1>5, FiniteDeps DEF InDegrees, GraphInv
  <2>3. inbound' \in [Id -> Nat] /\ wave' \in SUBSET nodes
    BY <1>5, <2>2 DEF InDegrees, Roots
  <2>4. TypeOK'
    BY <1>5, <2>1, <2>3 DEF GraphInv, TypeOK
  <2>5. Sent' = {}
    BY <2>1 DEF Sent, Scheduled
  <2>6. WaveInv'
    <3>1. \A n \in nodes : inbound'[n] = 0 <=> deps[n] = {}
      BY <2>2, NodeIds, FiniteDeps, FS_EmptySet DEF GraphInv
    <3>2. wave' = {n \in nodes' \ Sent' : inbound'[n] = 0}
      BY <1>5, <2>5, <3>1 DEF Roots
    <3>3. \A n \in nodes' : inbound'[n] = Cardinality(deps'[n] \ Sent')
      BY <2>2, <2>5, NodeIds DEF GraphInv
    <3> QED BY <2>1, <2>5, <3>2, <3>3 DEF WaveInv, Scheduling
  <2>7. SortInv' /\ ConnectInv' /\ RejectsExactly'
    BY <1>2, <2>1 DEF SortInv, ConnectInv, RejectsExactly
  <2>8. WaveOrder'
    BY <2>1 DEF WaveOrder
  <2> QED BY <2>4, <2>6, <2>7, <2>8 DEF GraphInv
<1> QED BY <1>4, <1>5

LEMMA FlattenStep ==
    ASSUME GraphInv, WaveOrder, Flatten
    PROVE  GraphInv' /\ WaveOrder' /\ RejectsExactly'
<1> USE DEF Flatten, asked, plan
<1>1. phase' \in {"duplicate", "validated"} /\ phase' \in Phase
  BY DEF Phase, Raised
<1>2. wave = {} /\ waves = <<>>
  BY DEF GraphInv, WaveInv, Scheduling
<1>3. Batch \in Id /\ nodes' \in SUBSET Id
  BY DEF GraphInv, TypeOK, Id
<1>4. deps' \in [Id -> SUBSET Node]
  BY <1>3 DEF GraphInv, TypeOK
<1>5. batched' \in SUBSET Node
  BY DEF GraphInv, TypeOK, Deep, Id
<1>6. TypeOK'
  BY <1>1, <1>2, <1>3, <1>4, <1>5 DEF GraphInv, TypeOK
<1>7. SortInv' /\ ConnectInv' /\ RejectsExactly'
  BY <1>1 DEF SortInv, ConnectInv, RejectsExactly
<1>8. WaveInv' /\ WaveOrder'
  BY <1>1, <1>2 DEF WaveInv, WaveOrder
<1> QED BY <1>6, <1>7, <1>8 DEF GraphInv

LEMMA AgainStep ==
    ASSUME GraphInv, WaveOrder, Revalidate \/ Measure
    PROVE  GraphInv' /\ WaveOrder' /\ RejectsExactly'
<1> USE DEF graph, sort, link, plan
<1>1. phase = "validated" /\ phase' = "analyze" /\ phase' \in Phase
  BY DEF Revalidate, Measure, Phase
<1>2. wave = {} /\ waves = <<>>
  BY <1>1 DEF GraphInv, WaveInv, Scheduling
<1>3. checks' \in 1..MaxChecks /\ limit' \in Limits /\ check' \in {"validate", "measure"}
  BY ChecksAssumption DEF Revalidate, Measure, GraphInv, TypeOK
<1>4. TypeOK'
  BY <1>1, <1>3 DEF Revalidate, Measure, GraphInv, TypeOK
<1>5. SortInv' /\ ConnectInv' /\ RejectsExactly'
  BY <1>1 DEF SortInv, ConnectInv, RejectsExactly
<1>6. WaveInv' /\ WaveOrder'
  BY <1>1, <1>2 DEF Revalidate, Measure, WaveInv, WaveOrder
<1> QED BY <1>4, <1>5, <1>6 DEF GraphInv

-----------------------------------------------------------------------------
(* The waves. *)

\* What a wave adds to the tasks in the waves so far.
LEMMA SentGrows ==
    ASSUME TypeOK, waves' = Append(waves, wave)
    PROVE  /\ Len(waves') = Len(waves) + 1
           /\ \A i \in 1..Len(waves) : waves'[i] = waves[i]
           /\ waves'[Len(waves) + 1] = wave
           /\ \A i \in 0..Len(waves) : Scheduled(i)' = Scheduled(i)
           /\ Sent' = Sent \cup wave
<1>1. waves \in Seq(SUBSET Id) /\ wave \in SUBSET Id
  BY DEF TypeOK
<1>2. /\ Len(waves') = Len(waves) + 1
      /\ \A i \in 1..Len(waves) : waves'[i] = waves[i]
      /\ waves'[Len(waves) + 1] = wave
  BY <1>1
<1>3. Len(waves) \in Nat
  BY <1>1
<1>4. \A i \in 0..Len(waves) : Scheduled(i)' = Scheduled(i)
  BY <1>2, <1>3 DEF Scheduled
<1>5. Sent' = Sent \cup wave
  <2>1. \A j : j \in 1..Len(waves') <=> j \in 1..Len(waves) \/ j = Len(waves) + 1
    BY <1>2, <1>3
  <2> QED BY <1>2, <2>1 DEF Sent, Scheduled
<1> QED BY <1>2, <1>4, <1>5

\* A wave holds tasks that wait for nothing outside the waves before it.
LEMMA WaveReady ==
    ASSUME GraphInv, phase = "waves"
    PROVE  /\ wave \cap Sent = {}
           /\ \A n \in wave : deps[n] \subseteq Sent
<1>1. wave \cap Sent = {}
  BY DEF GraphInv, WaveInv
<1>2. ASSUME NEW n \in wave PROVE deps[n] \subseteq Sent
  <2>1. n \in nodes /\ inbound[n] = 0 /\ inbound[n] = Cardinality(deps[n] \ Sent)
    BY DEF GraphInv, WaveInv
  <2>2. IsFiniteSet(deps[n] \ Sent)
    BY <2>1, NodeIds, FiniteDeps, FS_Subset DEF GraphInv
  <2> QED BY <2>1, <2>2, FS_EmptySet
<1> QED BY <1>1, <1>2

LEMMA RunWaveStep ==
    ASSUME GraphInv, WaveOrder, RejectsExactly, RunWave
    PROVE  GraphInv' /\ WaveOrder' /\ RejectsExactly'
<1> USE DEF RunWave, graph, asked, link
<1>1. /\ phase = "waves" /\ phase' = "waves"
      /\ waves' = Append(waves, wave)
      /\ nodes' = nodes /\ deps' = deps
  OBVIOUS
<1>2. /\ wave \cap Sent = {}
      /\ \A n \in wave : deps[n] \subseteq Sent
      /\ \A n \in Sent : deps[n] \subseteq Sent
      /\ Sent \subseteq nodes /\ wave \subseteq nodes
  BY <1>1, WaveReady DEF GraphInv, WaveInv, TypeOK
<1>3. Sent' = Sent \cup wave
  BY <1>1, SentGrows DEF GraphInv
<1>4. ASSUME NEW n \in nodes
      PROVE  /\ inbound'[n] = inbound[n] - Cardinality(deps[n] \cap wave)
             /\ inbound'[n] = Cardinality(deps[n] \ Sent')
             /\ inbound'[n] \in Nat
             /\ Cardinality(deps[n] \cap wave) \in Nat
             /\ inbound[n] \in Nat
  <2>1. n \in Id /\ inbound[n] = Cardinality(deps[n] \ Sent)
    BY <1>1, NodeIds DEF GraphInv, WaveInv
  <2>2. IsFiniteSet(deps[n])
    BY <2>1, FiniteDeps DEF GraphInv
  <2>3. IsFiniteSet(deps[n] \ Sent) /\ IsFiniteSet(deps[n] \cap wave)
    BY <2>2, FS_Subset
  <2>4. /\ (deps[n] \ Sent) \ wave = deps[n] \ Sent'
        /\ (deps[n] \ Sent) \cap wave = deps[n] \cap wave
    BY <1>2, <1>3
  <2>5. /\ IsFiniteSet(deps[n] \ Sent')
        /\ Cardinality(deps[n] \ Sent')
             = Cardinality(deps[n] \ Sent) - Cardinality(deps[n] \cap wave)
    BY <2>3, <2>4, FS_Difference
  <2>6. inbound'[n] = inbound[n] - Cardinality(deps[n] \cap wave)
    BY <2>1
  <2> QED BY <2>1, <2>3, <2>5, <2>6, FS_CardinalityType
<1>5. TypeOK'
  <2>1. \A n \in Id : inbound'[n] \in Nat
    <3>1. \A n \in Id \ nodes : inbound'[n] = inbound[n] /\ inbound[n] \in Nat
      BY DEF GraphInv, TypeOK
    <3> QED BY <1>4, <3>1
  <2>2. inbound' \in [Id -> Nat]
    <3>1. inbound' = [n \in Id |-> inbound'[n]]
      OBVIOUS
    <3> QED BY <2>1, <3>1
  <2>3. waves' \in Seq(SUBSET Id)
    BY DEF GraphInv, TypeOK
  <2>4. wave' \in SUBSET nodes
    BY DEF ChildrenOf
  <2> QED BY <1>1, <2>2, <2>3, <2>4 DEF GraphInv, TypeOK
<1>6. wave' = {n \in nodes \ Sent' : inbound'[n] = 0}
  <2>1. ASSUME NEW n \in nodes, deps[n] \cap wave # {}
        PROVE  n \in wave' <=> n \notin Sent' /\ inbound'[n] = 0
    <3>1. n \notin Sent'
      BY <1>2, <1>3, <2>1
    <3>2. n \in wave' <=> inbound[n] = Cardinality(deps[n] \cap wave)
      BY <2>1 DEF ChildrenOf
    <3>3. inbound'[n] = 0 <=> inbound[n] = Cardinality(deps[n] \cap wave)
      <4>1. /\ inbound'[n] = inbound[n] - Cardinality(deps[n] \cap wave)
            /\ Cardinality(deps[n] \cap wave) \in Nat /\ inbound[n] \in Nat
        BY <1>4
      <4> HIDE DEF RunWave
      <4> QED BY <4>1
    <3> QED BY <3>1, <3>2, <3>3
  <2>2. ASSUME NEW n \in nodes, deps[n] \cap wave = {}
        PROVE  n \notin wave' /\ ~(n \notin Sent' /\ inbound'[n] = 0)
    <3>1. n \notin wave'
      BY <2>2 DEF ChildrenOf
    <3>2. inbound'[n] = Cardinality(deps[n] \ Sent)
      BY <1>3, <1>4, <2>2
    <3>3. inbound'[n] = inbound[n]
      BY <1>1, <3>2 DEF GraphInv, WaveInv
    <3>4. n \in wave <=> n \notin Sent /\ inbound[n] = 0
      BY <1>1 DEF GraphInv, WaveInv
    <3> QED BY <1>3, <3>1, <3>3, <3>4
  <2>3. wave' \in SUBSET nodes
    BY <1>5, <1>1 DEF TypeOK
  <2> QED BY <2>1, <2>2, <2>3
<1>7. WaveInv'
  <2>1. \A n \in Sent' : deps[n] \subseteq Sent'
    BY <1>2, <1>3
  <2>2. Sent' \subseteq nodes
    BY <1>2, <1>3
  <2> QED BY <1>1, <1>4, <1>6, <2>1, <2>2 DEF WaveInv, Scheduling
<1>8. WaveOrder'
  <2> SUFFICES ASSUME NEW i \in 1..Len(waves'), NEW n \in waves'[i]
               PROVE  deps'[n] \subseteq Scheduled(i - 1)'
    BY DEF WaveOrder
  <2>1. Len(waves) \in Nat
    BY DEF GraphInv, TypeOK
  <2>2. /\ Len(waves') = Len(waves) + 1
        /\ \A j \in 1..Len(waves) : waves'[j] = waves[j]
        /\ waves'[Len(waves) + 1] = wave
        /\ \A j \in 0..Len(waves) : Scheduled(j)' = Scheduled(j)
    BY <1>1, SentGrows DEF GraphInv
  <2>3. i - 1 \in 0..Len(waves) /\ Scheduled(i - 1)' = Scheduled(i - 1)
    BY <2>1, <2>2
  <2>4. CASE i \in 1..Len(waves)
    BY <1>1, <2>2, <2>3, <2>4 DEF WaveOrder
  <2>5. CASE i = Len(waves) + 1
    <3>1. n \in wave /\ i - 1 = Len(waves)
      BY <2>1, <2>2, <2>5
    <3>2. deps[n] \subseteq Sent
      BY <1>2, <3>1
    <3> QED BY <1>1, <2>3, <3>1, <3>2 DEF Sent
  <2> QED BY <2>1, <2>2, <2>4, <2>5
<1>9. SortInv' /\ ConnectInv' /\ RejectsExactly'
  BY <1>1, SameGraph DEF SortInv, ConnectInv, RejectsExactly
<1> QED BY <1>5, <1>7, <1>8, <1>9 DEF GraphInv

LEMMA EndWavesStep ==
    ASSUME GraphInv, WaveOrder, RejectsExactly, EndWaves
    PROVE  GraphInv' /\ WaveOrder' /\ RejectsExactly'
<1> USE DEF EndWaves, graph, asked, sort, link, plan
<1>1. phase = "waves" /\ phase' = "done" /\ phase' \in Phase
  BY DEF Phase
<1>2. TypeOK'
  BY <1>1 DEF GraphInv, TypeOK
<1>3. SortInv' /\ ConnectInv' /\ WaveInv'
  BY <1>1 DEF SortInv, ConnectInv, WaveInv, Scheduling
<1>4. RejectsExactly' /\ WaveOrder'
  BY <1>1, SameGraph DEF RejectsExactly, WaveOrder, Scheduled
<1> QED BY <1>2, <1>3, <1>4 DEF GraphInv

-----------------------------------------------------------------------------
LEMMA StepInv ==
    ASSUME GraphInv, RejectsExactly, WaveOrder, [Next]_vars
    PROVE  GraphInv' /\ RejectsExactly' /\ WaveOrder'
<1>1. CASE RejectEmpty \/ RejectMissing \/ RejectOrphans \/ RejectCycle \/ RejectDisconnected
  BY <1>1, RejectStep
<1>2. CASE StartSort
  BY <1>2, StartSortStep
<1>3. ASSUME NEW n \in Id, Visit(n) PROVE GraphInv' /\ RejectsExactly' /\ WaveOrder'
  BY <1>3, VisitStep
<1>4. CASE StartConnect
  BY <1>4, StartConnectStep
<1>5. ASSUME NEW n \in Id, Connect(n) PROVE GraphInv' /\ RejectsExactly' /\ WaveOrder'
  BY <1>5, ConnectStep
<1>6. CASE Analyzed
  BY <1>6, AnalyzedStep
<1>7. CASE Flatten
  BY <1>7, FlattenStep
<1>8. CASE Revalidate \/ Measure
  BY <1>8, AgainStep
<1>9. CASE RunWave
  BY <1>9, RunWaveStep
<1>10. CASE EndWaves
  BY <1>10, EndWavesStep
<1>11. CASE UNCHANGED vars
  <2> USE <1>11 DEF vars
  <2>1. TypeOK' /\ SortInv' /\ ConnectInv' /\ WaveInv'
    <3>1. TypeOK'
      BY DEF GraphInv, TypeOK
    <3>2. SortInv' /\ ConnectInv'
      BY SameGraph DEF GraphInv, SortInv, ConnectInv
    <3>3. Sent' = Sent
      BY DEF Sent, Scheduled
    <3>4. WaveInv'
      BY <3>3 DEF GraphInv, WaveInv
    <3> QED BY <3>1, <3>2, <3>4
  <2>2. RejectsExactly' /\ WaveOrder'
    BY SameGraph DEF RejectsExactly, WaveOrder, Scheduled
  <2> QED BY <2>1, <2>2 DEF GraphInv
<1> QED BY <1>1, <1>2, <1>3, <1>4, <1>5, <1>6, <1>7, <1>8, <1>9, <1>10, <1>11 DEF Next

LEMMA AllInv == Spec => [](GraphInv /\ RejectsExactly /\ WaveOrder)
<1>1. Init => GraphInv /\ RejectsExactly /\ WaveOrder
  BY InitInv
<1>2. (GraphInv /\ RejectsExactly /\ WaveOrder) /\ [Next]_vars
        => (GraphInv /\ RejectsExactly /\ WaveOrder)'
  BY StepInv
<1> QED BY <1>1, <1>2, PTL DEF Spec

\* Every reachable state of the algorithms is well typed; above all, neither
\* the analysis nor the waves ever take an inbound counter below zero.
THEOREM GraphTypeCorrect == Spec => []TypeOK
<1>1. GraphInv /\ RejectsExactly /\ WaveOrder => TypeOK
  BY DEF GraphInv
<1> QED BY <1>1, AllInv, PTL

\* _analyze_dag raises for a cycle, an orphan or a graph in pieces only when
\* there is one, and a graph that reaches the waves has neither.
THEOREM AnalysisIsExact == Spec => []RejectsExactly
BY AllInv, PTL

\* get_execution_waves puts no task in a wave before its dependencies.
THEOREM WavesRespectDependencies == Spec => []WaveOrder
BY AllInv, PTL

=============================================================================
