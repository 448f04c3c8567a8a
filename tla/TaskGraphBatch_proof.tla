------------------------- MODULE TaskGraphBatch_proof -------------------------
(***************************************************************************)
(* More theorems about TaskGraph: the depths, the batching and the waves.  *)
(*                                                                         *)
(* A depth map is determined by the dependencies alone (ChainUnique): in   *)
(* an acyclic graph, the tasks on which two maps differ would wait for     *)
(* each other.  Batching gives the batch the depth of the limit and every  *)
(* other task its old depth, so the next analysis finds these depths, the  *)
(* batch at the top (TopInv), and nothing above the limit (LimitInv).      *)
(***************************************************************************)
EXTENDS TaskGraph_proof

\* f is the length of the longest chain of dependencies that ends in a task.
Chain(f) ==
    \A n \in nodes :
        /\ \A d \in deps[n] : f[n] > f[d]
        /\ deps[n] = {} => f[n] = 1
        /\ deps[n] # {} => \E d \in deps[n] : f[n] = f[d] + 1

\* The same for the chains within the tasks visited so far.
SortDepth ==
    \A n \in nodes :
        /\ depth[n] >= 1
        /\ \A d \in deps[n] \cap visited : depth[n] > depth[d]
        /\ deps[n] \cap visited = {} => depth[n] = 1
        /\ depth[n] # 1 => \E d \in deps[n] \cap visited : depth[n] = depth[d] + 1

DepthInv ==
    /\ phase = "sort" => SortDepth
    /\ phase \in {"connect", "flatten"} \cup Scheduling => Chain(depth)
    /\ phase = "flatten" => TooDeep

\* An analysis has let the graph through.
Screened ==
    \/ checks > 1 \/ check = "measure"
    \/ phase \in {"flatten", "validated"} \cup Scheduling

Sound == nodes # {} /\ Closed /\ ~Cyclic /\ ~Apart

SoundInv ==
    /\ Screened => Sound /\ phase \notin Raised
    /\ batched # {} => Screened
    /\ phase \in {"flatten", "validated"} => check = "validate"
    /\ phase \in Scheduling => check = "measure"

TopInv ==
    Batch \in nodes =>
        \E f \in [Id -> Nat] : Chain(f) /\ \A n \in nodes : f[n] <= f[Batch]

LimitInv ==
    phase = "validated" \/ check = "measure" =>
        \E f \in [Id -> Nat] : Chain(f) /\ \A n \in nodes : f[n] <= limit

BatchInv ==
    /\ batched # {} => Batch \in nodes
    /\ \A n \in nodes : deps[n] \cap batched = {}
    /\ \A n \in batched : deps[n] \subseteq batched \cup deps[Batch]
    /\ (nodes \ {Batch}) \cup batched = given

WaveDepthInv ==
    /\ phase \in Scheduling =>
          \A i \in 1..Len(waves) : \A n \in waves[i] : depth[n] = i
    /\ phase = "waves" => Sent = {n \in nodes : depth[n] <= Len(waves)}
    /\ phase = "done" => Sent = nodes

Core == GraphInv /\ RejectsExactly /\ WaveOrder

PassInv == DepthInv /\ SoundInv /\ TopInv /\ LimitInv /\ BatchInv /\ WaveDepthInv

-----------------------------------------------------------------------------
(* Depth maps *)

LEMMA ChainUnique ==
    ASSUME Closed, ~Cyclic, nodes \subseteq Id,
           NEW f \in [Id -> Nat], NEW g \in [Id -> Nat], Chain(f), Chain(g)
    PROVE  \A n \in nodes : f[n] = g[n]
<1> DEFINE D == {n \in nodes : f[n] # g[n]}
<1> SUFFICES ASSUME D # {} PROVE FALSE
  OBVIOUS
<1>1. PICK n \in D : deps[n] \cap D = {}
  BY DEF Cyclic
<1>2. /\ n \in nodes /\ f[n] # g[n] /\ f[n] \in Nat /\ g[n] \in Nat
      /\ \A d \in deps[n] : d \in nodes /\ f[d] = g[d] /\ f[d] \in Nat
  BY <1>1 DEF Closed
<1>3. deps[n] # {}
  BY <1>2 DEF Chain
<1>4. PICK d \in deps[n] : f[n] = f[d] + 1
  BY <1>2, <1>3 DEF Chain
<1>5. PICK e \in deps[n] : g[n] = g[e] + 1
  BY <1>2, <1>3 DEF Chain
<1>6. f[n] > f[e] /\ g[n] > g[d]
  BY <1>2 DEF Chain
<1> QED BY <1>2, <1>4, <1>5, <1>6

LEMMA ChainPositive ==
    ASSUME Closed, nodes \subseteq Id, NEW f \in [Id -> Nat], Chain(f)
    PROVE  \A n \in nodes : f[n] >= 1
<1> SUFFICES ASSUME NEW n \in nodes PROVE f[n] >= 1
  OBVIOUS
<1>1. CASE deps[n] = {}
  BY <1>1 DEF Chain
<1>2. CASE deps[n] # {}
  <2>1. PICK d \in deps[n] : f[n] = f[d] + 1
    BY <1>2 DEF Chain
  <2>2. f[d] \in Nat
    BY DEF Closed
  <2> QED BY <2>1, <2>2
<1> QED BY <1>1, <1>2

\* The whole of what depends on the graph alone.
LEMMA GraphKeeps ==
    ASSUME UNCHANGED graph
    PROVE  /\ Sound' = Sound
           /\ \A f : Chain(f)' = Chain(f)
           /\ TopInv' = TopInv
           /\ BatchInv' = BatchInv
<1>1. UNCHANGED <<nodes, deps>> /\ UNCHANGED <<given, batched>>
  BY DEF graph
<1>2. Sound' = Sound
  BY <1>1, SameGraph DEF Sound
<1>3. \A f : Chain(f)' = Chain(f)
  BY <1>1 DEF Chain
<1>4. TopInv' = TopInv
  BY <1>1, <1>3 DEF TopInv
<1>5. BatchInv' = BatchInv
  BY <1>1 DEF BatchInv
<1> QED BY <1>2, <1>3, <1>4, <1>5

-----------------------------------------------------------------------------
(* The steps *)

LEMMA InitPass == Init => PassInv
<1> SUFFICES ASSUME Init PROVE PassInv
  OBVIOUS
<1> USE DEF Init
<1>1. /\ phase = "analyze" /\ checks = 1 /\ check = "validate"
      /\ batched = {} /\ nodes = given /\ Batch \notin nodes
  BY BatchAssumption
<1>2. DepthInv /\ SoundInv /\ TopInv /\ LimitInv /\ WaveDepthInv
  BY <1>1 DEF DepthInv, SoundInv, Screened, Raised, TopInv, LimitInv, WaveDepthInv, Scheduling
<1>3. BatchInv
  BY <1>1 DEF BatchInv
<1> QED BY <1>2, <1>3 DEF PassInv

\* While an analysis is under way, only what it raises or lets through counts.
LEMMA RaisePass ==
    ASSUME Core, Core', PassInv,
           RejectEmpty \/ RejectMissing \/ RejectOrphans \/ RejectCycle \/ RejectDisconnected
    PROVE  PassInv'
<1> USE DEF Raise, Core
<1>1. PICK why \in Raised : Raise(why)
  BY DEF RejectEmpty, RejectMissing, RejectOrphans, RejectCycle, RejectDisconnected, Raised
<1>2. /\ phase \in {"analyze", "sort", "connect"} /\ phase' \in Raised
      /\ UNCHANGED <<graph, asked>>
  BY <1>1 DEF RejectEmpty, RejectMissing, RejectOrphans, RejectCycle, RejectDisconnected
<1>3. UNCHANGED <<nodes, deps, limit, checks, check>>
  BY <1>2 DEF graph, asked
<1>4. Sound' = Sound /\ TopInv' /\ BatchInv' /\ \A f : Chain(f)' = Chain(f)
  BY <1>2, GraphKeeps DEF PassInv
<1>5. ~Sound
  <2>1. CASE RejectEmpty
    BY <2>1 DEF RejectEmpty, Sound
  <2>2. CASE RejectMissing
    BY <2>2 DEF RejectMissing, Sound, Lacking, Closed
  <2>3. CASE RejectOrphans
    <3>1. phase' = "orphan"
      BY <2>3 DEF RejectOrphans
    <3> QED BY <1>4, <3>1 DEF RejectsExactly, Sound
  <2>4. CASE RejectCycle
    <3>1. phase' = "circular"
      BY <2>4 DEF RejectCycle
    <3> QED BY <1>4, <3>1 DEF RejectsExactly, Sound
  <2>5. CASE RejectDisconnected
    <3>1. phase' = "disconnected"
      BY <2>5 DEF RejectDisconnected
    <3> QED BY <1>4, <3>1 DEF RejectsExactly, Sound
  <2> QED BY <2>1, <2>2, <2>3, <2>4, <2>5
<1>6. ~Screened
  BY <1>5 DEF PassInv, SoundInv
<1>7. /\ batched = {} /\ UNCHANGED batched
      /\ phase' \notin {"sort", "connect", "flatten", "validated"} \cup Scheduling
  BY <1>2, <1>6 DEF PassInv, SoundInv, Raised, Scheduling, graph
<1>8. ~Screened'
  BY <1>3, <1>6, <1>7 DEF Screened
<1>9. DepthInv' /\ SoundInv' /\ WaveDepthInv'
  BY <1>7, <1>8 DEF DepthInv, SoundInv, WaveDepthInv, Scheduling
<1>10. LimitInv'
  BY <1>3, <1>7, <1>8 DEF LimitInv, Screened
<1> QED BY <1>4, <1>9, <1>10 DEF PassInv

\* The steps of an analysis leave the graph and the question alone.
LEMMA AnalysisKeeps ==
    ASSUME PassInv, UNCHANGED <<graph, asked>>,
           phase \in {"analyze", "sort", "connect"}, phase' \in {"sort", "connect"}
    PROVE  /\ SoundInv' /\ TopInv' /\ LimitInv' /\ BatchInv' /\ WaveDepthInv'
           /\ \A f : Chain(f)' = Chain(f)
<1>1. UNCHANGED <<nodes, deps, batched, limit, checks, check>>
  BY DEF graph, asked
<1>2. Sound' = Sound /\ TopInv' /\ BatchInv' /\ \A f : Chain(f)' = Chain(f)
  BY GraphKeeps DEF PassInv
<1>3. Screened' = Screened
  BY <1>1 DEF Screened, Scheduling
<1>4. SoundInv'
  BY <1>1, <1>2, <1>3 DEF PassInv, SoundInv, Raised, Scheduling
<1>5. LimitInv'
  BY <1>1, <1>2 DEF PassInv, LimitInv
<1>6. WaveDepthInv'
  BY DEF WaveDepthInv, Scheduling
<1> QED BY <1>2, <1>4, <1>5, <1>6

LEMMA StartSortPass ==
    ASSUME Core, PassInv, StartSort
    PROVE  PassInv'
<1> USE DEF StartSort
<1>1. /\ phase = "analyze" /\ phase' = "sort" /\ UNCHANGED <<graph, asked>>
      /\ nodes' = nodes /\ visited' = {} /\ depth' = [n \in Id |-> 1]
  BY DEF graph
<1>2. nodes \subseteq Id
  BY DEF Core, GraphInv, TypeOK
<1>3. SortDepth'
  BY <1>1, <1>2 DEF SortDepth
<1>4. DepthInv'
  BY <1>1, <1>3 DEF DepthInv, Scheduling
<1> QED BY <1>1, <1>4, AnalysisKeeps DEF PassInv

LEMMA VisitPass ==
    ASSUME Core, PassInv, NEW n \in Id, Visit(n)
    PROVE  PassInv'
<1> USE DEF Visit
<1>1. /\ phase = "sort" /\ phase' = "sort" /\ UNCHANGED <<graph, asked>>
      /\ nodes' = nodes /\ deps' = deps /\ visited' = visited \cup {n}
      /\ n \in queue
  BY DEF graph
<1>2. /\ n \in nodes \ visited /\ deps[n] \subseteq visited
      /\ \A m \in visited : deps[m] \subseteq visited
      /\ visited \subseteq nodes /\ nodes \subseteq Id
      /\ depth \in [Id -> Nat]
  <2>1. SortInv /\ TypeOK
    BY DEF Core, GraphInv
  <2>2. n \in nodes \ visited /\ inbound[n] = 0 /\ inbound[n] = Cardinality(deps[n] \ visited)
    BY <1>1, <2>1 DEF SortInv
  <2>3. IsFiniteSet(deps[n] \ visited)
    BY <2>1, FiniteDeps, FS_Subset
  <2>4. deps[n] \ visited = {}
    BY <2>2, <2>3, FS_EmptySet
  <2> QED BY <1>1, <2>1, <2>2, <2>4 DEF SortInv, TypeOK
<1>3. /\ depth'[n] = depth[n]
      /\ \A d \in visited : depth'[d] = depth[d]
      /\ \A m \in nodes : depth'[m] = IF n \in deps[m] THEN Larger(depth[m], depth[n] + 1)
                                                       ELSE depth[m]
  BY <1>2 DEF Children
<1>4. SortDepth
  BY <1>1 DEF PassInv, DepthInv
<1>5. depth[n] >= 1 /\ depth[n] \in Nat
  BY <1>2, <1>4 DEF SortDepth
<1>6. ASSUME NEW m \in nodes
      PROVE  /\ depth'[m] >= 1
             /\ \A d \in deps[m] \cap visited' : depth'[m] > depth'[d]
             /\ deps[m] \cap visited' = {} => depth'[m] = 1
             /\ depth'[m] # 1 => \E d \in deps[m] \cap visited' : depth'[m] = depth'[d] + 1
  <2>1. /\ depth[m] \in Nat /\ depth[m] >= 1
        /\ \A d \in deps[m] \cap visited : depth[d] \in Nat /\ depth[m] > depth[d]
        /\ deps[m] \cap visited = {} => depth[m] = 1
        /\ depth[m] # 1 => \E d \in deps[m] \cap visited : depth[m] = depth[d] + 1
    BY <1>2, <1>4 DEF SortDepth
  <2>2. CASE n \notin deps[m]
    <3>1. deps[m] \cap visited' = deps[m] \cap visited /\ depth'[m] = depth[m]
      BY <1>1, <1>3, <2>2
    <3> QED BY <1>3, <2>1, <3>1
  <2>3. CASE n \in deps[m]
    <3>1. depth'[m] = Larger(depth[m], depth[n] + 1)
      BY <1>3, <2>3
    <3>2. depth'[m] >= depth[m] /\ depth'[m] >= depth[n] + 1 /\ depth'[m] \in Nat
      BY <1>5, <2>1, <3>1 DEF Larger
    <3>3. depth'[m] = depth[n] + 1 \/ depth'[m] = depth[m]
      BY <3>1 DEF Larger
    <3>4. \A d \in deps[m] \cap visited' : depth'[m] > depth'[d]
      <4> TAKE d \in deps[m] \cap visited'
      <4>1. CASE d = n
        BY <1>3, <1>5, <3>2, <4>1
      <4>2. CASE d \in visited
        BY <1>3, <2>1, <3>2, <4>2
      <4> QED BY <1>1, <4>1, <4>2
    <3>5. \E d \in deps[m] \cap visited' : depth'[m] = depth'[d] + 1
      <4>1. CASE depth'[m] = depth[n] + 1
        BY <1>1, <1>3, <2>3, <4>1
      <4>2. CASE depth'[m] # depth[n] + 1
        <5>1. depth'[m] = depth[m] /\ depth[m] # 1
          BY <1>5, <3>2, <3>3, <4>2
        <5>2. PICK d \in deps[m] \cap visited : depth[m] = depth[d] + 1
          BY <2>1, <5>1
        <5> QED BY <1>1, <1>3, <5>1, <5>2
      <4> QED BY <4>1, <4>2
    <3>6. deps[m] \cap visited' # {}
      BY <1>1, <2>3
    <3>7. depth'[m] >= 1
      BY <1>5, <3>2
    <3> HIDE DEF Visit
    <3> QED BY <3>4, <3>5, <3>6, <3>7
  <2> QED BY <2>2, <2>3
<1>7. SortDepth'
  BY <1>1, <1>6 DEF SortDepth
<1>8. DepthInv'
  BY <1>1, <1>7 DEF DepthInv, Scheduling
<1> QED BY <1>1, <1>8, AnalysisKeeps DEF PassInv

\* When every task has been visited, the depth map is complete.
LEMMA StartConnectPass ==
    ASSUME Core, PassInv, StartConnect
    PROVE  PassInv'
<1> USE DEF StartConnect
<1>1. /\ phase = "sort" /\ phase' = "connect" /\ UNCHANGED <<graph, asked, depth>>
      /\ visited = nodes
  BY DEF sort
<1>2. SortDepth /\ Closed /\ nodes \subseteq Id /\ depth \in [Id -> Nat]
  BY <1>1 DEF Core, GraphInv, SortInv, TypeOK, PassInv, DepthInv
<1>3. Chain(depth)
  <2> SUFFICES ASSUME NEW n \in nodes
               PROVE  /\ \A d \in deps[n] : depth[n] > depth[d]
                      /\ deps[n] = {} => depth[n] = 1
                      /\ deps[n] # {} => \E d \in deps[n] : depth[n] = depth[d] + 1
    BY DEF Chain
  <2>1. deps[n] \cap visited = deps[n]
    BY <1>1, <1>2 DEF Closed
  <2>2. /\ \A d \in deps[n] : depth[n] > depth[d]
        /\ deps[n] = {} => depth[n] = 1
        /\ depth[n] # 1 => \E d \in deps[n] : depth[n] = depth[d] + 1
    BY <1>2, <2>1 DEF SortDepth
  <2>3. ASSUME deps[n] # {} PROVE depth[n] # 1
    <3>1. PICK d \in deps[n] : TRUE
      BY <2>3
    <3>2. d \in nodes /\ depth[d] \in Nat /\ depth[n] \in Nat
      BY <1>2 DEF Closed
    <3> QED BY <1>2, <2>2, <3>2 DEF SortDepth
  <2> QED BY <2>2, <2>3
<1>4. Chain(depth)'
  BY <1>1, <1>3 DEF Chain, graph
<1>5. DepthInv'
  BY <1>1, <1>4 DEF DepthInv, Scheduling
<1> QED BY <1>1, <1>5, AnalysisKeeps DEF PassInv

LEMMA ConnectPass ==
    ASSUME Core, PassInv, NEW n \in Id, Connect(n)
    PROVE  PassInv'
<1>1. /\ phase = "connect" /\ phase' = "connect" /\ UNCHANGED <<graph, asked, depth>>
  BY DEF Connect, sort
<1>2. Chain(depth)'
  BY <1>1 DEF PassInv, DepthInv, Chain, graph
<1>3. DepthInv'
  BY <1>1, <1>2 DEF DepthInv, Scheduling
<1> QED BY <1>1, <1>3, AnalysisKeeps DEF PassInv

\* The analysis returns.
LEMMA AnalyzedPass ==
    ASSUME Core, Core', PassInv, Analyzed
    PROVE  PassInv'
<1> USE DEF Analyzed
<1>1. /\ phase = "connect" /\ pending = {} /\ connected = nodes
      /\ UNCHANGED <<graph, asked>>
      /\ UNCHANGED <<nodes, deps, batched, limit, checks, check, depth>>
  BY DEF graph, asked, sort
<1>2. Sound
  BY <1>1, NotApart DEF Core, GraphInv, ConnectInv, RejectsExactly, Sound
<1>3. /\ Sound' /\ TopInv' /\ BatchInv' /\ Chain(depth) /\ Chain(depth)'
      /\ \A f : Chain(f)' = Chain(f)
  <2>1. Sound' /\ TopInv' /\ BatchInv' /\ \A f : Chain(f)' = Chain(f)
    BY <1>1, <1>2, GraphKeeps DEF PassInv
  <2>2. Chain(depth)
    BY <1>1 DEF PassInv, DepthInv
  <2>3. Chain(depth)'
    BY <1>1, <2>2 DEF Chain
  <2> QED BY <2>1, <2>2, <2>3
<1>4. waves = <<>> /\ wave = {} /\ depth \in [Id -> Nat] /\ nodes \subseteq Id
      /\ limit \in Nat
  BY <1>1, LimitsAssumption DEF Core, GraphInv, WaveInv, Scheduling, TypeOK
<1>5. CASE check = "validate"
  <2>1. phase' = IF TooDeep THEN "flatten" ELSE "validated"
    BY <1>5
  <2>2. DepthInv'
    <3>1. TooDeep' = TooDeep
      BY <1>1 DEF TooDeep
    <3> QED BY <1>3, <2>1, <3>1 DEF DepthInv, Scheduling
  <2>3. SoundInv'
    BY <1>1, <1>3, <1>5, <2>1 DEF SoundInv, Screened, Raised, Scheduling
  <2>4. LimitInv'
    <3> SUFFICES ASSUME phase' = "validated"
                 PROVE  \E f \in [Id -> Nat] : Chain(f)' /\ \A n \in nodes : f[n] <= limit
      BY <1>1, <1>5 DEF LimitInv
    <3>1. \A n \in nodes : ~(depth[n] > limit)
      BY <2>1 DEF TooDeep
    <3>2. \A n \in nodes : depth[n] <= limit
      BY <1>4, <3>1
    <3> QED BY <1>3, <1>4, <3>2
  <2>5. WaveDepthInv'
    BY <2>1 DEF WaveDepthInv, Scheduling
  <2> QED BY <1>3, <2>2, <2>3, <2>4, <2>5 DEF PassInv
<1>6. CASE check # "validate"
  <2>1. phase' = "waves" /\ waves' = <<>> /\ check = "measure"
    BY <1>4, <1>6 DEF Core, GraphInv, TypeOK
  <2>2. DepthInv' /\ SoundInv'
    BY <1>1, <1>3, <2>1 DEF DepthInv, SoundInv, Screened, Raised, Scheduling
  <2>3. LimitInv'
    BY <1>1, <1>3, <2>1 DEF PassInv, LimitInv
  <2>4. WaveDepthInv'
    <3>1. Sent' = {}
      BY <2>1 DEF Sent, Scheduled
    <3>2. \A n \in nodes : depth[n] >= 1 /\ depth[n] \in Nat
      BY <1>2, <1>3, <1>4, ChainPositive DEF Sound
    <3>3. {n \in nodes' : depth'[n] <= Len(waves')} = {}
      BY <1>1, <2>1, <3>2
    <3> QED BY <2>1, <3>1, <3>3 DEF WaveDepthInv
  <2> QED BY <1>3, <2>2, <2>3, <2>4 DEF PassInv
<1> QED BY <1>5, <1>6

-----------------------------------------------------------------------------
(* Batching *)

\* What the new batch is made of: everything from the limit on, an old batch
\* included, and it waits only for tasks that stay, one of them just below.
LEMMA FlattenShape ==
    ASSUME Core, PassInv, Flatten
    PROVE  /\ Sound /\ Chain(depth) /\ depth \in [Id -> Nat] /\ limit \in Nat \ {0}
           /\ Deep # {} /\ Deep \subseteq nodes /\ nodes \subseteq Id
           /\ Batch \notin nodes \ Deep
           /\ \A n \in nodes \ Deep : depth[n] < limit /\ deps[n] \subseteq nodes \ Deep
           /\ \A n \in nodes : Batch \notin deps[n]
           /\ nodes' = (nodes \ Deep) \cup {Batch}
           /\ \A d : d \in deps'[Batch] <=> d \notin Deep /\ \E n \in Deep : d \in deps[n]
           /\ deps'[Batch] \subseteq nodes \ Deep
           /\ \A n \in Id \ {Batch} : deps'[n] = deps[n]
           /\ limit = 1 => deps'[Batch] = {}
           /\ limit # 1 => \E d \in deps'[Batch] : limit = depth[d] + 1
<1>1. /\ phase = "flatten" /\ TooDeep /\ Sound /\ Chain(depth)
      /\ depth \in [Id -> Nat] /\ limit \in Nat \ {0} /\ nodes \subseteq Id
      /\ deps \in [Id -> SUBSET Node] /\ Batch \in Id
  BY LimitsAssumption
     DEF Flatten, PassInv, DepthInv, SoundInv, Screened, Core, GraphInv, TypeOK, Id
<1>2. Deep # {} /\ Deep \subseteq nodes
  <2>1. PICK n \in nodes : depth[n] > limit
    BY <1>1 DEF TooDeep
  <2>2. depth[n] \in Nat
    BY <1>1
  <2> QED BY <1>1, <2>1, <2>2 DEF Deep
<1>3. Batch \notin nodes \ Deep
  <2> SUFFICES ASSUME Batch \in nodes PROVE Batch \in Deep
    OBVIOUS
  <2>1. PICK f \in [Id -> Nat] : Chain(f) /\ \A n \in nodes : f[n] <= f[Batch]
    BY DEF PassInv, TopInv
  <2>2. \A n \in nodes : depth[n] = f[n]
    BY <1>1, <2>1, ChainUnique DEF Sound
  <2>3. PICK n \in nodes : depth[n] > limit
    BY <1>1 DEF TooDeep
  <2>4. depth[n] <= depth[Batch] /\ depth[n] \in Nat /\ depth[Batch] \in Nat
    BY <1>1, <2>1, <2>2
  <2> QED BY <1>1, <2>3, <2>4 DEF Deep
<1>4. \A n \in nodes \ Deep : depth[n] < limit /\ deps[n] \subseteq nodes \ Deep
  <2> SUFFICES ASSUME NEW n \in nodes \ Deep
               PROVE  depth[n] < limit /\ deps[n] \subseteq nodes \ Deep
    OBVIOUS
  <2>1. depth[n] \in Nat /\ depth[n] < limit
    BY <1>1 DEF Deep
  <2>2. \A d \in deps[n] : d \in nodes /\ depth[d] \in Nat /\ depth[n] > depth[d]
    BY <1>1 DEF Chain, Sound, Closed
  <2>3. \A d \in deps[n] : ~(depth[d] >= limit)
    BY <1>1, <2>1, <2>2
  <2> QED BY <2>1, <2>2, <2>3 DEF Deep
<1>5. \A n \in nodes : Batch \notin deps[n]
  BY <1>1, BatchAssumption
<1>6. /\ nodes' = (nodes \ Deep) \cup {Batch}
      /\ \A d : d \in deps'[Batch] <=> d \notin Deep /\ \E n \in Deep : d \in deps[n]
      /\ \A n \in Id \ {Batch} : deps'[n] = deps[n]
  <2>1. deps'[Batch] = {d \in Node \ Deep : \E n \in Deep : d \in deps[n]}
    BY <1>1 DEF Flatten
  <2>2. \A n \in Deep : deps[n] \subseteq Node
    BY <1>1, <1>2
  <2> QED BY <1>1, <2>1, <2>2 DEF Flatten
<1>7. deps'[Batch] \subseteq nodes \ Deep
  BY <1>1, <1>2, <1>6 DEF Sound, Closed
<1>8. PICK e \in Deep : deps[e] \cap Deep = {}
  BY <1>1, <1>2 DEF Sound, Cyclic
<1>9. depth[e] \in Nat /\ depth[e] >= limit /\ e \in nodes
  BY <1>1, <1>2, <1>8 DEF Deep
<1>10. ASSUME limit = 1 PROVE deps'[Batch] = {}
  <2>1. \A d \in nodes : depth[d] \in Nat /\ depth[d] >= 1
    BY <1>1, ChainPositive DEF Sound
  <2>2. nodes \ Deep = {}
    BY <1>10, <2>1 DEF Deep
  <2> QED BY <1>7, <2>2
<1>11. ASSUME limit # 1 PROVE \E d \in deps'[Batch] : limit = depth[d] + 1
  <2>1. deps[e] # {}
    BY <1>1, <1>9, <1>11 DEF Chain
  <2>2. PICK d \in deps[e] : depth[e] = depth[d] + 1
    BY <1>1, <1>9, <2>1 DEF Chain
  <2>3. d \in nodes \ Deep
    BY <1>1, <1>8, <1>9 DEF Sound, Closed
  <2>4. depth[d] \in Nat /\ depth[d] < limit
    BY <1>1, <1>4, <2>3
  <2>5. limit = depth[d] + 1
    BY <1>1, <1>9, <2>2, <2>4
  <2> QED BY <1>6, <1>8, <2>3, <2>5
<1> QED BY <1>1, <1>2, <1>3, <1>4, <1>5, <1>6, <1>7, <1>10, <1>11

\* The batched graph is one an analysis accepts.
LEMMA FlattenSound ==
    ASSUME Core, PassInv, Flatten
    PROVE  Sound'
<1> DEFINE Stay == nodes \ Deep
<1>1. /\ Sound /\ Deep # {} /\ Deep \subseteq nodes /\ nodes \subseteq Id
      /\ Batch \notin Stay
      /\ \A n \in Stay : deps[n] \subseteq Stay
      /\ \A n \in nodes : Batch \notin deps[n]
      /\ nodes' = Stay \cup {Batch}
      /\ \A d : d \in deps'[Batch] <=> d \notin Deep /\ \E n \in Deep : d \in deps[n]
      /\ deps'[Batch] \subseteq Stay
      /\ \A n \in Stay : deps'[n] = deps[n]
  BY FlattenShape
<1> HIDE DEF Stay
<1>2. nodes' # {} /\ Closed'
  BY <1>1 DEF Closed
<1>3. ~Cyclic'
  <2> SUFFICES ASSUME NEW S \in SUBSET nodes', S # {},
                      \A n \in S : deps'[n] \cap S # {}
               PROVE  FALSE
    BY DEF Cyclic
  <2> DEFINE T == S \ {Batch}
  <2>1. T \subseteq Stay /\ T \subseteq nodes
    BY <1>1 DEF Stay
  <2>2. \A n \in T : deps[n] \cap T # {}
    BY <1>1, <2>1
  <2>3. T # {}
    BY <1>1
  <2> HIDE DEF T
  <2> QED BY <1>1, <2>1, <2>2, <2>3 DEF Sound, Cyclic
<1>4. ASSUME NEW S \in SUBSET Stay, S # {}, \A n \in S : Neighbours(n)' \subseteq S
      PROVE  FALSE
  <2>1. S \in SUBSET nodes /\ S # nodes
    BY <1>1 DEF Stay
  <2>2. ASSUME NEW n \in S, NEW m \in Neighbours(n) PROVE m \in S
    <3>1. m \in nodes /\ (m \in deps[n] \/ n \in deps[m]) /\ n \in Stay
      BY <2>2 DEF Neighbours
    <3>2. CASE m \in deps[n]
      <4>1. m \in Neighbours(n)'
        BY <1>1, <3>1, <3>2 DEF Neighbours
      <4> QED BY <1>4, <4>1
    <3>3. CASE n \in deps[m] /\ m \in Stay
      <4>1. m \in Neighbours(n)'
        BY <1>1, <3>1, <3>3 DEF Neighbours
      <4> QED BY <1>4, <4>1
    <3>4. CASE n \in deps[m] /\ m \notin Stay
      <4>1. m \in Deep /\ n \notin Deep
        BY <3>1, <3>4 DEF Stay
      <4>2. n \in deps'[Batch]
        BY <1>1, <3>4, <4>1
      <4>3. Batch \in Neighbours(n)'
        BY <1>1, <4>2 DEF Neighbours
      <4> QED BY <1>1, <1>4, <4>3
    <3> QED BY <3>1, <3>2, <3>3, <3>4
  <2> QED BY <1>1, <1>4, <2>1, <2>2 DEF Sound, Apart
<1>5. ~Apart'
  <2> SUFFICES ASSUME NEW S \in SUBSET nodes', S # {}, S # nodes',
                      \A n \in S : Neighbours(n)' \subseteq S
               PROVE  FALSE
    BY DEF Apart
  <2>1. CASE Batch \notin S
    BY <1>1, <1>4, <2>1
  <2>2. CASE Batch \in S
    <3> DEFINE T == nodes' \ S
    <3>1. T \in SUBSET Stay /\ T # {}
      BY <1>1, <2>2
    <3>2. \A n \in T : Neighbours(n)' \subseteq T
      BY DEF Neighbours
    <3> QED BY <1>4, <3>1, <3>2
  <2> QED BY <2>1, <2>2
<1> QED BY <1>2, <1>3, <1>5 DEF Sound

\* The batch has the depth of the limit, the others the depth they had.
LEMMA FlattenDepths ==
    ASSUME Core, PassInv, Flatten
    PROVE  TopInv' /\ LimitInv'
<1>1. PICK f \in [Id -> Nat] : f = [depth EXCEPT ![Batch] = limit]
  BY FlattenShape
<1>2. f[Batch] = limit /\ \A n \in nodes \ Deep : f[n] = depth[n] /\ n # Batch /\ n \in Id
  BY <1>1, FlattenShape DEF Id
<1>3. nodes' = (nodes \ Deep) \cup {Batch} /\ limit \in Nat /\ limit' = limit
  BY FlattenShape DEF Flatten, asked
<1>4. \A n \in nodes \ Deep : f[n] < limit /\ deps'[n] = deps[n] /\ deps[n] \subseteq nodes \ Deep
  BY <1>2, FlattenShape
<1>5. Chain(f)'
  <2>1. ASSUME NEW n \in nodes \ Deep
        PROVE  /\ \A d \in deps'[n] : f[n] > f[d]
               /\ deps'[n] = {} => f[n] = 1
               /\ deps'[n] # {} => \E d \in deps'[n] : f[n] = f[d] + 1
    <3>1. /\ \A d \in deps[n] : depth[n] > depth[d]
          /\ deps[n] = {} => depth[n] = 1
          /\ deps[n] # {} => \E d \in deps[n] : depth[n] = depth[d] + 1
      BY FlattenShape DEF Chain
    <3>2. deps'[n] = deps[n] /\ f[n] = depth[n] /\ \A d \in deps[n] : f[d] = depth[d]
      BY <1>2, <1>4
    <3> QED BY <3>1, <3>2
  <2>2. /\ \A d \in deps'[Batch] : f[Batch] > f[d]
        /\ deps'[Batch] = {} => f[Batch] = 1
        /\ deps'[Batch] # {} => \E d \in deps'[Batch] : f[Batch] = f[d] + 1
    <3>1. deps'[Batch] \subseteq nodes \ Deep
      BY FlattenShape
    <3>2. /\ limit = 1 => deps'[Batch] = {}
          /\ limit # 1 => \E d \in deps'[Batch] : limit = depth[d] + 1
      BY FlattenShape
    <3>3. \A d \in deps'[Batch] : f[d] \in Nat /\ f[d] < limit /\ f[d] = depth[d]
      BY <1>1, <1>2, <1>4, <3>1
    <3> QED BY <1>2, <1>3, <3>2, <3>3
  <2> QED BY <1>3, <2>1, <2>2 DEF Chain
<1>6. \A n \in nodes' : f[n] <= limit
  <2>1. \A n \in nodes \ Deep : f[n] \in Nat /\ f[n] <= limit
    BY <1>1, <1>2, <1>3, <1>4
  <2> QED BY <1>2, <1>3, <2>1
<1>7. TopInv'
  BY <1>2, <1>5, <1>6 DEF TopInv
<1>8. LimitInv'
  BY <1>3, <1>5, <1>6 DEF LimitInv
<1> QED BY <1>7, <1>8

LEMMA FlattenPass ==
    ASSUME Core, PassInv, Flatten
    PROVE  PassInv'
<1>1. /\ Deep \subseteq nodes /\ Batch \notin nodes \ Deep
      /\ \A n \in nodes \ Deep : deps[n] \subseteq nodes \ Deep
      /\ \A n \in nodes : Batch \notin deps[n]
      /\ nodes' = (nodes \ Deep) \cup {Batch}
      /\ \A d : d \in deps'[Batch] <=> d \notin Deep /\ \E n \in Deep : d \in deps[n]
      /\ \A n \in Id \ {Batch} : deps'[n] = deps[n]
      /\ nodes \subseteq Id
  BY FlattenShape
<1>2. /\ phase' = "validated" /\ check' = "validate" /\ given' = given
      /\ batched' = batched \cup (Deep \ {Batch})
      /\ batched \subseteq Id \ {Batch}
  BY <1>1, BatchAssumption
     DEF Flatten, asked, PassInv, SoundInv, Core, GraphInv, TypeOK, Id
<1>3. BatchInv'
  <2>1. /\ batched # {} => Batch \in nodes
        /\ \A n \in nodes : deps[n] \cap batched = {}
        /\ \A n \in batched : deps[n] \subseteq batched \cup deps[Batch]
        /\ (nodes \ {Batch}) \cup batched = given
    BY DEF PassInv, BatchInv
  <2>2. \A n \in nodes' : deps'[n] \cap batched' = {}
    <3>1. \A n \in nodes \ Deep : n \in Id \ {Batch} /\ deps'[n] \cap batched' = {}
      BY <1>1, <1>2, <2>1
    <3>2. deps'[Batch] \cap batched' = {}
      BY <1>1, <1>2, <2>1
    <3> QED BY <1>1, <3>1, <3>2
  <2>3. ASSUME NEW n \in batched' PROVE deps'[n] \subseteq batched' \cup deps'[Batch]
    <3>1. n \in Id \ {Batch} /\ deps'[n] = deps[n]
      BY <1>1, <1>2
    <3>2. \A m \in Deep : deps[m] \subseteq (Deep \ {Batch}) \cup deps'[Batch]
      BY <1>1
    <3>3. CASE n \in Deep
      BY <1>2, <3>1, <3>2, <3>3
    <3>4. CASE n \in batched
      <4>1. Batch \in Deep
        BY <1>1, <2>1, <3>4
      <4> QED BY <1>2, <2>1, <3>1, <3>2, <3>4, <4>1
    <3> QED BY <1>2, <2>3, <3>3, <3>4
  <2>4. (nodes' \ {Batch}) \cup batched' = given'
    BY <1>1, <1>2, <2>1
  <2>5. Batch \in nodes'
    BY <1>1
  <2> QED BY <2>2, <2>3, <2>4, <2>5 DEF BatchInv
<1>4. DepthInv' /\ SoundInv' /\ WaveDepthInv'
  BY <1>2, FlattenSound DEF DepthInv, SoundInv, Screened, WaveDepthInv, Scheduling, Raised
<1> QED BY <1>3, <1>4, FlattenDepths DEF PassInv

\* A batch or not, the graph comes back as the first analysis left it.
LEMMA AgainPass ==
    ASSUME Core, PassInv, Revalidate \/ Measure
    PROVE  PassInv'
<1>1. /\ phase = "validated" /\ phase' = "analyze" /\ UNCHANGED graph
      /\ UNCHANGED <<nodes, deps, batched>>
      /\ check = "validate" /\ Sound
  BY DEF Revalidate, Measure, graph, PassInv, SoundInv, Screened
<1>2. Sound' /\ TopInv' /\ BatchInv' /\ \A f : Chain(f)' = Chain(f)
  BY <1>1, GraphKeeps DEF PassInv
<1>3. Screened'
  BY DEF Screened, Revalidate, Measure, Core, GraphInv, TypeOK
<1>4. SoundInv' /\ DepthInv' /\ WaveDepthInv'
  BY <1>1, <1>2, <1>3 DEF SoundInv, DepthInv, WaveDepthInv, Scheduling, Raised
<1>5. CASE Revalidate
  <2>1. check' = "validate"
    BY <1>1, <1>5 DEF Revalidate
  <2> QED BY <1>1, <1>2, <1>4, <2>1 DEF PassInv, LimitInv
<1>6. CASE Measure
  <2>1. PICK f \in [Id -> Nat] : Chain(f) /\ \A n \in nodes : f[n] <= limit
    BY <1>1 DEF PassInv, LimitInv
  <2>2. Chain(f)' /\ \A n \in nodes' : f[n] <= limit'
    BY <1>1, <1>2, <1>6, <2>1 DEF Measure
  <2> QED BY <1>2, <1>4, <2>2 DEF PassInv, LimitInv
<1> QED BY <1>5, <1>6

-----------------------------------------------------------------------------
(* The waves *)

\* A wave is the tasks of the next depth.
LEMMA WaveIsDepth ==
    ASSUME Core, PassInv, phase = "waves"
    PROVE  /\ wave = {n \in nodes : depth[n] = Len(waves) + 1}
           /\ Len(waves) \in Nat /\ \A n \in nodes : depth[n] \in Nat
<1>1. /\ Closed /\ Chain(depth) /\ Sent = {n \in nodes : depth[n] <= Len(waves)}
      /\ \A n \in nodes : depth[n] \in Nat
      /\ Len(waves) \in Nat
  BY DEF PassInv, SoundInv, Screened, Scheduling, Sound, DepthInv, WaveDepthInv,
         Core, GraphInv, TypeOK
<1>2. /\ wave = {n \in nodes \ Sent : inbound[n] = 0}
      /\ \A n \in nodes : inbound[n] = Cardinality(deps[n] \ Sent)
  BY DEF Core, GraphInv, WaveInv
<1>3. ASSUME NEW n \in wave PROVE depth[n] = Len(waves) + 1
  <2>1. n \in nodes /\ n \notin Sent /\ deps[n] \subseteq Sent
    BY <1>2, WaveReady DEF Core
  <2>2. depth[n] \in Nat /\ depth[n] > Len(waves)
    BY <1>1, <2>1
  <2>3. CASE deps[n] = {}
    BY <1>1, <2>1, <2>2, <2>3 DEF Chain
  <2>4. CASE deps[n] # {}
    <3>1. PICK d \in deps[n] : depth[n] = depth[d] + 1
      BY <1>1, <2>1, <2>4 DEF Chain
    <3>2. depth[d] \in Nat /\ depth[d] <= Len(waves)
      BY <1>1, <2>1
    <3> QED BY <1>1, <2>2, <3>1, <3>2
  <2> QED BY <2>3, <2>4
<1>4. ASSUME NEW n \in nodes, depth[n] = Len(waves) + 1 PROVE n \in wave
  <2>1. \A d \in deps[n] : d \in nodes /\ depth[d] \in Nat /\ depth[n] > depth[d]
    BY <1>1 DEF Closed, Chain
  <2>2. \A d \in deps[n] : depth[d] <= Len(waves)
    BY <1>1, <1>4, <2>1
  <2>3. deps[n] \ Sent = {}
    BY <1>1, <2>1, <2>2
  <2>4. inbound[n] = 0
    BY <1>2, <2>3, FS_EmptySet
  <2>5. n \notin Sent
    BY <1>1, <1>4
  <2> QED BY <1>2, <2>4, <2>5
<1> QED BY <1>1, <1>2, <1>3, <1>4

\* The steps of get_execution_waves change neither graph nor depths.
LEMMA WavesKeep ==
    ASSUME PassInv, UNCHANGED <<graph, asked, depth>>,
           phase = "waves", phase' \in Scheduling
    PROVE  DepthInv' /\ SoundInv' /\ TopInv' /\ LimitInv' /\ BatchInv'
<1>1. UNCHANGED <<nodes, deps, batched, limit, checks, check>> /\ check = "measure"
  BY DEF graph, asked, PassInv, SoundInv, Scheduling
<1>2. Sound' = Sound /\ TopInv' /\ BatchInv' /\ \A f : Chain(f)' = Chain(f)
  BY GraphKeeps DEF PassInv
<1>3. Sound /\ Chain(depth)
  BY <1>1 DEF PassInv, SoundInv, DepthInv, Screened, Scheduling
<1>4. Chain(depth)'
  BY <1>1, <1>3 DEF Chain
<1>5. DepthInv' /\ SoundInv'
  BY <1>1, <1>2, <1>3, <1>4 DEF DepthInv, SoundInv, Screened, Scheduling, Raised
<1>6. LimitInv'
  BY <1>1, <1>2 DEF PassInv, LimitInv
<1> QED BY <1>2, <1>5, <1>6

LEMMA RunWavePass ==
    ASSUME Core, PassInv, RunWave
    PROVE  PassInv'
<1>1. /\ phase = "waves" /\ phase' = "waves" /\ waves' = Append(waves, wave)
      /\ UNCHANGED <<graph, asked, depth>> /\ nodes' = nodes
  BY DEF RunWave, graph
<1>2. /\ wave = {n \in nodes : depth[n] = Len(waves) + 1}
      /\ Len(waves) \in Nat /\ \A n \in nodes : depth[n] \in Nat
  BY <1>1, WaveIsDepth
<1>3. /\ Len(waves') = Len(waves) + 1
      /\ \A i \in 1..Len(waves) : waves'[i] = waves[i]
      /\ waves'[Len(waves) + 1] = wave
      /\ Sent' = Sent \cup wave
  BY <1>1, SentGrows DEF Core, GraphInv
<1>4. /\ \A i \in 1..Len(waves) : \A n \in waves[i] : depth[n] = i
      /\ Sent = {n \in nodes : depth[n] <= Len(waves)}
  BY <1>1 DEF PassInv, WaveDepthInv, Scheduling
<1>5. ASSUME NEW i \in 1..Len(waves'), NEW n \in waves'[i] PROVE depth[n] = i
  <2>1. CASE i \in 1..Len(waves)
    BY <1>3, <1>4, <1>5, <2>1
  <2>2. CASE i \notin 1..Len(waves)
    <3>1. i = Len(waves) + 1
      BY <1>2, <1>3, <2>2
    <3> QED BY <1>2, <1>3, <1>5, <3>1
  <2> QED BY <2>1, <2>2
<1>6. \A n \in nodes : depth[n] <= Len(waves) + 1 <=> depth[n] <= Len(waves) \/ depth[n] = Len(waves) + 1
  BY <1>2
<1>7. Sent' = {n \in nodes' : depth'[n] <= Len(waves')}
  <2>1. depth' = depth
    BY <1>1
  <2> QED BY <1>1, <1>2, <1>3, <1>4, <1>6, <2>1
<1>8. WaveDepthInv'
  BY <1>1, <1>5, <1>7 DEF WaveDepthInv
<1> QED BY <1>1, <1>8, WavesKeep DEF PassInv, Scheduling

\* The loop ends with no task left: tasks left would wait for each other.
LEMMA EndWavesPass ==
    ASSUME Core, PassInv, EndWaves
    PROVE  PassInv'
<1>1. /\ phase = "waves" /\ phase' = "done" /\ wave = {}
      /\ UNCHANGED <<graph, asked, depth, nodes, waves>>
  BY DEF EndWaves, graph, sort, plan
<1>2. Sent = nodes
  <2> SUFFICES ASSUME nodes \ Sent # {} PROVE FALSE
    BY <1>1 DEF Core, GraphInv, WaveInv
  <2>1. Closed /\ ~Cyclic
    BY <1>1 DEF PassInv, SoundInv, Screened, Scheduling, Sound
  <2>2. PICK n \in nodes \ Sent : deps[n] \cap (nodes \ Sent) = {}
    BY <2>1 DEF Cyclic
  <2>3. deps[n] \ Sent = {}
    BY <2>1, <2>2 DEF Closed
  <2>4. inbound[n] = 0
    BY <1>1, <2>2, <2>3, FS_EmptySet DEF Core, GraphInv, WaveInv
  <2> QED BY <1>1, <2>2, <2>4 DEF Core, GraphInv, WaveInv
<1>3. Sent' = nodes'
  BY <1>1, <1>2 DEF Sent, Scheduled
<1>4. WaveDepthInv'
  BY <1>1, <1>3 DEF PassInv, WaveDepthInv, Scheduling
<1> QED BY <1>1, <1>4, WavesKeep DEF PassInv, Scheduling

-----------------------------------------------------------------------------
LEMMA StepPass ==
    ASSUME Core, PassInv, [Next]_vars
    PROVE  Core' /\ PassInv'
<1>1. Core'
  BY StepInv DEF Core
<1> SUFFICES PassInv'
  BY <1>1
<1>2. CASE RejectEmpty \/ RejectMissing \/ RejectOrphans \/ RejectCycle \/ RejectDisconnected
  BY <1>1, <1>2, RaisePass
<1>3. CASE StartSort
  BY <1>3, StartSortPass
<1>4. ASSUME NEW n \in Id, Visit(n) PROVE PassInv'
  BY <1>4, VisitPass
<1>5. CASE StartConnect
  BY <1>5, StartConnectPass
<1>6. ASSUME NEW n \in Id, Connect(n) PROVE PassInv'
  BY <1>6, ConnectPass
<1>7. CASE Analyzed
  BY <1>1, <1>7, AnalyzedPass
<1>8. CASE Flatten
  BY <1>8, FlattenPass
<1>9. CASE Revalidate \/ Measure
  BY <1>9, AgainPass
<1>10. CASE RunWave
  BY <1>10, RunWavePass
<1>11. CASE EndWaves
  BY <1>11, EndWavesPass
<1>12. CASE UNCHANGED vars
  <2> USE <1>12 DEF vars
  <2>1. UNCHANGED graph /\ Sound' = Sound /\ TopInv' /\ BatchInv' /\ \A f : Chain(f)' = Chain(f)
    BY GraphKeeps DEF graph, PassInv
  <2>2. DepthInv'
    BY DEF PassInv, DepthInv, SortDepth, Chain, TooDeep
  <2>3. SoundInv' /\ LimitInv'
    BY <2>1 DEF PassInv, SoundInv, Screened, LimitInv
  <2>4. WaveDepthInv'
    BY DEF PassInv, WaveDepthInv, Sent, Scheduled
  <2> QED BY <2>1, <2>2, <2>3, <2>4 DEF PassInv
<1> QED BY <1>2, <1>3, <1>4, <1>5, <1>6, <1>7, <1>8, <1>9, <1>10, <1>11, <1>12 DEF Next

LEMMA AllPass == Spec => [](Core /\ PassInv)
<1>1. Init => Core /\ PassInv
  BY InitInv, InitPass DEF Core
<1>2. (Core /\ PassInv) /\ [Next]_vars => (Core /\ PassInv)'
  BY StepPass
<1> QED BY <1>1, <1>2, PTL DEF Spec

\* _analyze_dag computes for every task the length of its longest chain of
\* dependencies, in whatever order the queue is worked off.
THEOREM DepthsAreLongest == Spec => []DepthIsLongest
<1>1. PassInv => DepthIsLongest
  BY DEF PassInv, DepthInv, Chain, DepthIsLongest
<1> QED BY <1>1, AllPass, PTL

\* However often and with whatever limits validate_dag batches a graph, no
\* later analysis raises, what max_depth() then measures is within the last
\* limit, and the batch waits for all that its tasks wait for.
THEOREM BatchingFits == Spec => []FlattenFits
<1>1. ASSUME Core, PassInv PROVE FlattenFits
  <2>1. batched # {} => phase \notin Raised
    BY <1>1 DEF PassInv, SoundInv
  <2>2. ASSUME phase \in {"waves", "done"} PROVE ~TooDeep
    <3>1. Sound /\ Chain(depth) /\ check = "measure" /\ depth \in [Id -> Nat] /\ nodes \subseteq Id
      BY <1>1, <2>2 DEF PassInv, SoundInv, DepthInv, Screened, Scheduling, Core, GraphInv, TypeOK
    <3>2. PICK f \in [Id -> Nat] : Chain(f) /\ \A n \in nodes : f[n] <= limit
      BY <1>1, <3>1 DEF PassInv, LimitInv
    <3>3. \A n \in nodes : depth[n] = f[n]
      BY <3>1, <3>2, ChainUnique DEF Sound
    <3>4. \A n \in nodes : depth[n] <= limit /\ depth[n] \in Nat /\ limit \in Nat
      BY <1>1, <3>1, <3>2, <3>3, LimitsAssumption DEF Core, GraphInv, TypeOK
    <3>5. \A n \in nodes : ~(depth[n] > limit)
      BY <3>4
    <3> QED BY <3>5 DEF TooDeep
  <2>3. /\ \A n \in nodes : deps[n] \cap batched = {}
        /\ \A n \in batched : deps[n] \subseteq batched \cup deps[Batch]
    BY <1>1 DEF PassInv, BatchInv
  <2> QED BY <2>1, <2>2, <2>3 DEF FlattenFits
<1> QED BY <1>1, AllPass, PTL

\* get_execution_waves leaves no task of the mission's graph out, batched or
\* not, and puts each in the wave of its longest chain.
THEOREM WavesAreComplete == Spec => []WavesComplete
<1>1. PassInv => WavesComplete
  BY DEF PassInv, BatchInv, WaveDepthInv, Scheduling, Sent, WavesComplete
<1> QED BY <1>1, AllPass, PTL

-----------------------------------------------------------------------------
(* Every loop ends. *)

\* The stage is a number that the next call of an analysis puts past.
LEMMA StageNat ==
    ASSUME TypeOK
    PROVE  /\ Station \in 0..4 /\ Stage \in Nat
           /\ Stage = 5 * (checks + IF check = "measure" THEN 1 ELSE 0) + Station
<1>1. Station \in 0..4
  BY DEF Station
<1>2. checks \in Nat
  BY ChecksAssumption DEF TypeOK
<1> QED BY <1>1, <1>2 DEF Stage

\* A step of the same call that goes on to a later station.
LEMMA LaterStation ==
    ASSUME TypeOK, TypeOK', UNCHANGED asked, Station' > Station
    PROVE  Stage' > Stage
<1>1. checks' = checks /\ check' = check /\ checks \in Nat
  BY ChecksAssumption DEF asked, TypeOK
<1>2. Station \in 0..4 /\ Station' \in 0..4
  BY StageNat DEF Station
<1>3. PICK k \in Nat : k = checks + IF check = "measure" THEN 1 ELSE 0
  BY <1>1
<1>4. Stage = 5 * k + Station /\ Stage' = 5 * k + Station'
  BY <1>1, <1>3 DEF Stage
<1> QED BY <1>2, <1>3, <1>4

\* A turn of a loop.
LEMMA SameStage ==
    ASSUME UNCHANGED <<checks, check, phase>>
    PROVE  Stage' = Stage
BY DEF Stage, Station

LEMMA LoopStep ==
    ASSUME Core, PassInv, Core', Next
    PROVE  \/ Stage' > Stage
           \/ Stage' = Stage /\ Left' \subseteq Left /\ Left' # Left
<1> USE DEF Core, GraphInv
<1>1. CASE RejectEmpty \/ RejectMissing \/ RejectOrphans \/ RejectCycle \/ RejectDisconnected
  <2>1. UNCHANGED asked /\ phase \in {"analyze", "sort", "connect"} /\ phase' \in Raised
    BY <1>1 DEF RejectEmpty, RejectMissing, RejectOrphans, RejectCycle, RejectDisconnected,
                Raise, Raised
  <2>2. Station \in 0..2 /\ Station' = 4
    BY <2>1 DEF Station, Raised
  <2> QED BY <2>1, <2>2, LaterStation
<1>2. CASE StartSort
  <2>1. UNCHANGED asked /\ Station = 0 /\ Station' = 1
    BY <1>2 DEF StartSort, Station
  <2> QED BY <2>1, LaterStation
<1>3. ASSUME NEW n \in Id, Visit(n)
      PROVE  Stage' = Stage /\ Left' \subseteq Left /\ Left' # Left
  <2>1. phase = "sort" /\ phase' = "sort" /\ UNCHANGED <<checks, check, nodes>>
    BY <1>3 DEF Visit, asked, graph
  <2>2. n \in nodes \ visited /\ visited' = visited \cup {n}
    BY <1>3, <2>1 DEF Visit, SortInv
  <2>3. Left = nodes \ visited /\ Left' = nodes \ visited'
    BY <2>1 DEF Left
  <2> QED BY <2>1, <2>2, <2>3, SameStage
<1>4. CASE StartConnect
  <2>1. UNCHANGED asked /\ Station = 1 /\ Station' = 2
    BY <1>4 DEF StartConnect, Station
  <2> QED BY <2>1, LaterStation
<1>5. ASSUME NEW n \in Id, Connect(n)
      PROVE  Stage' = Stage /\ Left' \subseteq Left /\ Left' # Left
  <2>1. phase = "connect" /\ phase' = "connect" /\ UNCHANGED <<checks, check, nodes>>
    BY <1>5 DEF Connect, asked, graph
  <2>2. n \in nodes \ connected /\ connected' = connected \cup {n}
    BY <1>5, <2>1 DEF Connect, ConnectInv, TypeOK
  <2>3. Left = nodes \ connected /\ Left' = nodes \ connected'
    BY <2>1 DEF Left
  <2> QED BY <2>1, <2>2, <2>3, SameStage
<1>6. CASE Analyzed
  <2>1. UNCHANGED asked /\ phase = "connect" /\ phase' \in {"flatten", "validated", "waves"}
    BY <1>6 DEF Analyzed
  <2>2. Station = 2 /\ Station' \in 3..4
    BY <2>1 DEF Station
  <2> QED BY <2>1, <2>2, LaterStation
<1>7. CASE Flatten
  <2>1. UNCHANGED asked /\ phase = "flatten" /\ phase' \in {"duplicate", "validated"}
    BY <1>7 DEF Flatten, asked
  <2>2. Station = 3 /\ Station' = 4
    BY <2>1 DEF Station
  <2> QED BY <2>1, <2>2, LaterStation
<1>8. CASE Revalidate
  <2>1. checks' = checks + 1 /\ check' = check /\ phase = "validated" /\ phase' = "analyze"
    BY <1>8 DEF Revalidate
  <2>2. Station = 4 /\ Station' = 0
    BY <2>1 DEF Station
  <2>3. PICK k \in Nat : k = checks + IF check = "measure" THEN 1 ELSE 0
    BY ChecksAssumption DEF TypeOK
  <2>4. checks \in Nat
    BY ChecksAssumption DEF TypeOK
  <2>5. checks' + (IF check' = "measure" THEN 1 ELSE 0) = k + 1
    BY <2>1, <2>3, <2>4
  <2> QED BY <2>2, <2>3, <2>5 DEF Stage
<1>9. CASE Measure
  <2>1. /\ checks' = checks /\ check' = "measure"
        /\ phase = "validated" /\ phase' = "analyze"
    BY <1>9 DEF Measure
  <2>2. Station = 4 /\ Station' = 0
    BY <2>1 DEF Station
  <2>3. check = "validate"
    BY <2>1 DEF PassInv, SoundInv, Screened
  <2>4. checks \in Nat
    BY ChecksAssumption DEF TypeOK
  <2> QED BY <2>1, <2>2, <2>3, <2>4 DEF Stage
<1>10. CASE RunWave
  <2>1. phase = "waves" /\ phase' = "waves" /\ UNCHANGED <<checks, check, nodes>>
    BY <1>10 DEF RunWave, asked, graph
  <2>2. wave # {} /\ wave \subseteq nodes \ Sent /\ Sent' = Sent \cup wave
    BY <1>10, <2>1, SentGrows DEF RunWave, WaveInv
  <2>3. Left = nodes \ Sent /\ Left' = nodes \ Sent'
    BY <2>1 DEF Left, Sent
  <2> QED BY <2>1, <2>2, <2>3, SameStage
<1>11. CASE EndWaves
  <2>1. UNCHANGED asked /\ Station = 3 /\ Station' = 4
    BY <1>11 DEF EndWaves, Station
  <2> QED BY <2>1, LaterStation
<1> QED BY <1>1, <1>2, <1>3, <1>4, <1>5, <1>6, <1>7, <1>8, <1>9, <1>10, <1>11 DEF Next

\* The analyses and the waves end on every graph, with cycles or without, and
\* take no task up twice: no queue can grow for ever.
THEOREM EveryLoopEnds == Spec => LoopsEnd
<1>1. Core /\ PassInv /\ (Core /\ PassInv)' /\ [Next]_vars
        => [\/ Stage' > Stage
            \/ Stage' = Stage /\ Left' \subseteq Left /\ Left' # Left]_vars
  BY LoopStep
<1> QED BY <1>1, AllPass, PTL DEF Spec, LoopsEnd

=============================================================================
