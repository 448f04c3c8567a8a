----------------------------- MODULE TaskGraph -----------------------------
(***************************************************************************)
(* The graph algorithms of backend/core/task_graph.py, run the way a       *)
(* mission's graph goes through them: validate_dag, which analyses the     *)
(* graph and batches its deep nodes, by the planner and again, with        *)
(* another limit, by GraphExecutor.execute; max_depth(), which analyses    *)
(* the result; then get_execution_waves.  Every loop of the code is a loop *)
(* of steps here, over any graph.                                          *)
(*                                                                         *)
(* A task is its id and its set of dependencies.  Where the code goes      *)
(* through a list or sorts ids, the model takes the elements in any order. *)
(* A dependency named twice counts twice on both sides of the inbound      *)
(* counters, so a set stands for the list.  The graph handed in has        *)
(* distinct ids, which _analyze_dag checks first, and none is the batch's. *)
(***************************************************************************)
EXTENDS Naturals, FiniteSets, Sequences

CONSTANTS
    Node,       \* ids that tasks and dependencies may name
    Batch,      \* the id "t_sub_dag_batch"
    Limits,     \* values of max_depth; None is a limit of Cardinality(Node)
    MaxChecks   \* bound: calls of validate_dag on one graph

ASSUME NodeAssumption == IsFiniteSet(Node)
ASSUME BatchAssumption == Batch \notin Node
ASSUME LimitsAssumption == Limits \subseteq Nat \ {0}
ASSUME ChecksAssumption == MaxChecks \in Nat \ {0}

VARIABLES
    given,      \* the tasks of the graph handed in (never changes)
    limit,      \* max_depth of the last validate_dag
    checks,     \* bound only: calls of validate_dag so far
    nodes,      \* self.nodes
    deps,       \* dependencies of each task
    batched,    \* the tasks in metadata["batched_nodes"] of the batch, however nested
    check,      \* which analysis: "validate" (validate_dag) or "measure" (max_depth())
    phase,      \* where the algorithm is, or why it raised
    inbound,    \* inbound: dependencies not yet taken off
    depth,      \* depth_map
    queue,      \* queue of _analyze_dag
    visited,    \* visited of _analyze_dag
    pending,    \* pending of the connectivity check
    connected,  \* connected
    wave,       \* current_wave_ids
    waves       \* waves

graph == <<given, nodes, deps, batched>>
asked == <<limit, checks, check>>
sort == <<inbound, depth, queue, visited>>
link == <<pending, connected>>
plan == <<wave, waves>>
vars == <<given, nodes, deps, batched, limit, checks, check, phase, inbound, depth,
          queue, visited, pending, connected, wave, waves>>

Id == Node \cup {Batch}
Raised == {"empty", "missing", "duplicate", "orphan", "circular", "disconnected"}
Phase == {"analyze", "sort", "connect", "flatten", "validated", "waves", "done"} \cup Raised

TypeOK ==
    /\ given \in SUBSET Node
    /\ limit \in Limits
    /\ checks \in 1..MaxChecks
    /\ nodes \in SUBSET Id
    /\ deps \in [Id -> SUBSET Node]
    /\ batched \in SUBSET Node
    /\ check \in {"validate", "measure"}
    /\ phase \in Phase
    /\ inbound \in [Id -> Nat]
    /\ depth \in [Id -> Nat]
    /\ queue \in SUBSET nodes
    /\ visited \in SUBSET nodes
    /\ pending \in SUBSET nodes
    /\ connected \in SUBSET nodes
    /\ wave \in SUBSET nodes
    /\ waves \in Seq(SUBSET Id)

Init ==
    /\ given \in SUBSET Node
    /\ limit \in Limits
    /\ \E d \in [given -> SUBSET Node] :
          deps = [n \in Id |-> IF n \in given THEN d[n] ELSE {}]
    /\ nodes = given
    /\ batched = {}
    /\ checks = 1
    /\ check = "validate"
    /\ phase = "analyze"
    /\ inbound = [n \in Id |-> 0]
    /\ depth = [n \in Id |-> 1]
    /\ queue = {}
    /\ visited = {}
    /\ pending = {}
    /\ connected = {}
    /\ wave = {}
    /\ waves = <<>>

-----------------------------------------------------------------------------
Roots == {n \in nodes : deps[n] = {}}

\* A plausible bug: dependencies on tasks that wait for nothing are not counted.
InDegreesInner == [n \in Id |-> Cardinality(deps[n] \ Roots)]

InDegrees == [n \in Id |-> Cardinality(deps[n])]

\* outbound: the tasks that depend on n, and those that depend on one of S.
Children(n) == {m \in nodes : n \in deps[m]}
ChildrenOf(S) == {m \in nodes : deps[m] \cap S # {}}

\* undirected
Neighbours(n) == {m \in nodes : m \in deps[n] \/ n \in deps[m]}

Lacking == {n \in nodes : ~(deps[n] \subseteq nodes)}
Orphans == {n \in Roots : Children(n) = {}}

Larger(a, b) == IF a >= b THEN a ELSE b

Raise(why) ==
    /\ phase' = why
    /\ UNCHANGED <<graph, asked, sort, link, plan>>

-----------------------------------------------------------------------------
(* _analyze_dag *)

RejectEmpty ==
    /\ phase = "analyze"
    /\ nodes = {}
    /\ Raise("empty")

RejectMissing ==
    /\ phase = "analyze"
    /\ Lacking # {}
    /\ Raise("missing")

RejectOrphans ==
    /\ phase = "analyze"
    /\ Lacking = {}
    /\ Cardinality(nodes) > 1
    /\ Orphans # {}
    /\ Raise("orphan")

StartSort ==
    /\ phase = "analyze"
    /\ nodes # {}
    /\ Lacking = {}
    /\ Cardinality(nodes) > 1 => Orphans = {}
    /\ phase' = "sort"
    /\ inbound' = InDegrees
    /\ depth' = [n \in Id |-> 1]
    /\ queue' = Roots
    /\ visited' = {}
    /\ UNCHANGED <<graph, asked, link, plan>>

\* A plausible bug: the depth of the last parent visited, not the largest.
VisitLast(n) ==
    /\ phase = "sort"
    /\ n \in queue
    /\ visited' = visited \cup {n}
    /\ inbound' = [m \in Id |-> IF m \in Children(n) THEN inbound[m] - 1 ELSE inbound[m]]
    /\ depth' = [m \in Id |-> IF m \in Children(n) THEN depth[n] + 1 ELSE depth[m]]
    /\ queue' = (queue \ {n}) \cup {m \in Children(n) : inbound[m] = 1}
    /\ UNCHANGED <<graph, asked, phase, link, plan>>

\* One turn of the loop over the queue.
Visit(n) ==
    /\ phase = "sort"
    /\ n \in queue
    /\ visited' = visited \cup {n}
    /\ inbound' = [m \in Id |-> IF m \in Children(n) THEN inbound[m] - 1 ELSE inbound[m]]
    /\ depth' = [m \in Id |-> IF m \in Children(n) THEN Larger(depth[m], depth[n] + 1)
                                                   ELSE depth[m]]
    /\ queue' = (queue \ {n}) \cup {m \in Children(n) : inbound[m] = 1}
    /\ UNCHANGED <<graph, asked, phase, link, plan>>

RejectCycle ==
    /\ phase = "sort"
    /\ queue = {}
    /\ visited # nodes
    /\ Raise("circular")

\* root_id is the first task; any task will do.
StartConnect ==
    /\ phase = "sort"
    /\ queue = {}
    /\ visited = nodes
    /\ phase' = "connect"
    /\ connected' = {}
    /\ \E root \in nodes : pending' = {root}
    /\ UNCHANGED <<graph, asked, sort, plan>>

\* A plausible bug: the search follows dependencies only, not dependents.
ConnectDown(n) ==
    /\ phase = "connect"
    /\ n \in pending
    /\ connected' = connected \cup {n}
    /\ pending' = (pending \cup (deps[n] \cap nodes)) \ connected'
    /\ UNCHANGED <<graph, asked, phase, sort, plan>>

\* A plausible bug: what is connected already is put in line again.
ConnectAgain(n) ==
    /\ phase = "connect"
    /\ n \in pending
    /\ connected' = connected \cup {n}
    /\ pending' = (pending \ {n}) \cup Neighbours(n)
    /\ UNCHANGED <<graph, asked, phase, sort, plan>>

\* A turn of the search.  The deque may hold a task twice, and the later
\* turns of a connected one only `continue` (lines 218-219): pending has each
\* task once, and none that is connected.
Connect(n) ==
    /\ phase = "connect"
    /\ n \in pending
    /\ connected' = connected \cup {n}
    /\ pending' = (pending \cup Neighbours(n)) \ connected'
    /\ UNCHANGED <<graph, asked, phase, sort, plan>>

RejectDisconnected ==
    /\ phase = "connect"
    /\ pending = {}
    /\ connected # nodes
    /\ Raise("disconnected")

TooDeep == \E n \in nodes : depth[n] > limit

\* The analysis returns: validate_dag compares the depth with the limit,
\* max_depth() leads on to the waves.
Analyzed ==
    /\ phase = "connect"
    /\ pending = {}
    /\ connected = nodes
    /\ IF check = "validate"
       THEN /\ phase' = IF TooDeep THEN "flatten" ELSE "validated"
            /\ UNCHANGED <<sort, plan>>
       ELSE /\ phase' = "waves"
            /\ inbound' = InDegrees
            /\ wave' = Roots
            /\ UNCHANGED <<depth, queue, visited, waves>>
    /\ UNCHANGED <<graph, asked, link>>

-----------------------------------------------------------------------------
(* _flatten_dag, and the callers of validate_dag *)

\* A plausible bug: the tasks at the limit itself stay outside the batch.
DeepStrict == {n \in nodes : depth[n] > limit}

Deep == {n \in nodes : depth[n] >= limit}

\* The locals of the analysis go with it.  A batch that stays beside the new
\* one has its id, and the next analysis raises.
Flatten ==
    /\ phase = "flatten"
    /\ nodes' = (nodes \ Deep) \cup {Batch}
    /\ deps' = [deps EXCEPT ![Batch] = {d \in Node \ Deep : \E n \in Deep : d \in deps[n]}]
    /\ batched' = batched \cup (Deep \ {Batch})
    /\ phase' = IF Batch \in nodes \ Deep THEN "duplicate" ELSE "validated"
    /\ queue' = {} /\ visited' = {} /\ pending' = {} /\ connected' = {}
    /\ UNCHANGED <<given, asked, inbound, depth, plan>>

\* The planner's audit has validated the graph; the executor does so with the
\* limit of the mission's budget.
Revalidate ==
    /\ phase = "validated"
    /\ checks < MaxChecks
    /\ checks' = checks + 1
    /\ limit' \in Limits
    /\ phase' = "analyze"
    /\ UNCHANGED <<graph, check, sort, link, plan>>

Measure ==
    /\ phase = "validated"
    /\ check' = "measure"
    /\ phase' = "analyze"
    /\ UNCHANGED <<graph, limit, checks, sort, link, plan>>

-----------------------------------------------------------------------------
(* get_execution_waves *)

\* A plausible bug: a task joins the next wave with its first parent.
RunWaveEager ==
    /\ phase = "waves"
    /\ wave # {}
    /\ waves' = Append(waves, wave)
    /\ inbound' = [n \in Id |-> IF n \in nodes THEN Cardinality(deps[n] \ wave) ELSE 0]
    /\ wave' = ChildrenOf(wave)
    /\ UNCHANGED <<graph, asked, phase, depth, queue, visited, link>>

RunWave ==
    /\ phase = "waves"
    /\ wave # {}
    /\ waves' = Append(waves, wave)
    /\ inbound' = [n \in Id |-> IF n \in nodes
                                THEN inbound[n] - Cardinality(deps[n] \cap wave)
                                ELSE inbound[n]]
    /\ wave' = {n \in ChildrenOf(wave) : inbound[n] = Cardinality(deps[n] \cap wave)}
    /\ UNCHANGED <<graph, asked, phase, depth, queue, visited, link>>

EndWaves ==
    /\ phase = "waves"
    /\ wave = {}
    /\ phase' = "done"
    /\ UNCHANGED <<graph, asked, sort, link, plan>>

-----------------------------------------------------------------------------
Next ==
    \/ RejectEmpty \/ RejectMissing \/ RejectOrphans \/ StartSort
    \/ \E n \in Id : Visit(n)
    \/ RejectCycle \/ StartConnect
    \/ \E n \in Id : Connect(n)
    \/ RejectDisconnected \/ Analyzed
    \/ Flatten \/ Revalidate \/ Measure
    \/ RunWave \/ EndWaves

Spec == Init /\ [][Next]_vars

-----------------------------------------------------------------------------
(* Properties.  The reference definitions quantify over sets of tasks       *)
(* instead of following the loops.                                         *)

Cyclic == \E S \in SUBSET nodes : S # {} /\ \A n \in S : deps[n] \cap S # {}

Apart == \E S \in SUBSET nodes :
            /\ S # {} /\ S # nodes
            /\ \A n \in S : Neighbours(n) \subseteq S

\* _analyze_dag (lines 189-225) raises for a cycle or for a graph in pieces
\* exactly when there is one, and lets through only graphs that are neither.
\* An orphan is a graph in pieces too.
RejectsExactly ==
    /\ phase = "circular" => Cyclic
    /\ phase \in {"orphan", "disconnected"} => Apart
    /\ phase = "connect" => ~Cyclic
    /\ phase \in {"waves", "done"} => ~Cyclic /\ ~Apart

\* The depth map (lines 198-207) is the length of the longest chain of
\* dependencies, whatever the order of the queue.
DepthIsLongest ==
    phase = "connect" =>
        \A n \in nodes :
            /\ \A d \in deps[n] : depth[n] > depth[d]
            /\ deps[n] = {} => depth[n] = 1
            /\ deps[n] # {} => \E d \in deps[n] : depth[n] = depth[d] + 1

\* validate_dag's batching (lines 155-158, 234-257), done once or again with
\* another limit, leaves a graph that every later analysis accepts and that
\* respects the limit; no task depends on a batched one, and the batch waits
\* for everything its tasks need.
FlattenFits ==
    /\ batched # {} => phase \notin Raised
    /\ phase \in {"waves", "done"} => ~TooDeep
    /\ \A n \in nodes : deps[n] \cap batched = {}
    /\ \A n \in batched : deps[n] \subseteq batched \cup deps[Batch]

Scheduled(i) == UNION {waves[j] : j \in 1..i}

\* get_execution_waves (lines 71-99): no task is in a wave before every task
\* it depends on has been in an earlier one.
WaveOrder ==
    \A i \in 1..Len(waves) : \A n \in waves[i] : deps[n] \subseteq Scheduled(i - 1)

\* The waves together hold every task of the graph handed in once, itself or
\* inside the batch, and each as early as its longest chain allows.
WavesComplete ==
    phase = "done" =>
        /\ Scheduled(Len(waves)) = nodes
        /\ (nodes \ {Batch}) \cup batched = given
        /\ \A i \in 1..Len(waves) : \A n \in waves[i] : depth[n] = i

\* The stations of an analysis, and of one call after another.
Station == CASE phase = "analyze" -> 0
             [] phase = "sort" -> 1
             [] phase = "connect" -> 2
             [] phase \in {"flatten", "waves"} -> 3
             [] OTHER -> 4

Stage == 5 * (checks + IF check = "measure" THEN 1 ELSE 0) + Station

\* The tasks that the loop of the station has not dealt with.
Left == nodes \ CASE phase = "sort" -> visited
                  [] phase = "connect" -> connected
                  [] OTHER -> Scheduled(Len(waves))

\* Every algorithm ends on every graph, the cyclic ones included: a step goes
\* on to a later station, or is a turn of a loop (lines 86-97, 201-207,
\* 216-221) that deals with a task of the same graph once and for all.  The
\* turns that only `continue` are not steps; they are finitely many, because
\* the turns that put tasks in line are.
LoopsEnd ==
    [][\/ Stage' > Stage
       \/ /\ Stage' = Stage
          /\ Left' \subseteq Left
          /\ Left' # Left]_vars

=============================================================================
