------------------------------ MODULE RaftLite ------------------------------
(***************************************************************************)
(* The Redis-backed "Raft-lite" engine of backend/core/dcn/                *)
(* raft_consensus.py: class RaftConsensus and its facade DCNMesh.          *)
(*                                                                         *)
(* Every node is one Python process.  Its background task (_election_loop) *)
(* is the process named by the node; client calls (propose, resync,        *)
(* failover drill, shutdown) are the processes in Req, each running as a   *)
(* task of the node that received it.  All the tasks of a node share       *)
(* is_leader and current_term; all the nodes share the Redis keys.  Each   *)
(* action is one awaited Redis command with the local code up to the next  *)
(* await, so tasks interleave exactly where the code yields.               *)
(*                                                                         *)
(* Not modelled: the latency filter of elect_leader (nothing ever writes   *)
(* latency_ms, so every active node is a candidate), the seven-day TTL of  *)
(* the log and the snapshot, and the degraded answers given without Redis. *)
(***************************************************************************)
EXTENDS Integers, Sequences, FiniteSets

CONSTANTS
  Node,              \* node ids; integers, since ids are only compared in order
  Req,               \* client calls, each made once
  Kinds,             \* the kinds of call that clients make
  NoNode,            \* an absent leader key
  PollsPerElection,  \* health checks between two elections (15 in the code)
  Threshold,         \* _SNAPSHOT_THRESHOLD (500 in the code)
  MaxTerm,           \* bound: terms saturate here (no code compares terms)
  MaxFaults,         \* bound: crashes and failed Redis commands
  Timely,            \* TRUE: a running node is never stalled (see HeartbeatAges)
  AtomicElection     \* TRUE: elect_leader runs uninterrupted (for runs about the log)

ASSUME NodeAssumption == Node \subseteq Int /\ IsFiniteSet(Node) /\ NoNode \notin Node
ASSUME ReqAssumption == Req \cap Node = {}
ASSUME KindsAssumption == Kinds \subseteq {"propose", "resync", "drill", "shutdown"}
ASSUME BoundsAssumption ==
  /\ PollsPerElection \in Nat \ {0}
  /\ Threshold \in Nat \ {0}
  /\ MaxTerm \in Nat
  /\ MaxFaults \in Nat
  /\ Timely \in BOOLEAN
  /\ AtomicElection \in BOOLEAN

VARIABLES
  \* Redis
  leaderKey,   \* ...:leader, set NX with a TTL of 90 s
  termKey,     \* ...:term (0 when absent)
  active,      \* the nodes whose last_seen in ...:nodes is under 90 s old
  hb,          \* the heartbeat exists and is under 5 s old
  log,         \* ...:log
  commit,      \* ...:commit_index (-1 when absent)
  acks,        \* the ...:ack:<index> sets, as pairs <<index, node>>
  ackTTL,      \* the indices whose ack set has been given a TTL
  snap,        \* ...:snapshot (upto = 0 when absent)
  \* the Python processes
  isLeader,    \* RaftConsensus.is_leader
  curTerm,     \* RaftConsensus.current_term
  polls,       \* iterations left of the inner loop of _election_loop
  pc,          \* the next Redis command of each task
  host,        \* the node a call runs on
  kind,        \* what the call does
  result,      \* the status the call has returned
  \* locals of the tasks
  seen,        \* active_nodes | {self.node_id}
  pick,        \* elected
  newTerm,     \* new_term
  quorum,      \* quorum
  idx,         \* index, log_len, target_idx, safe_index: the number in hand
  chunk,       \* entries read for a snapshot
  \* bookkeeping
  faults,      \* faults so far, against MaxFaults
  lapsed,      \* a leader key has expired or been deleted
  snapshots    \* how many snapshots have been written

redisVars == <<leaderKey, termKey, active, hb, log, commit, acks, ackTTL, snap>>
nodeVars  == <<isLeader, curTerm, polls>>
callVars  == <<host, kind, result>>
localVars == <<seen, pick, newTerm, quorum, idx, chunk>>
auxVars   == <<faults, lapsed, snapshots>>
vars == <<redisVars, nodeVars, pc, callVars, localVars, auxVars>>

Proc == Node \cup Req

LoopPc    == {"down", "restore", "poll", "obsLen", "obsCommit", "obsAck"}
ElectPc   == {"trig", "eReg", "eNodes", "eTerm", "eLead", "eNX", "eReread", "eSet"}
WriterPc  == {"rNodes", "rLen", "rPush", "rAck", "rCount", "rSleep", "rCommit"}
CompactPc == {"sLen", "cCommit", "cRange", "cSnap", "cTrim"}
CallPc    == WriterPc \cup CompactPc \cup {"idle", "rGuard", "sStop", "done"}

Entry == [req : Req, idx : Nat, term : Nat]
NoSnap == [term |-> 0, upto |-> 0, entries |-> <<>>]

Status == {"none", "redirect", "committed", "pending", "done", "error", "lost"}

Up(n) == pc[n] # "down"
Home(p) == IF p \in Node THEN p ELSE host[p]
Running(r) == pc[r] \notin {"idle", "done"}
Ackers(i) == {n \in Node : <<i, n>> \in acks}
Least(m, S) == m \in S /\ \A n \in S : m <= n
Bump(t) == IF t < MaxTerm THEN t + 1 ELSE t
Smaller(a, b) == IF a < b THEN a ELSE b

RedisTypeOK ==
  /\ leaderKey \in Node \cup {NoNode}
  /\ termKey \in Nat
  /\ active \subseteq Node
  /\ hb \in BOOLEAN
  /\ log \in Seq(Entry)
  /\ commit \in Nat \cup {-1}
  /\ acks \subseteq Nat \X Node
  /\ ackTTL \subseteq Nat
  /\ snap \in [term : Nat, upto : Nat, entries : Seq(Entry)]

NodeTypeOK ==
  /\ isLeader \in [Node -> BOOLEAN]
  /\ curTerm \in [Node -> Nat]
  /\ polls \in [Node -> Nat]

TaskTypeOK ==
  /\ pc \in [Proc -> LoopPc \cup ElectPc \cup CallPc]
  /\ host \in [Req -> Node \cup {NoNode}]
  /\ kind \in [Req -> Kinds \cup {"none"}]
  /\ result \in [Req -> Status]

LocalTypeOK ==
  /\ seen \in [Proc -> SUBSET Node]
  /\ pick \in [Proc -> Node \cup {NoNode}]
  /\ newTerm \in [Proc -> Nat]
  /\ quorum \in [Proc -> Nat]
  /\ idx \in [Proc -> Nat]
  /\ chunk \in [Proc -> Seq(Entry)]

AuxTypeOK ==
  /\ faults \in Nat
  /\ lapsed \in BOOLEAN
  /\ snapshots \in Nat

\* What the value of pc says about the other variables of a task.
Electing(p) == pc[p] \in {"eNX", "eReread", "eSet"} => pick[p] \in Node

LoopPhase(n) ==
  /\ pc[n] \in LoopPc \cup ElectPc
  /\ pc[n] \in {"poll", "obsLen", "obsCommit", "obsAck"} => polls[n] > 0
  /\ Electing(n)

CallPhase(r) ==
  /\ pc[r] \in ElectPc \cup CallPc
  /\ Running(r) => host[r] \in Node
  /\ Electing(r)

PhaseOK == (\A n \in Node : LoopPhase(n)) /\ (\A r \in Req : CallPhase(r))

TypeOK ==
  RedisTypeOK /\ NodeTypeOK /\ TaskTypeOK /\ LocalTypeOK /\ AuxTypeOK /\ PhaseOK

Init ==
  /\ leaderKey = NoNode
  /\ termKey = 0
  /\ active = {}
  /\ hb = FALSE
  /\ log = <<>>
  /\ commit = -1
  /\ acks = {}
  /\ ackTTL = {}
  /\ snap = NoSnap
  /\ isLeader = [n \in Node |-> FALSE]
  /\ curTerm = [n \in Node |-> 0]
  /\ polls = [n \in Node |-> 0]
  /\ pc = [p \in Proc |-> IF p \in Node THEN "down" ELSE "idle"]
  /\ host = [r \in Req |-> NoNode]
  /\ kind = [r \in Req |-> "none"]
  /\ result = [r \in Req |-> "none"]
  /\ seen = [p \in Proc |-> {}]
  /\ pick = [p \in Proc |-> NoNode]
  /\ newTerm = [p \in Proc |-> 0]
  /\ quorum = [p \in Proc |-> 0]
  /\ idx = [p \in Proc |-> 0]
  /\ chunk = [p \in Proc |-> <<>>]
  /\ faults = 0
  /\ lapsed = FALSE
  /\ snapshots = 0

-----------------------------------------------------------------------------
(* Control flow shared by the actions. *)

Goto(p, l) == pc' = [pc EXCEPT ![p] = l]

Finish(r, status) ==
  /\ Goto(r, "done")
  /\ result' = [result EXCEPT ![r] = status]

\* Mutant of EndPoll: one poll too many.
EndPollLate(n) ==
  /\ polls' = [polls EXCEPT ![n] = @ - 1]
  /\ Goto(n, IF polls[n] = 0 THEN "eReg" ELSE "poll")

\* The end of one iteration of the inner loop: poll again or elect again.
EndPoll(n) ==
  /\ polls' = [polls EXCEPT ![n] = @ - 1]
  /\ Goto(n, IF polls[n] = 1 THEN "eReg" ELSE "poll")

\* elect_leader returns leader m to its caller: the loop itself, the health
\* check inside the loop, propose_mission_decision, or a one-shot call.
Return(p, m) ==
  \/ /\ p \in Node
     /\ \/ /\ polls[p] = 0
           /\ polls' = [polls EXCEPT ![p] = PollsPerElection]
           /\ Goto(p, "poll")
        \/ /\ polls[p] > 0
           /\ m = p
           /\ EndPoll(p)
        \/ /\ polls[p] > 0
           /\ m # p
           /\ Goto(p, "obsLen")
           /\ UNCHANGED polls
     /\ UNCHANGED result
  \/ /\ p \in Req
     /\ \/ /\ kind[p] = "propose"
           /\ m = host[p]
           /\ Goto(p, "rGuard")
           /\ UNCHANGED result
        \/ /\ kind[p] = "propose"
           /\ m # host[p]
           /\ Finish(p, "redirect")
        \/ /\ kind[p] # "propose"
           /\ Finish(p, "done")
     /\ UNCHANGED polls

-----------------------------------------------------------------------------
(* start, restore_from_snapshot *)

Start(n) ==
  /\ pc[n] = "down"
  /\ Goto(n, "restore")
  /\ UNCHANGED <<redisVars, nodeVars, callVars, localVars, auxVars>>

Restore(n) ==
  /\ pc[n] = "restore"
  /\ curTerm' = [curTerm EXCEPT ![n] = snap.term]
  /\ Goto(n, "eReg")
  /\ UNCHANGED <<redisVars, isLeader, polls, callVars, localVars, auxVars>>

-----------------------------------------------------------------------------
(* elect_leader, run by the loop and by calls alike *)

Register(p) ==
  /\ pc[p] = "eReg"
  /\ ~AtomicElection
  /\ active' = active \cup {Home(p)}
  /\ Goto(p, "eNodes")
  /\ UNCHANGED <<leaderKey, termKey, hb, log, commit, acks, ackTTL, snap,
                 nodeVars, callVars, localVars, auxVars>>

ReadNodes(p) ==
  /\ pc[p] = "eNodes"
  /\ seen' = [seen EXCEPT ![p] = active \cup {Home(p)}]
  /\ Goto(p, "eTerm")
  /\ UNCHANGED <<redisVars, nodeVars, callVars, pick, newTerm, quorum, idx, chunk,
                 auxVars>>

ReadTerm(p) ==
  /\ pc[p] = "eTerm"
  /\ curTerm' = [curTerm EXCEPT ![Home(p)] = termKey]
  /\ Goto(p, "eLead")
  /\ UNCHANGED <<redisVars, isLeader, polls, callVars, localVars, auxVars>>

\* Mutant of ReadLeaderStable: leadership is taken up here, never given up.
ReadLeaderSticky(p) ==
  /\ pc[p] = "eLead"
  /\ leaderKey \in seen[p]
  /\ isLeader' = [isLeader EXCEPT ![Home(p)] = @ \/ leaderKey = Home(p)]
  /\ Return(p, leaderKey)
  /\ seen' = [seen EXCEPT ![p] = {}]
  /\ UNCHANGED <<redisVars, curTerm, host, kind, pick, newTerm, quorum, idx, chunk,
                 auxVars>>

\* A leader that is active (or is this node): the cluster is stable.
ReadLeaderStable(p) ==
  /\ pc[p] = "eLead"
  /\ leaderKey \in seen[p]
  /\ isLeader' = [isLeader EXCEPT ![Home(p)] = (leaderKey = Home(p))]
  /\ Return(p, leaderKey)
  /\ seen' = [seen EXCEPT ![p] = {}]
  /\ UNCHANGED <<redisVars, curTerm, host, kind, pick, newTerm, quorum, idx, chunk,
                 auxVars>>

\* No leader, or one that is not active: elect the smallest active node.
ReadLeaderNone(p) ==
  /\ pc[p] = "eLead"
  /\ leaderKey \notin seen[p]
  /\ newTerm' = [newTerm EXCEPT ![p] = Bump(curTerm[Home(p)])]
  /\ \E m \in Node : Least(m, seen[p]) /\ pick' = [pick EXCEPT ![p] = m]
  /\ seen' = [seen EXCEPT ![p] = {}]
  /\ Goto(p, "eNX")
  /\ UNCHANGED <<redisVars, nodeVars, callVars, quorum, idx, chunk, auxVars>>

\* Mutant of SetLeaderNX: SET without NX.
SetLeader(p) ==
  /\ pc[p] = "eNX"
  /\ leaderKey' = pick[p]
  /\ Goto(p, "eSet")
  /\ UNCHANGED <<termKey, active, hb, log, commit, acks, ackTTL, snap, nodeVars,
                 callVars, localVars, auxVars>>

SetLeaderNX(p) ==
  /\ pc[p] = "eNX"
  /\ \/ /\ leaderKey = NoNode
        /\ leaderKey' = pick[p]
        /\ Goto(p, "eSet")
     \/ /\ leaderKey # NoNode
        /\ Goto(p, "eReread")
        /\ UNCHANGED leaderKey
  /\ UNCHANGED <<termKey, active, hb, log, commit, acks, ackTTL, snap, nodeVars,
                 callVars, localVars, auxVars>>

RereadLeader(p) ==
  /\ pc[p] = "eReread"
  /\ pick' = [pick EXCEPT ![p] = IF leaderKey = NoNode THEN @ ELSE leaderKey]
  /\ Goto(p, "eSet")
  /\ UNCHANGED <<redisVars, nodeVars, callVars, seen, newTerm, quorum, idx, chunk,
                 auxVars>>

\* The winner and the losers alike write the term they computed.
SetTerm(p) ==
  /\ pc[p] = "eSet"
  /\ termKey' = newTerm[p]
  /\ curTerm' = [curTerm EXCEPT ![Home(p)] = newTerm[p]]
  /\ isLeader' = [isLeader EXCEPT ![Home(p)] = (pick[p] = Home(p))]
  /\ Return(p, pick[p])
  /\ pick' = [pick EXCEPT ![p] = NoNode]
  /\ newTerm' = [newTerm EXCEPT ![p] = 0]
  /\ UNCHANGED <<leaderKey, active, hb, log, commit, acks, ackTTL, snap, host, kind,
                 seen, quorum, idx, chunk, auxVars>>

\* trigger_election: delete the leader key and the heartbeat, then elect.
Trigger(p) ==
  /\ pc[p] = "trig"
  /\ leaderKey' = NoNode
  /\ hb' = FALSE
  /\ lapsed' = (lapsed \/ leaderKey # NoNode)
  /\ Goto(p, "eReg")
  /\ UNCHANGED <<termKey, active, log, commit, acks, ackTTL, snap, nodeVars, callVars,
                 localVars, faults, snapshots>>

\* Register to SetTerm with no other task in between: the coarser grain used
\* where the interleavings of replicate_log are what is explored.
ElectAtOnce(p) ==
  /\ pc[p] = "eReg"
  /\ AtomicElection
  /\ active' = active \cup {Home(p)}
  /\ \E m \in Node :
       /\ IF leaderKey = NoNode THEN Least(m, active') ELSE m = leaderKey
       /\ leaderKey' = m
       /\ termKey' = IF leaderKey \in active' THEN termKey ELSE Bump(termKey)
       /\ curTerm' = [curTerm EXCEPT ![Home(p)] = termKey']
       /\ isLeader' = [isLeader EXCEPT ![Home(p)] = (m = Home(p))]
       /\ Return(p, m)
  /\ UNCHANGED <<hb, log, commit, acks, ackTTL, snap, host, kind, localVars, auxVars>>

Elect(p) ==
  \/ Register(p)
  \/ ElectAtOnce(p)
  \/ ReadNodes(p)
  \/ ReadTerm(p)
  \/ ReadLeaderStable(p)
  \/ ReadLeaderNone(p)
  \/ SetLeaderNX(p)
  \/ RereadLeader(p)
  \/ SetTerm(p)
  \/ Trigger(p)

-----------------------------------------------------------------------------
(* The inner loop: check_leader_health, then _follower_log_observer *)

Heartbeat(n) ==
  /\ pc[n] = "poll"
  /\ isLeader[n]
  /\ hb' = TRUE
  /\ EndPoll(n)
  /\ UNCHANGED <<leaderKey, termKey, active, log, commit, acks, ackTTL, snap, isLeader,
                 curTerm, callVars, localVars, auxVars>>

CheckHeartbeat(n) ==
  /\ pc[n] = "poll"
  /\ ~isLeader[n]
  /\ Goto(n, IF hb THEN "obsLen" ELSE "trig")
  /\ UNCHANGED <<redisVars, nodeVars, callVars, localVars, auxVars>>

ObserveLength(n) ==
  /\ pc[n] = "obsLen"
  /\ idx' = [idx EXCEPT ![n] = Len(log)]
  /\ Goto(n, "obsCommit")
  /\ UNCHANGED <<redisVars, nodeVars, callVars, seen, pick, newTerm, quorum, chunk,
                 auxVars>>

\* Mutant of ObserveCommit: acknowledges also when nothing is uncommitted.
ObserveCommitAlways(n) ==
  /\ pc[n] = "obsCommit"
  /\ idx' = [idx EXCEPT ![n] = commit + 1]
  /\ Goto(n, "obsAck")
  /\ UNCHANGED <<redisVars, nodeVars, callVars, seen, pick, newTerm, quorum, chunk,
                 auxVars>>

ObserveCommit(n) ==
  /\ pc[n] = "obsCommit"
  /\ \/ /\ idx[n] > commit + 1
        /\ idx' = [idx EXCEPT ![n] = commit + 1]
        /\ Goto(n, "obsAck")
        /\ UNCHANGED polls
     \/ /\ idx[n] <= commit + 1
        /\ idx' = [idx EXCEPT ![n] = 0]
        /\ EndPoll(n)
  /\ UNCHANGED <<redisVars, isLeader, curTerm, callVars, seen, pick, newTerm, quorum,
                 chunk, auxVars>>

ObserveAck(n) ==
  /\ pc[n] = "obsAck"
  /\ acks' = acks \cup {<<idx[n], n>>}
  /\ ackTTL' = ackTTL \cup {idx[n]}
  /\ idx' = [idx EXCEPT ![n] = 0]
  /\ EndPoll(n)
  /\ UNCHANGED <<leaderKey, termKey, active, hb, log, commit, snap, isLeader, curTerm,
                 callVars, seen, pick, newTerm, quorum, chunk, auxVars>>

Loop(n) ==
  \/ Restore(n)
  \/ Elect(n)
  \/ Heartbeat(n)
  \/ CheckHeartbeat(n)
  \/ ObserveLength(n)
  \/ ObserveCommit(n)
  \/ ObserveAck(n)

-----------------------------------------------------------------------------
(* Calls: propose_mission_decision, POST /sys/resync, the failover drill,  *)
(* and the snapshot that main.py takes while it shuts a node down          *)

EntryPc(k) ==
  IF k = "resync" THEN "trig" ELSE IF k = "shutdown" THEN "sLen" ELSE "eReg"

Invoke(r, n, k) ==
  /\ pc[r] = "idle"
  /\ Up(n)
  /\ k = "drill" => isLeader[n]
  /\ host' = [host EXCEPT ![r] = n]
  /\ kind' = [kind EXCEPT ![r] = k]
  /\ isLeader' = [isLeader EXCEPT ![n] = @ /\ k # "drill"]
  /\ Goto(r, EntryPc(k))
  /\ UNCHANGED <<redisVars, curTerm, polls, result, localVars, auxVars>>

-----------------------------------------------------------------------------
(* replicate_log *)

\* An absent leader key lets the caller through as well.
GuardLeader(r) ==
  /\ pc[r] = "rGuard"
  /\ \/ /\ leaderKey \in {NoNode, host[r]}
        /\ isLeader' = [isLeader EXCEPT ![host[r]] = TRUE]
        /\ Goto(r, "rNodes")
        /\ UNCHANGED result
     \/ /\ leaderKey \notin {NoNode, host[r]}
        /\ Finish(r, "redirect")
        /\ UNCHANGED isLeader
  /\ UNCHANGED <<redisVars, curTerm, polls, host, kind, localVars, auxVars>>

ReadQuorum(r) ==
  /\ pc[r] = "rNodes"
  /\ quorum' = [quorum EXCEPT ![r] = Cardinality(active \cup {host[r]}) \div 2 + 1]
  /\ Goto(r, "rLen")
  /\ UNCHANGED <<redisVars, nodeVars, callVars, seen, pick, newTerm, idx, chunk, auxVars>>

ReadLength(r) ==
  /\ pc[r] = "rLen"
  /\ idx' = [idx EXCEPT ![r] = Len(log)]
  /\ Goto(r, "rPush")
  /\ UNCHANGED <<redisVars, nodeVars, callVars, seen, pick, newTerm, quorum, chunk,
                 auxVars>>

Push(r) ==
  /\ pc[r] = "rPush"
  /\ log' = Append(log, [req |-> r, idx |-> idx[r], term |-> curTerm[host[r]]])
  /\ Goto(r, "rAck")
  /\ UNCHANGED <<leaderKey, termKey, active, hb, commit, acks, ackTTL, snap, nodeVars,
                 callVars, localVars, auxVars>>

SelfAck(r) ==
  /\ pc[r] = "rAck"
  /\ acks' = acks \cup {<<idx[r], host[r]>>}
  /\ Goto(r, "rCount")
  /\ UNCHANGED <<leaderKey, termKey, active, hb, log, commit, ackTTL, snap, nodeVars,
                 callVars, localVars, auxVars>>

CountAcks(r) ==
  /\ pc[r] = "rCount"
  /\ Goto(r, IF Cardinality(Ackers(idx[r])) >= quorum[r] THEN "rCommit" ELSE "rSleep")
  /\ UNCHANGED <<redisVars, nodeVars, callVars, localVars, auxVars>>

\* replicate_log answers; every Threshold-th index starts a compaction task.
Answer(r, status) ==
  /\ result' = [result EXCEPT ![r] = status]
  /\ quorum' = [quorum EXCEPT ![r] = 0]
  /\ \/ /\ idx[r] > 0
        /\ (idx[r] + 1) % Threshold = 0
        /\ Goto(r, "cCommit")
        /\ UNCHANGED idx
     \/ /\ ~(idx[r] > 0 /\ (idx[r] + 1) % Threshold = 0)
        /\ Goto(r, "done")
        /\ idx' = [idx EXCEPT ![r] = 0]

Retry(r) ==
  /\ pc[r] = "rSleep"
  /\ Goto(r, "rAck")
  /\ UNCHANGED <<redisVars, nodeVars, callVars, localVars, auxVars>>

\* Two seconds without a quorum: the entry stays in the log.
TimeOut(r) ==
  /\ pc[r] = "rSleep"
  /\ Answer(r, "pending")
  /\ UNCHANGED <<redisVars, nodeVars, host, kind, seen, pick, newTerm, chunk, auxVars>>

WriteCommit(r) ==
  /\ pc[r] = "rCommit"
  /\ commit' = idx[r]
  /\ Answer(r, "committed")
  /\ UNCHANGED <<leaderKey, termKey, active, hb, log, acks, ackTTL, snap, nodeVars, host,
                 kind, seen, pick, newTerm, chunk, auxVars>>

Replicate(r) ==
  \/ GuardLeader(r)
  \/ ReadQuorum(r)
  \/ ReadLength(r)
  \/ Push(r)
  \/ SelfAck(r)
  \/ CountAcks(r)
  \/ Retry(r)
  \/ TimeOut(r)
  \/ WriteCommit(r)

-----------------------------------------------------------------------------
(* take_snapshot and _compact_log *)

AfterCompaction(r) == IF kind[r] = "shutdown" THEN "sStop" ELSE "done"

SnapshotLength(r) ==
  /\ pc[r] = "sLen"
  /\ idx' = [idx EXCEPT ![r] = Len(log)]
  /\ Goto(r, "cCommit")
  /\ UNCHANGED <<redisVars, nodeVars, callVars, seen, pick, newTerm, quorum, chunk,
                 auxVars>>

\* min(max(0, up_to_index - 1), commit_index), an absent commit index being 0
SafeIndex(upto) ==
  Smaller(IF upto > 0 THEN upto - 1 ELSE 0, IF commit = -1 THEN 0 ELSE commit)

ReadCommit(r) ==
  /\ pc[r] = "cCommit"
  /\ idx' = [idx EXCEPT ![r] = SafeIndex(idx[r])]
  /\ Goto(r, IF SafeIndex(idx[r]) = 0 THEN AfterCompaction(r) ELSE "cRange")
  /\ UNCHANGED <<redisVars, nodeVars, callVars, seen, pick, newTerm, quorum, chunk,
                 auxVars>>

\* Mutant of ReadRange: the last index of LRANGE taken for an exclusive one.
ReadRangeShort(r) ==
  /\ pc[r] = "cRange"
  /\ chunk' = [chunk EXCEPT ![r] = SubSeq(log, 1, Smaller(idx[r] - 1, Len(log)))]
  /\ Goto(r, "cSnap")
  /\ UNCHANGED <<redisVars, nodeVars, callVars, seen, pick, newTerm, quorum, idx, auxVars>>

ReadRange(r) ==
  /\ pc[r] = "cRange"
  /\ chunk' = [chunk EXCEPT ![r] = SubSeq(log, 1, Smaller(idx[r], Len(log)))]
  /\ Goto(r, "cSnap")
  /\ UNCHANGED <<redisVars, nodeVars, callVars, seen, pick, newTerm, quorum, idx, auxVars>>

\* HSET replaces whatever an earlier compaction stored.
WriteSnapshot(r) ==
  /\ pc[r] = "cSnap"
  /\ snap' = [term    |-> IF chunk[r] = <<>> THEN curTerm[host[r]]
                          ELSE chunk[r][Len(chunk[r])].term,
              upto    |-> idx[r],
              entries |-> chunk[r]]
  /\ snapshots' = snapshots + 1
  /\ chunk' = [chunk EXCEPT ![r] = <<>>]
  /\ Goto(r, "cTrim")
  /\ UNCHANGED <<leaderKey, termKey, active, hb, log, commit, acks, ackTTL, nodeVars,
                 callVars, seen, pick, newTerm, quorum, idx, faults, lapsed>>

\* Mutant of TrimLog: LTRIM keeps the last entry that the snapshot has.
TrimLogShort(r) ==
  /\ pc[r] = "cTrim"
  /\ log' = SubSeq(log, idx[r], Len(log))
  /\ idx' = [idx EXCEPT ![r] = 0]
  /\ Goto(r, AfterCompaction(r))
  /\ UNCHANGED <<leaderKey, termKey, active, hb, commit, acks, ackTTL, snap, nodeVars,
                 callVars, seen, pick, newTerm, quorum, chunk, auxVars>>

TrimLog(r) ==
  /\ pc[r] = "cTrim"
  /\ log' = SubSeq(log, idx[r] + 1, Len(log))
  /\ idx' = [idx EXCEPT ![r] = 0]
  /\ Goto(r, AfterCompaction(r))
  /\ UNCHANGED <<leaderKey, termKey, active, hb, commit, acks, ackTTL, snap, nodeVars,
                 callVars, seen, pick, newTerm, quorum, chunk, auxVars>>

Compact(r) ==
  \/ SnapshotLength(r)
  \/ ReadCommit(r)
  \/ ReadRange(r)
  \/ WriteSnapshot(r)
  \/ TrimLog(r)

-----------------------------------------------------------------------------
(* Processes that end, commands that fail *)

\* The process of node n is gone, with its memory and all its tasks.
Die(n) ==
  LET dead == {n} \cup {r \in Req : host[r] = n /\ Running(r)} IN
  /\ pc' = [p \in Proc |-> IF p \notin dead THEN pc[p] ELSE IF p = n THEN "down" ELSE "done"]
  /\ result' = [r \in Req |-> IF r \in dead /\ result[r] = "none" THEN "lost" ELSE result[r]]
  /\ isLeader' = [isLeader EXCEPT ![n] = FALSE]
  /\ curTerm' = [curTerm EXCEPT ![n] = 0]
  /\ polls' = [polls EXCEPT ![n] = 0]
  /\ seen' = [p \in Proc |-> IF p \in dead THEN {} ELSE seen[p]]
  /\ pick' = [p \in Proc |-> IF p \in dead THEN NoNode ELSE pick[p]]
  /\ newTerm' = [p \in Proc |-> IF p \in dead THEN 0 ELSE newTerm[p]]
  /\ quorum' = [p \in Proc |-> IF p \in dead THEN 0 ELSE quorum[p]]
  /\ idx' = [p \in Proc |-> IF p \in dead THEN 0 ELSE idx[p]]
  /\ chunk' = [p \in Proc |-> IF p \in dead THEN <<>> ELSE chunk[p]]
  /\ UNCHANGED <<redisVars, host, kind, lapsed, snapshots>>

\* The last step of the shutdown: DCNMesh.stop, and the process exits.
Stop(r) ==
  /\ pc[r] = "sStop"
  /\ Die(host[r])
  /\ UNCHANGED faults

Crash(n) ==
  /\ Up(n)
  /\ faults < MaxFaults
  /\ faults' = faults + 1
  /\ Die(n)

ClearLocals(p) ==
  /\ seen' = [seen EXCEPT ![p] = {}]
  /\ pick' = [pick EXCEPT ![p] = NoNode]
  /\ newTerm' = [newTerm EXCEPT ![p] = 0]
  /\ quorum' = [quorum EXCEPT ![p] = 0]
  /\ idx' = [idx EXCEPT ![p] = 0]
  /\ chunk' = [chunk EXCEPT ![p] = <<>>]

\* A Redis command of the loop raises: the handler waits and elects again.
LoopFails(n) ==
  /\ Up(n)
  /\ faults < MaxFaults
  /\ faults' = faults + 1
  /\ Goto(n, "eReg")
  /\ polls' = [polls EXCEPT ![n] = 0]
  /\ ClearLocals(n)
  /\ UNCHANGED <<redisVars, isLeader, curTerm, callVars, lapsed, snapshots>>

\* A Redis command of a call raises.  Compaction swallows the exception;
\* everything else hands it to the client.
CallFails(r) ==
  /\ Running(r)
  /\ pc[r] # "sStop"
  /\ faults < MaxFaults
  /\ faults' = faults + 1
  /\ \/ /\ pc[r] \in CompactPc
        /\ Goto(r, AfterCompaction(r))
        /\ UNCHANGED result
     \/ /\ pc[r] \notin CompactPc
        /\ Finish(r, "error")
  /\ ClearLocals(r)
  /\ UNCHANGED <<redisVars, nodeVars, host, kind, lapsed, snapshots>>

-----------------------------------------------------------------------------
(* Time: keys expire and timestamps age.  Under Timely a running node      *)
(* registers, elects (every 15 s) and, when it leads and its loop has not  *)
(* just failed, heartbeats (every second) before the 90 s and 5 s limits;  *)
(* otherwise a stalled node may miss any of them.                          *)

LeaderKeyExpires ==
  /\ leaderKey # NoNode
  /\ Timely => ~Up(leaderKey) \/ isLeader[leaderKey]
  /\ leaderKey' = NoNode
  /\ lapsed' = TRUE
  /\ UNCHANGED <<termKey, active, hb, log, commit, acks, ackTTL, snap, nodeVars, pc,
                 callVars, localVars, faults, snapshots>>

\* Mutant of NodeAges: _get_active_nodes without its 90 s filter.
NodeNeverAges(n) == n \notin Node /\ UNCHANGED vars

NodeAges(n) ==
  /\ n \in active
  /\ Timely => ~Up(n)
  /\ active' = active \ {n}
  /\ UNCHANGED <<leaderKey, termKey, hb, log, commit, acks, ackTTL, snap, nodeVars, pc,
                 callVars, localVars, auxVars>>

\* After an error the loop waits 5 s, elects and sleeps 1 s before it
\* heartbeats again: a leader's heartbeat may age meanwhile.
Recovering(n) == faults > 0 /\ polls[n] = 0

HeartbeatAges ==
  /\ hb
  /\ Timely => \A n \in Node : isLeader[n] => Recovering(n)
  /\ hb' = FALSE
  /\ UNCHANGED <<leaderKey, termKey, active, log, commit, acks, ackTTL, snap, nodeVars,
                 pc, callVars, localVars, auxVars>>

AckSetExpires(i) ==
  /\ i \in ackTTL
  /\ Timely => \A p \in Proc : pc[p] \in WriterPc \cup {"obsAck"} => idx[p] # i
  /\ acks' = {a \in acks : a[1] # i}
  /\ ackTTL' = ackTTL \ {i}
  /\ UNCHANGED <<leaderKey, termKey, active, hb, log, commit, snap, nodeVars, pc,
                 callVars, localVars, auxVars>>

-----------------------------------------------------------------------------

Call(r) == Elect(r) \/ Replicate(r) \/ Compact(r) \/ Stop(r)

Next ==
  \/ \E n \in Node : Start(n) \/ Loop(n) \/ Crash(n) \/ LoopFails(n) \/ NodeAges(n)
  \/ \E r \in Req : Call(r) \/ CallFails(r)
  \/ \E r \in Req, n \in Node, k \in Kinds : Invoke(r, n, k)
  \/ LeaderKeyExpires
  \/ HeartbeatAges
  \/ \E i \in ackTTL : AckSetExpires(i)

Spec == Init /\ [][Next]_vars

\* The event loop of a running node keeps scheduling its tasks, Redis enforces
\* its TTLs, and a timestamp that is not refreshed grows old.  Nothing makes a
\* client call, restarts a node, or makes it fail.
Fairness ==
  /\ \A n \in Node : WF_vars(Loop(n)) /\ WF_vars(NodeAges(n))
  /\ \A r \in Req : WF_vars(Call(r))
  /\ WF_vars(LeaderKeyExpires)
  /\ WF_vars(HeartbeatAges)

FairSpec == Spec /\ Fairness

-----------------------------------------------------------------------------
(* Safety *)

\* As long as no leader key has expired or been deleted, SET NX makes
\* leadership exclusive: a node that believes it leads (elect_leader,
\* replicate_log) and a node that is writing the log (past the guard of
\* replicate_log) both hold the leader key, whatever the interleaving of
\* elections on stale reads.
LeaseExclusive ==
  ~lapsed => /\ \A n \in Node : isLeader[n] => leaderKey = n
             /\ \A r \in Req : pc[r] \in WriterPc => leaderKey = host[r]

\* Until a compaction, commit_index and every acknowledged index name an entry
\* that is in the log, although replicate_log and _follower_log_observer work
\* with a length and a commit index read in earlier commands.
LogBacked ==
  snapshots = 0 => /\ commit < Len(log)
                   /\ \A a \in acks : a[1] < Len(log)

InLog(r)  == \E i \in DOMAIN log : log[i].req = r
InSnap(r) == \E i \in DOMAIN snap.entries : snap.entries[i].req = r

\* An entry that a client was told is committed or pending stays readable, in
\* the log or in the snapshot, through the first compaction (whichever of
\* several compactions running at once it is) and any crash inside it.
EntrySurvives ==
  snapshots <= 1 =>
    \A r \in Req : result[r] \in {"committed", "pending"} => InLog(r) \/ InSnap(r)

-----------------------------------------------------------------------------
(* Refinement: one log over two keys *)

\* The log no longer starts with what the first snapshot holds.
Trimmed == snapshots = 1 /\ (log = <<>> \/ log[1] # snap.entries[1])

\* All the entries there are, in order, and the calls that they belong to.
Entries == IF Trimmed THEN snap.entries \o log ELSE log
History == [i \in 1 .. Len(Entries) |-> Entries[i].req]

D == INSTANCE DecisionLog WITH
       decisions <- History,
       told <- {r \in Req : result[r] \in {"committed", "pending"}},
       forgotten <- snapshots > 1

\* replicate_log and the compactions, over however many nodes and with crashes
\* in between, keep one append-only log: a proposal adds one entry however often
\* it retries, is answered only for an entry that is there, and the first
\* compaction moves entries to the snapshot without losing, repeating or
\* reordering any.
ImplementsDecisionLog == D!Spec

-----------------------------------------------------------------------------
(* Liveness *)

LiveLeader == \E n \in Node : leaderKey = n /\ Up(n) /\ isLeader[n]

\* If some node stays up, the cluster has a running leader again and again:
\* after the leader dies, whether its key is still held, its record is still
\* fresh so that elections keep choosing the dead node, or its heartbeat is
\* still fresh so that no follower looks.
LeaderRestored == (\E n \in Node : <>[]Up(n)) => []<>LiveLeader

\* A node that believes it leads while another holds the key steps down, unless
\* it gets the key back.
DeposedLearns ==
  \A n \in Node :
    isLeader[n] /\ leaderKey \in Node \ {n} ~> ~isLeader[n] \/ leaderKey = n

-----------------------------------------------------------------------------
(* What the repository says of this code, and the code does not do.        *)

\* raft_consensus.py:336, "Flush [0, safe_index) into the snapshot hash, then
\* ltrim the log": what is trimmed is in the snapshot, for good.
SnapshotKeeps ==
  \A r \in Req : result[r] = "committed" => InLog(r) \/ InSnap(r)

=============================================================================
