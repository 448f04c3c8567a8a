# LEVI-AI: verification project

LEVI-AI is a Python application (FastAPI, Redis, Postgres, Neo4j, FAISS, a Rust
kernel) that runs "missions": a planner turns a request into a graph of tasks,
an executor runs the graph with agents, and a set of cooperating nodes keep
mission decisions in a replicated log. This directory holds TLA+ models of its
own core logic, the TLC configurations that check them, and proofs checked by
TLAPS. All paths below are relative to the repository.

Five components are modelled:

| Module | Code | What it is |
|---|---|---|
| `RaftLite` | `backend/core/dcn/raft_consensus.py` | leader election, log replication and compaction over Redis |
| `DecisionLog` | | what the decision log promises to the calls that propose to it; `RaftLite` implements it |
| `CircuitBreaker` | `backend/utils/circuit_breaker.py` | one circuit breaker shared by several processes |
| `Breaker` | | what a circuit breaker promises to its callers; one process implements it with `CircuitBreaker` |
| `TaskGraph` | `backend/core/task_graph.py` | validation, batching and wave partitioning of a mission's graph |
| `CreditLock` | `backend/db/redis_client.py`, `backend/api/payments.py`, `backend/services/payments/tasks.py` | the Redis lock, the day's allowance and the requests that change a user's credits |
| `Account` | | what the credits promise to a caller; `CreditLock` implements it |
| `SovereignFS` | `backend/kernel/bare_metal/src/vfs.rs` | the kernel's file system, with power failures between sector writes |
| `FileStore` | | what the file system promises to a caller; `SovereignFS` implements it |

Each detailed module has an `MC` module (what TLC needs beside it: symmetry,
constraints, values; `RaftLite` has a second, `MCRaftCommit`, with a history
variable), one `.cfg` per run, and a `_proof` module (`RaftLite`,
`TaskGraph` and `SovereignFS` have two). `PROJECT.json` maps every definition to
the lines it models, and lists runs, mutants, findings, hazards and theorems.

    tlc -workers 2 -config RaftFailover.cfg MCRaftLite.tla
    tlapm RaftLite_proof.tla

## 1. Inventory

### How the parts interact

A request enters through the HTTP API (`main.py`, `api/`). The orchestrator
(`core/orchestrator.py`) admits it, claims an idempotency key, records a
mission in the mission state machine (`core/execution_state.py`, one field of a
Redis hash), asks the planner for a `TaskGraph`, has it audited
(`validate_dag`), and gives it to `GraphExecutor`. The executor validates the
graph again with the budget's depth, partitions it into waves and runs the
nodes of a wave concurrently, directly or through Redis task streams read by
distributed workers. Calls to backing services go through circuit breakers
whose state is in Redis. Decisions that all nodes must share go to
`DCNMesh.propose_mission_decision`, which elects a leader, appends to a Redis
list and waits for acknowledgements. A second, older protocol
(`core/dcn_protocol.py`) exchanges signed pulses over a Redis stream. Memory
events form a hash chain per user that a reconciliation worker copies into the
stores.

All processes are asyncio programs: within one process, code between two awaits
runs alone; between processes, and between the tasks of a process at each await,
anything may happen. A Redis command is atomic; two commands are not.

### Components

**Raft-lite consensus engine** (`core/dcn/raft_consensus.py`).
*State*: leader key (90 s TTL), term, node registry, heartbeat, log list, commit
index, acknowledgement sets (300 s TTL), snapshot hash - all in Redis; `is_leader`
and `current_term` per process. *Operations*: `elect_leader`, `trigger_election`,
`check_leader_health`, `_follower_log_observer`, `replicate_log`,
`take_snapshot`/`_compact_log`, `restore_from_snapshot`, `start`/`stop`,
`run_raft_failover_simulation`, `propose_mission_decision`. *Hard*: every
operation is a sequence of Redis commands on values read earlier; the key
expires under its holder; processes stop anywhere; compaction runs in the
background. *Correct if*: leadership is exclusive while a lease lasts, what is
committed or acknowledged is in the log, an answered entry is never lost, a
leader comes back after any failure, a deposed leader finds out.

**Circuit breakers** (`utils/circuit_breaker.py`). *State*: per name, three Redis
keys (state, failures, last failure) and a copy in each process. *Operations*:
`call`. *Hard*: calls overlap within and across processes, each transition is
several commands, Redis may raise in the middle, the probe of a half-open
circuit is only the first of any calls let in. *Correct if*: a counted circuit
trips, an open one holds for its timeout, a healthy service gets its circuit
closed, readiness follows.

**Task graph** (`core/task_graph.py`). *State*: a list of nodes with
dependencies. *Operations*: `validate_dag`, `max_depth`, `_flatten_dag`,
`get_execution_waves`, `get_ready_tasks`, `mark_complete`. *Hard*: graphs come
from a language model, so any shape does; counters and orders of loops; two
validations with different limits. *Correct if*: only sound graphs pass,
batching respects the limit and loses no dependency, no task runs before what
it needs.

**DCN pulse protocol** (`core/dcn_protocol.py`, `core/dcn/gossip.py`). *State*:
node role, term and last applied index in memory; cluster term, leader and
stream in Redis. *Operations*: election, vote, heartbeat, broadcast, receive,
gap detection and reconciliation. *Hard*: votes carry no term check, pulses
arrive late or twice, reconciliations are background tasks. *Correct if*: one
leader per term, the applied index never goes back, gaps are filled.

**Mission state machine** (`core/execution_state.py`). *State*: JSON of a mission
in a Redis hash, idempotency claims, a Postgres row. *Operations*: `initialize`,
`transition`, `record_node`, `claim_idempotency`, boot recovery. *Hard*:
read-modify-write by several processes, unordered background writes to Postgres,
a claim that expires while its mission runs; a flag copied at import decides
whether the store is on at all. *Correct if*: transitions follow the table,
terminal states last, one mission per key, in-flight missions are recovered.

**Graph executor** (`core/executor/`). *State*: results, remaining nodes, budget,
compensation stack. *Operations*: run a wave, retry a node, fall back, compensate.
*Hard*: concurrent nodes of a wave, cancellation between waves, partial failure,
compensation order. *Correct if*: every completed step of a failed mission is
compensated once, in reverse; no node runs twice after recovery.

**Task streams and workers** (`core/executor/streams.py`, `distributed.py`).
*State*: Redis stream, consumer group, dead-letter stream. *Operations*: enqueue,
read, claim stale, complete, fail. *Hard*: crash between acknowledgement and
re-enqueue, delivery counts, duplicate execution. *Correct if*: a task is run to
an end or dead-lettered, never dropped.

**Locks and credits, slots, rate limits** (`db/redis_client.py`, `db/redis.py`,
`api/payments.py`, `services/payments/tasks.py`, `utils/robustness.py`). *State*:
lock keys, counters, a day's spend, a user's tier and credits in Firestore.
*Operations*: `distributed_lock` (two variants), `use_credits`, `_refund_credits`,
`verify_payment_endpoint`, `reset_monthly_credits`, `standard_retry`, concurrency
slots, windows. *Hard*: expiry under the holder, a balance read in one call and
reduced in another, unlocked writes of the same fields, retries that take another
path than the run before, check-then-decrement, un-awaited coroutines. *Correct
if*: mutual exclusion within the TTL, one charge per answer and none per refusal,
no credit taken that is not there.

**Kernel file system** (`kernel/bare_metal/src/vfs.rs`). *State*: superblock,
inode table and data blocks on the disk, two bitmaps in memory. *Operations*:
`init`, `create_file`, `append_to_file`, `lookup`, `read_inode_data`. *Hard*: one
operation is many sector writes, an allocation fails halfway, the power fails
between any two, the bitmaps do not survive, and other parts of the kernel write
sectors of the data area by number. *Correct if*: no block is used twice, entries
lead to whole files, an operation happens entirely or not at all.

**Memory events and graduation** (`memory/consistency.py`, `services/mcm.py`).
*State*: hash chain per user, checkpoint, votes. *Operations*: append, reconcile,
vote, graduate. *Hard*: two appends to one head, an event that always fails, a
vote after clean-up. *Correct if*: the chain does not fork, every event reaches
every tier, a fact is anchored once.

**Anti-entropy** (`core/dcn/consistency.py`), **orchestrator**, **governance and
discovery**, **event buses and workers**, **Rust kernel**, the rest of the
**bare-metal kernel**, **memory tiers**, **agents and planning**, **HTTP API**: see
section 10 and the notes in `PROJECT.json`.

## 2. Plan

The order was: what several machines must agree on (`RaftLite` against the
abstract `DecisionLog`), what guards every backing service (`CircuitBreaker`
against `Breaker`), what every mission goes through (`TaskGraph`), what costs a
user money (`CreditLock` against the abstract `Account`), and what must survive a
power failure (`SovereignFS` against the abstract `FileStore`). All are done.

The plan also had the mission state machine, the executor, the task streams, the
pulse protocol and the memory event chain. Reading them for their models
showed that none of them does anything in the running program (section 10): a
model of what they would do would be a model of other code.

Left to do: an abstract leadership lease, with `RaftLite` shown to implement it
up to the first lapse.

The modules are written to be proved about: constants have named assumptions,
there is one action per operation, no recursive operator is used.

## 3. RaftLite

### Correspondence

One action is one awaited Redis command together with the local code up to the
next await. A node is a process whose background task `_election_loop` is the
task named by the node; client calls (`Req`) are further tasks of the node they
arrive at and share its `is_leader` and `current_term`. `pc` names the next
command.

| Code | Actions |
|---|---|
| `start`, `restore_from_snapshot` | `Start`, `Restore` |
| `elect_leader` | `Register`, `ReadNodes`, `ReadTerm`, `ReadLeaderStable`, `ReadLeaderNone`, `SetLeaderNX`, `RereadLeader`, `SetTerm` |
| `trigger_election` | `Trigger`, then the election |
| `check_leader_health` | `Heartbeat`, `CheckHeartbeat` |
| `_follower_log_observer` | `ObserveLength`, `ObserveCommit`, `ObserveAck` |
| `replicate_log` | `GuardLeader`, `ReadQuorum`, `ReadLength`, `Push`, `SelfAck`, `CountAcks`, `Retry`, `TimeOut`, `WriteCommit` |
| `take_snapshot`, `_compact_log` | `SnapshotLength`, `ReadCommit`, `ReadRange`, `WriteSnapshot`, `TrimLog` |
| `DCNMesh`, drill, `POST /sys/resync`, shutdown | `Invoke`, `Return`, `Finish`, `Stop` |
| exceptions of Redis, processes that end | `LoopFails`, `CallFails`, `Crash` |
| TTLs and ageing timestamps | `LeaderKeyExpires`, `NodeAges`, `HeartbeatAges`, `AckSetExpires` |

`ElectAtOnce` is a whole election in one step. It is used, under
`AtomicElection`, only by runs whose question is about the log.

Not modelled: the latency filter of `elect_leader` (nothing ever writes
`latency_ms`), the seven-day TTL of log and snapshot, the answers given when
there is no Redis client, and `get_log_entries`/`get_cluster_status`, which only
read.

`DecisionLog` knows the sequence of calls that have an entry and the set of calls
that were told so: `Decide` adds a call that has none, `Tell` answers one that has,
and `Forget` ends every promise. `RaftLite` maps the sequence to `History`: the
calls of the log, behind those of the snapshot once the first compaction has
trimmed the log (`Trimmed`); told are the calls answered `committed` or `pending`;
and a second snapshot forgets. So a push is the one step that decides, storing
and trimming are invisible, and a failed or repeated command decides nothing.

### Time

Elapsed time is nondeterministic: a TTL may end at any step. `Timely` restricts
that to what a process that is not stalled does: it registers and elects about
every 15 s against 90 s TTLs, heartbeats every second against the 5 s threshold,
and waits 2 s for acknowledgements whose sets live 300 s. After an error the
election loop waits 5 s, elects and sleeps 1 s before it heartbeats again
(raft_consensus.py:499-504), which is longer than the threshold: while a leader is
`Recovering`, its heartbeat ages even under `Timely`. The theorems hold either way (a stalled process may miss every deadline); the runs set it to TRUE,
so that neither liveness nor a finding rests on a stall.

### Runs

| Run | Instance | Question |
|---|---|---|
| RaftLog | 2 nodes, 2 calls of any kind | `TypeOK`; `LogBacked`: commit index and acknowledgements never run ahead of the log |
| RaftCompaction | 1 node, 4 calls, 1 fault, no lapse | `EntrySurvives`: an answered entry stays readable through the first compaction; `ImplementsDecisionLog`: log and snapshot are one append-only log until a second snapshot |
| RaftFailover | 2 nodes at the grain of single commands, 2 faults, fair | `LeaseExclusive`: until a leader key lapses, only its holder leads or writes; `LeaderRestored`, `DeposedLearns` |
| RaftCommit | 2 nodes, 2 proposals, `MCRaftCommit` | `CommittedByMajority` is violated (section 8) |
| RaftSnapshot | 1 node, 4 proposals | `SnapshotKeeps` is violated (section 8) |

`MCRaftCommit` adds `heard`: which nodes can have received a call's entry, because
it was in the log when they acknowledged its index. In the run's trace two nodes
are active, so the quorum is two.

Bounds. Two nodes give every interleaving of a winner and a loser, and a leader's
death with a survivor; the two safety theorems cover any number. `PollsPerElection` is 1
where the code has 15 health checks: more checks repeat the same steps, none
depends on their number. `Threshold` 3 makes compaction possible within four
proposals; 9 excludes it where the question is another. `MaxTerm` makes terms
saturate: no code compares terms. `OneSnapshot` stops the
exploration where the properties no longer say anything, and `NoLapse` where the
only node of RaftCompaction would elect itself again. That writers hold the
key, and stalls of any length, are in the theorem about `LeaseExclusive`. Calls are interchangeable
(each is an id), nodes are not (the smallest is elected), so symmetry is on
`Req` only.

### Fairness

Weak fairness on a node's loop and on each call (the event loop keeps scheduling
ready tasks, and Redis answers), on the leader key's TTL and on the ageing of a
record nobody refreshes. Nothing forces a client call, a restart or a fault, and
`LeaderRestored` asks only that some node eventually stays up.

## 4. CircuitBreaker

### Correspondence

A call of `call` occupies a slot of a process. `_get_state` and `_set_state` are
declared `async` but await nothing, so within a process the code before `await
func(...)` runs without another call in between, and so does the code after it
(`Turn`); processes interleave at every Redis command.

| Code | Actions |
|---|---|
| entry, OPEN check | `Begin`, `ReadLastFailure`, `Probe` |
| the function | `Succeed`, `Fail`, `Cancel` |
| success path | `CheckRecovery`, `Close`, `ClearFailures` |
| except block | `CountFailure`, `StampFailure`, `Trip` |
| a Redis command raises | `RedisRaises`: the command may or may not have been executed; on the success path it lands in the same `except` |
| `__init__` again | `Restart` |
| time | `CoolDown` |

The branch without any Redis client is not modelled.

`Breaker` takes note of every outcome in one step: `Success` closes a half-open
circuit and forgets its failures, `Failure` counts, and opens the circuit if the
count reaches the threshold; `Break` ends every promise. `CircuitBreaker` maps
its state to `State`, `Count` and `Hot`, which take a transition as made with its
first command: the INCR opens (`over # {}`), the SET of "closed" deletes the count.
A rejected call shows nowhere. The refinement holds for one process, and only
because `_get_state` and `_set_state` never suspend: its mutant drops `Turn`, as
an asynchronous client would.

### Runs

| Run | Instance | Question |
|---|---|---|
| BreakerFleet | 2 processes with one call each, threshold 2, 1 fault, fair | `TypeOK`, `TripsAtThreshold`, `Heals` |
| BreakerProcess | 1 process with 3 overlapping calls, threshold 3, 2 faults | `OpenIsCounted`, `OpenHolds`, `ImplementsBreaker` |
| BreakerReadiness | 2 processes, no fault, fair | `ReadinessRecovers` is violated (section 8) |

The three are stated for one process because two break
them: one deletes the count the other has just reached, and one's late probe
overwrites the other's fresh "open". Nothing in the repository promises otherwise.
BreakerReadiness has no faults: the violation does not need one.

Bounds. Failures saturate at the threshold, since `fails >= threshold` is all the
code asks. Thresholds 2 and 3 leave room for counts below, at and above; faults
are bounded because each one only adds a point from which the rest must recover.
With two calls in each of the two processes the same properties hold (154,363
states, four minutes); the run keeps one.

### Fairness

Redis commands return; guarded functions end (they have timeouts); callers keep
calling (`kernel/serial_bridge.py` calls its breaker in a loop). `Begin` and the
return of the function need their `Turn`, which comes and goes, so they are
strongly fair: asyncio's ready queue is FIFO. The liveness properties assume
`Calm`, that from some time on the guarded service answers.

## 5. TaskGraph

### Correspondence

The graph is a set of ids with a set of dependencies each. `_analyze_dag` is
`RejectEmpty`, `RejectMissing`, `RejectOrphans`, then one `Visit` per turn of the
queue (`StartSort`, `RejectCycle`), then one `Connect` per turn of the
connectivity search (`StartConnect`, `RejectDisconnected`). `validate_dag` is
`Analyzed` and `Flatten`; `Revalidate` is its second call (the planner audits
with limit 12, the executor with the budget's), `Measure` is `max_depth()`.
`RunWave` is one turn of `get_execution_waves`. The code's order within a queue
or a list is left open: any element may be next.

Not modelled: `add_node`, `get_ready_tasks`, `mark_complete` (part of the
executor's run of a graph), formatting and cost.

### Run

TaskGraphs explores every graph over four ids - every subset as the tasks, every
dependency relation, self-loops and missing ids included - with limits 1 to 3 and
up to two validations. Four tasks are the fewest for a graph in two connected
pieces, three limits with two validations batch a batch. Properties:
`RejectsExactly` (cycles and pieces, against definitions that quantify over sets
of tasks), `DepthIsLongest`, `FlattenFits`, `WaveOrder`, `WavesComplete`, and
`LoopsEnd`: each step goes on to a later station of the algorithms, which are
finitely many, or is a turn of a loop that deals with one more task for good. That
is termination stated as an action property, which needs no fairness and can be
proved. Deadlock is not checked: the algorithm ends.

## 6. CreditLock and Account

### Correspondence

Each request is a thread of its own: a use (`use_credits`), a refund
(`_refund_credits`), a payment (`verify_payment_endpoint` once the signature is
accepted) or a monthly reset (`reset_monthly_credits`). The last two take no
lock. A Redis command or a Firestore call is one step.

| Code | Actions |
|---|---|
| `use_credits`, the day's spend and the allowance | `GetSpend`, `Profile`, `Update` |
| `distributed_lock`: SET NX, sleep, try again | `Acquire`, `Busy`, `AcquireFails` |
| `use_credits` under the lock | `Read`, `Update` |
| `_refund_credits`, a payment's bonus and tier | `Update` |
| `reset_monthly_credits` | `Query`, `Update` |
| a Redis command or a Firestore call raises | `StoreFails` |
| the `finally` clause and its script | `Release`, `Delete` |
| `standard_retry`, the `except` of refund and reset | `Raise` |
| the process dies, the key's time to live ends, a new date | `Crash`, `Lapse`, `NewDay` |

A run that raises is run again from the first line of the function. So a use that
was refused, found the lock busy or lost a call reads the day's spend and the
tier again; a payment or a new day in between may let it answer from the
allowance. 402, 429 and errors of Firestore are all retried, as `standard_retry`
retries every exception.

The lock's token is `str(time.time() + ttl)` (redis_client.py:395). In the model it
is the request, which acquires again only after its earlier token was deleted or
lapsed: two processes that take the same float are left out.

`Account` knows a balance, what the day's allowance has paid for, and the set of
requests that have been settled: each once, in one step. A use takes from the
allowance, or from a balance that covers it - unless the lock no longer protects
that balance: a holder stayed longer than the key, or a reset, which writes the
month's credits over whatever is there, came between a use's comparison and its
charge. `CreditLock` maps `settled` to the requests whose change was applied and
`disturbed` to `expired # {} \/ overwritten`. The limit of the allowance is no
promise: the code compares with what was spent a moment ago and calls the check
optimistic (payments.py:64).

### What of it runs at this commit

Little: the module models what the functions do when their calls return.

- `get_daily_ai_spend` (payments.py:65) calls `float` on the coroutine of an
  asynchronous breaker call nobody awaits (redis_client.py:57, :255): with Redis it
  raises `TypeError`. Without Redis line 80 would raise 503, but line 72 comes
  first: `TIERS["free"]`, evaluated in any case, is no tier of
  `config/system.py`. So `use_credits` raises in every attempt, before the lock.
  The module has both: `SpendReads = FALSE`, or a `Limit` without `Free`, is this
  commit, where no use is answered and none is charged. The run sets `SpendReads`
  to TRUE, as the repository's tests do by patching the call
  (test_distributed_locks.py), and gives `TIERS` the tier; the theorems hold for all
  values.
- `reset_monthly_credits` looks up the same tier and returns an error
  (tasks.py:48). Its module cannot be imported where it is:
  `backend/services/payments.py` shadows the directory `backend/services/payments`,
  which has no `__init__.py`; `_refund_credits`, in the same file, has no caller.
- `verify_payment_endpoint` works.

### Run

CreditLock: two uses, a refund, a payment and a reset, each decorated one with two
attempts, two SET NX per attempt, an opening balance for one use only, an
allowance of one use for the tier that the payment buys and of none for the tier
before it, one fault, keys that lapse at any time (`Timely` is FALSE). Properties:
`TypeOK`; `HolderKeepsKey` (a late release never deletes the key of the next
holder); `AnswerMatchesCharge` (one charge per answer, none per refusal, through
all retries and whichever way each of them goes); `ImplementsAccount`; `Settles`
(the lock becomes free and every request is answered, whoever died).

Bounds. Two uses compete for the credits of one; a refund competes for the lock; a
payment changes balance and tier without it, and a reset the balance. The code has
3 attempts of 4 SET NX; two of two have every kind of attempt (a first and a last),
and the theorems hold for any number. `Ambiguous` is FALSE: a write that raises was
not applied. With TRUE, the retry charges again - the code has no idempotency key
for it - and `AnswerMatchesCharge` has no meaning to check.

Fairness. Weak fairness of each thread's step (threads run, calls return or
raise) and of the key's time to live. A fault is never forced.

## 7. SovereignFS and FileStore

### Correspondence

One operation runs at a time; every sector write is a step. The callers are
`orchestrator.rs:46` and `:95`, `stability.rs:37` and `:58` and `syscalls.rs:196`,
all of `create_file`, the last three through `fs.rs`. `vfs::init` is called by
`fs::init` alone, which nobody calls, and `append_to_file` by nobody. So `Boot` does
nothing but begin with empty bitmaps, `Format` may or may not happen, and every
other operation is possible on any boot, as none of them looks at the superblock.

The crate does not compile at this commit: `syscalls.rs` at lines 128, 196, 215,
228 and 307, `journaling.rs` at 33 and 41 and `shell.rs` at 99 use functions that
do not exist or results that are not there. None of this is in `vfs.rs`.

| Code | Actions |
|---|---|
| the static bitmaps at boot | `Boot` |
| `init`, `format_fs` | `Format`, `FormatRoot` |
| `create_file` | `Create`, `CreateBlock` once per block, `CreateInode` |
| `add_dir_entry` | `LinkInSlot` or `LinkInBlock` or `LinkNowhere`, then `LinkRoot` |
| `append_to_file` | `AppendTo`, `Grow` once per block, `Grown`, `Fill` once per byte, `AppendInode` |
| `lookup`, `read_inode_data` | `Lookup`, `ReadInode` |
| sectors written by number | `Overwrite` |
| the power fails | `PowerFails`: disk kept, bitmaps and operation gone |

`Overwrite` is `main.rs:106` (LBA 200, which is block 162, on every boot) and
`syscalls.rs:215` (LBA 1000, block 962); `journaling.rs:41` and `shell.rs:99` write
LBA 50, which is block 12. `RawBlocks` names the blocks.

A cell of a block is a byte or a directory entry. The directory keeps the first 24
bytes of a name (`Clip`), itself a name that `lookup` matches: a file with a longer
name appears under its clipped one. `Blocks`, `Inodes`, `BlockSize` and `MaxDirect`
are the code's constants. `Inodes` stands for as many as the table has room for: the
code has 64-byte inodes, 32 sectors and 512 numbers, so inodes from 256 on lie in
the data area. Bytes of a file are never taken for a directory entry or a free slot;
they could be only where a file and the directory have a block in common.

Not modelled: the journal (its records are never read), `free_block` (no caller),
the sectors reserved for the bitmaps (never read or written). The disk arrives
blank.

### What is promised, and how long

Two history variables, which no step reads, bound the claims. `fresh` says that
this boot has formatted the disk. `spoiled` becomes TRUE when a boot that has not
allocates anything - its bitmaps do not know what is in use - or when a raw write
hits a block in use. Until then `NoSharing`, `EntriesLeadToFiles` and
`ImplementsFileStore` hold: through failed operations, through power failures
anywhere, and on later boots as long as they read, append within blocks a file
already has, or write elsewhere. From then on only the type invariant holds: the
creates of a later boot take inode 0, then the inodes of existing files, and block
0, which is the directory's. FSReboot shows why. In the kernel as it is, where
nothing formats, the first `create_file` of the first boot spoils the disk.

`FileStore` maps each name to a content or to nothing: a create gives a name its
whole content, an append adds all of its content, nothing else changes, and from a
`Lose` on nothing is promised. The mapping reads the disk as the code does,
`ReadInode(Lookup(n))`, for the names the directory can hold (`Kept`), so that a
power failure, a half-written file or a directory entry whose root inode is not
written yet are all invisible, and `lost` is `spoiled`. A second file with the name
of a first one is invisible too: `lookup` finds the first.

### Runs

| Run | Instance | Question |
|---|---|---|
| SovereignFS | 4 blocks of 2 cells, 4 inodes, 2 direct blocks, 3 names (one clipped to another), 4 contents, 1 raw block | `TypeOK`, `NoSharing`, `EntriesLeadToFiles`, `ImplementsFileStore` |
| FSReboot | 5 blocks, no raw block | `BitmapFromDisk` is violated (section 8) |

Bounds. The contents have none, one, two and too many blocks. Three inodes
beside the root and four blocks, for up to three files of two blocks and a
directory of two, run out in either order, in the middle of a file, of an append
and of a new directory block; an append may stay in a block, cross into a new
one, or not fit. The power may fail any number of times. The run SovereignFS goes
no further than the first spoiled state (`Unspoiled`): after it three of its properties say
nothing, so nothing is cut off that they are about; that the types survive on a
spoiled disk is the theorem's. No fairness: the properties are safety, and a caller may stop
at any time.

## 8. Findings

Each is a run that TLC must find violated; `PROJECT.json` quotes the sentence of
the repository that says otherwise.

- **RaftCommit**: with two active nodes, two proposals of one leader share an index.
  The other node acknowledges it when only the first entry is there; the second,
  pushed afterwards, is committed on that acknowledgement
  (README_ARCHITECTURE.md:83).
- **RaftSnapshot**: the second compaction overwrites the first snapshot, the only
  copy of what was trimmed (raft_consensus.py:336).
- **BreakerReadiness**: a process whose circuit another closed keeps an open object
  and answers 503 for ever (main.py:298).
- **FSReboot**: the bitmaps start empty at every boot and nothing fills them: the
  blocks of all files are free for the next create (vfs.rs:134 "In-memory bitmap
  (lazily populated from disk)").

Two more were read and have no run of their own: no use of credits is ever answered
at this commit (section 6), and `create_file` answers with an inode number when
`add_dir_entry` had no room for the entry (`LinkNowhere`; vfs.rs:314 promises None
when out of resources).

## 9. Proofs

The theorems hold for every value of the constants that satisfies the named
assumptions of the modules.

| Theorem | Assumes | Says |
|---|---|---|
| `TypeCorrect` | node ids are integers in a finite set, calls are not nodes, bounds are naturals | `[]TypeOK` of RaftLite |
| `LeadershipExclusive` | the same | `[]LeaseExclusive` |
| `AcknowledgedIsLogged` | the same | `[]LogBacked` |
| `EntriesSurvive` | the same | `[]EntrySurvives` |
| `DecisionLogImplemented` | the same | `ImplementsDecisionLog`: the refinement |
| `BreakerTypeCorrect` | threshold a positive natural | `[]TypeOK` of CircuitBreaker |
| `CountedCircuitTrips` | the same | `[]TripsAtThreshold` |
| `OpenCircuitHolds`, `OpenCircuitCounted` | also: one process | `OpenHolds`, `[]OpenIsCounted` |
| `BreakerImplemented` | also: one process | `ImplementsBreaker`: the refinement |
| `GraphTypeCorrect` | finitely many ids, positive limits | `[]TypeOK` of TaskGraph |
| `AnalysisIsExact` | the same | `[]RejectsExactly` |
| `WavesRespectDependencies` | the same | `[]WaveOrder` |
| `DepthsAreLongest` | the same | `[]DepthIsLongest` |
| `BatchingFits` | the same | `[]FlattenFits` |
| `WavesAreComplete` | the same | `[]WavesComplete` |
| `EveryLoopEnds` | the same | `LoopsEnd` |
| `LockTypeCorrect` | requests of one kind only, naturals for the sizes | `[]TypeOK` of CreditLock |
| `HoldersKeepTheKey` | the same | `[]HolderKeepsKey` |
| `AnswersMatchCharges` | also: a write that raises was not applied (`~Ambiguous`) | `[]AnswerMatchesCharge` |
| `AccountImplemented` | the same | `ImplementsAccount`: the refinement |
| `DiskTypeCorrect` | positive sizes; entries, bytes and blanks differ; clipping a name twice is clipping it once | `[]TypeOK` of SovereignFS |
| `BlocksNeverShared` | the same | `[]NoSharing` |
| `EntriesLead` | the same | `[]EntriesLeadToFiles` |
| `FileStoreImplemented` | the same | `ImplementsFileStore`: the refinement |

The inductive invariants:

- `TypeOK` of RaftLite includes `PhaseOK`: a polling loop has polls left, a running
  call has a node, an election about to write has picked one. Without it the
  types of the next state do not follow.
- `LeaseInv` adds to `LeaseExclusive` what each task relies on: a writer or a call
  about to be let in holds the key; an election that lost SET NX knows that
  someone holds it; one about to report its pick knows that the pick does.
- `LogInv` adds that every length or index a task carries is within the log.
- `EntryInv` (`RaftEntries_proof`) is about the history, and holds until a second
  snapshot. `CompactTask` says that what a compaction has read, and then what the
  snapshot holds, is the beginning of the log, as long as it is about to trim: its
  index is at most the commit index, which by `LogInv` is below the length, the
  log only grows until someone trims, and at most one task is about to trim.
  `StoreInv` says that no call has two entries; therefore the first entry of
  snapshot and log tells whether the trim has happened. `Has` follows a call: it
  has an entry from its push on, and none before. Of all the steps only a push
  and the commands of a compaction touch log or snapshot (`StepKinds`, `Keeps`);
  a push appends to the history (`PushHistory`), a store and a trim leave it as
  it is. Afterwards nothing is promised, and `SnapshotKeeps` is violated.
- `TripInv` says what a call between its commands owes: while a circuit that has
  reached its threshold is closed, some call is about to open it or to delete the
  count.
  The one-process theorems rest on `OneTurn`: only one call is between commands.
  Hence what the one that moves has seen still holds (`Sighted`, `Counted`,
  `Closing`), and a step changes what `Breaker` shows of that call alone
  (`ViewStep`).
- `GraphInv` says what counters count (`inbound[n]` is the number of dependencies
  not yet visited, or not yet scheduled), that no set of visited tasks is a cycle,
  and that the search for connectivity has never left a set closed under edges.
- `PassInv` (`TaskGraphBatch_proof`) follows a graph through several analyses.
  Depths are determined by the dependencies alone (`ChainUnique`), so what one
  analysis computed is what the next will: batching gives the batch the depth of
  the limit and leaves the others theirs. Hence an old batch, at the top of its
  graph (`TopInv`), is always part of a new one; the new graph has no cycle and
  no pieces if the old one had none; and nothing in it is above the limit
  (`LimitInv`). In the waves, those sent are the tasks up to the depth reached.
  `LoopStep` needs from it that a graph that is measured is never validated again,
  and from `GraphInv` that what waits in a queue has not been dealt with before.
- `Placed` says which places a request of each kind can be in. `Counted` says how
  often a request's change was applied, by where it is and what it has left; that a
  retry starts at the first line again is harmless because only a run that has not
  been charged raises. `Covered` says why a use may take its credits: from its
  read to its update the balance it compared can only have grown, because every
  other use needs the lock - until somebody overstays or a reset has `overwritten`
  what was compared.
- The invariant of SovereignFS has two parts. `TypeInv` holds always: beside the
  types, an inode's pointers cover its size (`PointersCover`), and an operation
  never has more blocks than pointers (`BlockCounts`, `GrowCounts`); a spoiled disk
  does not disturb that, because an append copies the inode it has found. `OpInv`
  holds until the disk is spoiled. The disk alone is `Sound` in every state: entries
  and blocks are in order, so a power failure needs no step of its own. On a boot
  that is `fresh` its bitmaps cover what the disk uses (`Marked`), on any other
  nothing has been allocated yet, or the disk would be spoiled, and each operation has a clause
  (`CreateOp`, `BlockOp`, `LinkOp`, `RootOp`, `GrowOp`) that says its blocks are
  marked, used nowhere and not taken twice. `After` states the disk as it will be
  once the root's inode is written.
- `StoreInv` (`SovereignStore_proof`) says what a reader of the disk finds. Of the
  steps of a create, the files change only in the one that completes the link: the
  slot of the directory, or the root's inode when the directory got a new block.
  Of an append, only in the write of the inode. `RootFiles` states what the
  root's inode is about to change; `PackedDisk` (entries before blank slots) is why
  a second entry of a name never hides the first; every other write shows nowhere,
  a raw one because it misses the blocks in use.

Each proof has one lemma per action or group of actions and a last temporal step.

Only model-checked: every liveness property
(`LeaderRestored`, `DeposedLearns`, `Heals`, `ReadinessRecovers`, `Settles`).
Liveness under fairness and ENABLED are outside
what the prover handles, and so is induction over data, so what a recursive
definition computes cannot be proved; none is used here.

## 10. Not modelled, and why

**Off in the running program.** `db/redis.py` starts with `HAS_REDIS = False` and
sets it only under `TEST_MODE`; the modules below import the flag by value. They
see FALSE for ever, and each returns early:
the mission state machine (`core/execution_state.py`), the memory event log
(`memory/consistency.py`), task streams and distributed workers, the event bus,
the anti-entropy loop, and the pulse protocol with its gossip and governance.
`db/redis_client.py` has a flag of its own, which is set at import, and
`raft_consensus.py` asks for its client when it starts: `RaftLite` is live. Of
`CreditLock` section 6 says what is.

**Does not get past its first step.** `GraphExecutor.execute` calls
`mission_sm.get_state()`, which does not exist, and its resilient path uses
undefined names; the v8 executor enters a circuit breaker with `async with`,
which it does not support, so each node raises between taking its VRAM and
giving it back, and the VRAM pool is never contended. `distributed.py` reads an
undefined stream name. The bare-metal executor holds the scheduler's guard across
the yield, and the timer handler takes the same lock: it hangs at the first
switch. `distributed_lock` of `db/redis.py` calls its breaker without awaiting
it and never sends SET NX.

**Does not build or has no caller.** The Rust kernel behind the Python bridge
(`filesystem.rs` uses types it does not import) and `levi_runtime`; bare-metal
`tcp.rs` and `raft.rs`; graduation in `services/mcm.py`.

**Beside the models.** Concurrency slots (no caller imports them from where they
are), rate limits; of the payments an unknown user (404), the paths without Redis and
`upgrade_user_tier`; the circuit breaker without any Redis client; paging, drivers
and network of the bare-metal kernel, whose state is hardware.

**No state protocol.** Planning, reasoning and agents are calls of language
models; memory tiers, discovery and load balancing are scoring around stores;
HTTP handlers delegate. Binaries and libraries under `desktop/` are third-party.

## 11. Hazards no property covers

`PROJECT.json` lists every hazard with its line. Those without a property: after a
lapse of the leader key two nodes may write; past the first compaction of
`RaftLite` indices no longer name entries, so nothing relates commit index and log;
an entry the leader gave up on stays the one the observers acknowledge, so later
proposals may stay pending; the mission store is off; an update of credits whose
answer is lost is charged again; inodes from 256 on overwrite data blocks.

Others are covered up to where the code itself stops: a use may go beyond the day's
allowance when another is under way, and beyond its balance when a reset or an
overstayed lock comes in between; a refund that finds the lock busy is logged as
deferred and never made (`Account` allows it: a request changes the balance at most
once); how long a circuit stays open is promised within one process only; a disk
that an unformatted boot or a raw write has spoiled keeps nothing but its types. A
quorum is of the nodes active at that moment, as the code promises no more. The
shared term of `RaftLite` may go back; no code compares terms, so nothing follows.
