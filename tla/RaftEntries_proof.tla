--------------------------- MODULE RaftEntries_proof ---------------------------
(***************************************************************************)
(* RaftLite implements DecisionLog, for every set of nodes and calls: one  *)
(* append-only log over the two keys ...:log and ...:snapshot, until a     *)
(* second snapshot; and what a client was told stays readable.             *)
(*                                                                         *)
(* A compaction stores what it read and then trims as many entries as it   *)
(* read, however long the log has become.  CompactTask says that these are *)
(* the same entries, from the read to the trim.                            *)
(***************************************************************************)
EXTENDS RaftLite_proof, SequenceTheorems

Prefix(s, t) == Len(s) <= Len(t) /\ \A k \in 1 .. Len(s) : s[k] = t[k]

\* What a compaction relies on.  Nobody trims before the first snapshot; the one
\* who stored it trims what it holds.
CompactTask(r) ==
  /\ snapshots = 0 =>
       /\ pc[r] = "cRange" => idx[r] \in 1 .. Len(log)
       /\ pc[r] = "cSnap" => idx[r] > 0 /\ Len(chunk[r]) = idx[r] /\ Prefix(chunk[r], log)
       /\ pc[r] # "cTrim"
  /\ snapshots = 1 /\ pc[r] = "cTrim" =>
       idx[r] = Len(snap.entries) /\ Prefix(snap.entries, log)

Told(r) == result[r] \in {"committed", "pending"}
Answered(r) == pc[r] \in CompactPc \cup {"sStop", "done"}
Pushed(r) == pc[r] \in {"rAck", "rCount", "rSleep", "rCommit"} \/ Told(r)
Unpushed(r) == pc[r] \in ElectPc \cup {"idle", "rGuard", "rNodes", "rLen", "rPush"}

\* Call r has an entry.
Has(r) == \E i \in DOMAIN History : History[i] = r

AnswerInv == \A r \in Req : Told(r) => Answered(r)

\* Snapshot and log hold every entry once, and the log holds either all or none
\* of the snapshot.
StoreInv ==
  /\ \A i, j \in DOMAIN History : History[i] = History[j] => i = j
  /\ snapshots = 1 => snap.entries # <<>> /\ (Trimmed \/ Prefix(snap.entries, log))

EntryInv ==
  snapshots <= 1 =>
    /\ \A r \in Req : CompactTask(r)
    /\ \A r, s \in Req : pc[r] = "cTrim" /\ pc[s] = "cTrim" => r = s
    /\ \A r \in Req : Pushed(r) => Has(r)
    /\ \A r \in Req : Unpushed(r) => ~Has(r)
    /\ StoreInv

\* A step leaves call r's part of the invariant alone.
Keeps(r) ==
  /\ pc'[r] \in {"cRange", "cSnap", "cTrim"} =>
       pc'[r] = pc[r] /\ idx'[r] = idx[r] /\ chunk'[r] = chunk[r]
  /\ Pushed(r)' => Pushed(r)
  /\ Unpushed(r)' => Unpushed(r)
  /\ Told(r) => Told(r)'
  /\ Told(r)' => Answered(r)'

\* A call whose task is left alone.
LEMMA SameKeeps ==
  ASSUME AnswerInv, NEW r \in Req,
         pc'[r] = pc[r] /\ idx'[r] = idx[r] /\ chunk'[r] = chunk[r] /\ result'[r] = result[r]
  PROVE  Keeps(r) /\ (Told(r)' => Told(r))
BY DEF Keeps, Pushed, Unpushed, Told, Answered, AnswerInv

\* elect_leader answers no call with a log entry.
LEMMA ReturnEntry ==
  ASSUME TypeOK, NEW p \in Proc, NEW m \in Node, Return(p, m)
  PROVE  /\ \A r \in Req \ {p} : result'[r] = result[r]
         /\ p \in Req => result'[p] \in {result[p], "redirect", "done"}
<1>1. CASE p \in Node
  BY <1>1, ReqAssumption DEF Return
<1>2. CASE p \in Req
  BY <1>2, ReqAssumption DEF Return, Finish, TypeOK, TaskTypeOK
<1> QED
  BY <1>1, <1>2 DEF Proc

\* An election leaves log and snapshot alone and takes up no other phase of a
\* call than those before it has an entry.
LEMMA ElectKeeps ==
  ASSUME TypeOK, AnswerInv, NEW p \in Proc, Elect(p)
  PROVE  /\ UNCHANGED <<log, snap, snapshots>>
         /\ \A r \in Req : Keeps(r) /\ (Told(r)' => Told(r))
<1>1. UNCHANGED <<log, snap, snapshots, idx, chunk>>
  BY DEF Elect, Register, ElectAtOnce, ReadNodes, ReadTerm, ReadLeaderStable, ReadLeaderNone,
         SetLeaderNX, RereadLeader, SetTerm, Trigger, redisVars, localVars, auxVars
<1>2. /\ \A q \in Proc \ {p} : pc'[q] = pc[q]
      /\ pc'[p] \in ElectPc \cup {"poll", "obsLen", "rGuard", "done"}
      /\ \A r \in Req \ {p} : result'[r] = result[r]
      /\ p \in Req => result'[p] \in {result[p], "redirect", "done"}
  <2>1. ASSUME NEW m \in Node, Return(p, m)
        PROVE  /\ \A q \in Proc \ {p} : pc'[q] = pc[q]
               /\ pc'[p] \in ElectPc \cup {"poll", "obsLen", "rGuard", "done"}
    BY <2>1, ReturnEffect DEF Proc, ElectPc
  <2>2. CASE ReadLeaderStable(p) \/ SetTerm(p) \/ ElectAtOnce(p)
    <3>1. pick[p] \in Node \/ ~SetTerm(p)
      BY DEF SetTerm, TypeOK, PhaseOK, LoopPhase, CallPhase, Electing, Proc
    <3>2. leaderKey \in Node \/ ~ReadLeaderStable(p)
      BY DEF ReadLeaderStable, TypeOK, LocalTypeOK
    <3>3. PICK m \in Node : Return(p, m)
      BY <2>2, <3>1, <3>2 DEF ReadLeaderStable, SetTerm, ElectAtOnce
    <3> QED
      BY <2>1, <3>3, ReturnEntry
  <2>3. CASE ~(ReadLeaderStable(p) \/ SetTerm(p) \/ ElectAtOnce(p))
    <3>1. result' = result
      BY <2>3 DEF Elect, Register, ReadNodes, ReadTerm, ReadLeaderNone, SetLeaderNX,
                  RereadLeader, Trigger, callVars
    <3>2. /\ \A q \in Proc \ {p} : pc'[q] = pc[q]
          /\ pc'[p] \in ElectPc
      BY <2>3 DEF Elect, Register, ReadNodes, ReadTerm, ReadLeaderNone, SetLeaderNX,
                  RereadLeader, Trigger, Goto, ElectPc, TypeOK, TaskTypeOK
    <3> QED
      BY <3>1, <3>2
  <2> QED
    BY <2>2, <2>3
<1>3. pc[p] \in ElectPc
  BY DEF Elect, Register, ElectAtOnce, ReadNodes, ReadTerm, ReadLeaderStable, ReadLeaderNone,
         SetLeaderNX, RereadLeader, SetTerm, Trigger, ElectPc
<1>4. ASSUME NEW r \in Req PROVE Keeps(r) /\ (Told(r)' => Told(r))
  <2>1. CASE r = p
    <3>1. Unpushed(r) /\ ~Answered(r)
      BY <1>3, <2>1 DEF Unpushed, Answered, ElectPc, CompactPc
    <3>2. ~Told(r) /\ ~Told(r)'
      BY <1>2, <2>1, <3>1 DEF AnswerInv, Told
    <3>3. pc'[r] \notin {"cRange", "cSnap", "cTrim", "rAck", "rCount", "rSleep", "rCommit"}
      BY <1>2, <2>1 DEF ElectPc
    <3> QED
      BY <3>1, <3>2, <3>3 DEF Keeps, Pushed
  <2>2. CASE r # p
    BY <1>1, <1>2, <2>2, SameKeeps DEF Proc
  <2> QED
    BY <2>1, <2>2
<1> QED
  BY <1>1, <1>4

\* The loop leaves log, snapshot and calls alone.
LEMMA LoopKeeps ==
  ASSUME TypeOK, AnswerInv, NEW n \in Node, Start(n) \/ Loop(n) \/ LoopFails(n)
  PROVE  /\ UNCHANGED <<log, snap, snapshots>>
         /\ \A r \in Req : Keeps(r) /\ (Told(r)' => Told(r))
<1>1. n \in Proc /\ n \notin Req
  BY ReqAssumption DEF Proc
<1>2. CASE Elect(n)
  BY <1>1, <1>2, ElectKeeps
<1>3. CASE ~Elect(n)
  <2>1. UNCHANGED <<log, snap, snapshots, result>>
    BY <1>3 DEF Start, Loop, LoopFails, Restore, Heartbeat, CheckHeartbeat, ObserveLength,
         ObserveCommit, ObserveAck, redisVars, callVars, auxVars
  <2>2. \A q \in Proc \ {n} : pc'[q] = pc[q] /\ idx'[q] = idx[q] /\ chunk'[q] = chunk[q]
    BY <1>1, <1>3 DEF Start, Loop, LoopFails, Restore, Heartbeat, CheckHeartbeat,
         ObserveLength, ObserveCommit, ObserveAck, EndPoll, ClearLocals, Goto, localVars,
         TypeOK, TaskTypeOK, LocalTypeOK
  <2> QED
    BY <1>1, <2>1, <2>2, SameKeeps DEF Proc
<1> QED
  BY <1>2, <1>3

\* A call that fails keeps what it was told; it never goes back.
LEMMA FailKeeps ==
  ASSUME TypeOK, AnswerInv, NEW r \in Req, CallFails(r)
  PROVE  /\ UNCHANGED <<log, snap, snapshots>>
         /\ \A q \in Req : Keeps(q) /\ (Told(q)' => Told(q))
<1>1. r \in Proc /\ UNCHANGED <<log, snap, snapshots>>
  BY DEF CallFails, redisVars, Proc
<1>2. \A q \in Req \ {r} : /\ pc'[q] = pc[q] /\ idx'[q] = idx[q] /\ chunk'[q] = chunk[q]
                           /\ result'[q] = result[q]
  BY <1>1 DEF CallFails, ClearLocals, Finish, Goto, TypeOK, TaskTypeOK, LocalTypeOK, Proc
<1>3. Keeps(r) /\ (Told(r)' => Told(r))
  <2>1. pc'[r] \in {"done", "sStop"}
    BY <1>1 DEF CallFails, Finish, Goto, AfterCompaction, TypeOK, TaskTypeOK
  <2>2. CASE pc[r] \in CompactPc
    <3>1. result' = result
      BY <2>2 DEF CallFails
    <3> QED
      BY <2>1, <3>1 DEF Keeps, Pushed, Unpushed, Told, Answered, ElectPc
  <2>3. CASE pc[r] \notin CompactPc
    <3>1. result'[r] = "error"
      BY <1>1, <2>3 DEF CallFails, Finish, TypeOK, TaskTypeOK
    <3>2. ~Told(r)
      BY <2>3 DEF CallFails, Running, AnswerInv, Answered
    <3> QED
      BY <2>1, <3>1, <3>2 DEF Keeps, Pushed, Unpushed, Told, Answered, ElectPc
  <2> QED
    BY <2>2, <2>3
<1> QED
  BY <1>1, <1>2, <1>3, SameKeeps

\* The loss of a process leaves Redis as it is and takes back no answer.
LEMMA DieKeeps ==
  ASSUME TypeOK, AnswerInv, NEW n \in Node, Die(n)
  PROVE  /\ UNCHANGED <<log, snap, snapshots>>
         /\ \A r \in Req : Keeps(r) /\ (Told(r)' => Told(r))
<1>1. UNCHANGED <<log, snap, snapshots>>
  BY DEF Die, redisVars
<1>2. ASSUME NEW r \in Req PROVE Keeps(r) /\ (Told(r)' => Told(r))
  <2>1. \/ /\ pc'[r] = "done"
           /\ \/ result'[r] = result[r]
              \/ result[r] = "none" /\ result'[r] = "lost"
        \/ /\ pc'[r] = pc[r] /\ idx'[r] = idx[r] /\ chunk'[r] = chunk[r]
           /\ result'[r] = result[r]
    BY ReqAssumption DEF Die, Proc
  <2>2. CASE pc'[r] = "done"
    BY <2>1, <2>2 DEF Keeps, Pushed, Unpushed, Told, Answered, ElectPc
  <2>3. CASE pc'[r] # "done"
    BY <2>1, <2>3, SameKeeps
  <2> QED
    BY <2>2, <2>3
<1> QED
  BY <1>1, <1>2

\* A new call has no entry and no answer.
LEMMA InvokeKeeps ==
  ASSUME TypeOK, AnswerInv, NEW r \in Req, NEW n \in Node, NEW k \in Kinds, Invoke(r, n, k)
  PROVE  /\ UNCHANGED <<log, snap, snapshots>>
         /\ \A q \in Req : Keeps(q) /\ (Told(q)' => Told(q))
<1>1. r \in Proc /\ UNCHANGED <<log, snap, snapshots, idx, chunk, result>> /\ pc[r] = "idle"
  BY DEF Invoke, redisVars, auxVars, localVars, Proc
<1>2. /\ pc'[r] \in {"trig", "sLen", "eReg"}
      /\ \A q \in Proc \ {r} : pc'[q] = pc[q]
  BY <1>1 DEF Invoke, Goto, EntryPc, TypeOK, TaskTypeOK
<1>3. ~Told(r)
  BY <1>1 DEF AnswerInv, Answered, CompactPc
<1>4. Keeps(r) /\ (Told(r)' => Told(r))
  BY <1>1, <1>2, <1>3 DEF Keeps, Pushed, Unpushed, Told, Answered, ElectPc
<1> QED
  BY <1>1, <1>2, <1>4, SameKeeps DEF Proc

\* The passage of time touches no call.
LEMMA TimeKeeps ==
  ASSUME AnswerInv,
         \/ LeaderKeyExpires \/ HeartbeatAges \/ UNCHANGED vars
         \/ \E n \in Node : NodeAges(n)
         \/ \E i \in ackTTL : AckSetExpires(i)
  PROVE  /\ UNCHANGED <<log, snap, snapshots>>
         /\ \A r \in Req : Keeps(r) /\ (Told(r)' => Told(r))
<1>1. UNCHANGED <<log, snap, snapshots, pc, idx, chunk, result>>
  BY DEF LeaderKeyExpires, HeartbeatAges, NodeAges, AckSetExpires, vars, redisVars, auxVars,
         localVars, callVars
<1> QED
  BY <1>1, SameKeeps

\* replicate_log, the push apart: only r can be answered, and only with an entry.
LEMMA ReplicateKeeps ==
  ASSUME TypeOK, AnswerInv, NEW r \in Req, Replicate(r), ~Push(r)
  PROVE  /\ UNCHANGED <<log, snap, snapshots>>
         /\ \A q \in Req : Keeps(q)
         /\ \A q \in Req \ {r} : Told(q)' => Told(q)
<1>1. r \in Proc /\ UNCHANGED <<log, snap, snapshots>>
  BY DEF Replicate, GuardLeader, ReadQuorum, ReadLength, SelfAck, CountAcks, Retry, TimeOut,
         WriteCommit, redisVars, auxVars, Proc
<1>2. \A q \in Req \ {r} : /\ pc'[q] = pc[q] /\ idx'[q] = idx[q] /\ chunk'[q] = chunk[q]
                           /\ result'[q] = result[q]
  BY <1>1 DEF Replicate, GuardLeader, ReadQuorum, ReadLength, SelfAck, CountAcks, Retry,
       TimeOut, WriteCommit, Answer, Finish, Goto, callVars, localVars, TypeOK, TaskTypeOK,
       LocalTypeOK, Proc
<1>3. ~Told(r)
  BY DEF Replicate, GuardLeader, ReadQuorum, ReadLength, SelfAck, CountAcks, Retry, TimeOut,
         WriteCommit, AnswerInv, Answered, CompactPc
<1>4. Keeps(r)
  <2>1. CASE GuardLeader(r) \/ ReadQuorum(r) \/ ReadLength(r)
    <3>1. /\ pc[r] \in {"rGuard", "rNodes", "rLen"}
          /\ pc'[r] \in {"rNodes", "rLen", "rPush", "done"}
          /\ result'[r] \in {result[r], "redirect"}
      BY <1>1, <2>1 DEF GuardLeader, ReadQuorum, ReadLength, Finish, Goto, callVars, TypeOK,
           TaskTypeOK
    <3> QED
      BY <1>3, <3>1 DEF Keeps, Pushed, Unpushed, Told
  <2>2. CASE SelfAck(r) \/ CountAcks(r) \/ Retry(r)
    <3>1. /\ pc[r] \in {"rAck", "rCount", "rSleep"}
          /\ pc'[r] \in {"rAck", "rCount", "rSleep", "rCommit"}
          /\ result'[r] = result[r]
      BY <1>1, <2>2 DEF SelfAck, CountAcks, Retry, Goto, callVars, TypeOK, TaskTypeOK
    <3> QED
      BY <1>3, <3>1 DEF Keeps, Pushed, Unpushed, Told, ElectPc
  <2>3. CASE TimeOut(r) \/ WriteCommit(r)
    <3>1. /\ pc[r] \in {"rSleep", "rCommit"}
          /\ pc'[r] \in {"cCommit", "done"}
      BY <1>1, <2>3 DEF TimeOut, WriteCommit, Answer, Goto, TypeOK, TaskTypeOK
    <3> QED
      BY <1>3, <3>1 DEF Keeps, Pushed, Unpushed, Answered, CompactPc, ElectPc
  <2> QED
    BY <2>1, <2>2, <2>3 DEF Replicate
<1> QED
  BY <1>1, <1>2, <1>4, SameKeeps

-----------------------------------------------------------------------------
(* The history                                                             *)

Calls(t) == [i \in 1 .. Len(t) |-> t[i].req]

LEMMA CallsAre ==
  ASSUME NEW t \in Seq(Entry)
  PROVE  /\ Calls(t) \in Seq(Req)
         /\ Len(Calls(t)) = Len(t)
         /\ \A i \in 1 .. Len(t) : Calls(t)[i] = t[i].req
<1>1. Len(t) \in Nat /\ \A i \in 1 .. Len(t) : t[i] \in Entry
  BY LenProperties, ElementOfSeq
<1>2. \A i \in 1 .. Len(t) : t[i].req \in Req
  BY <1>1 DEF Entry
<1> QED
  BY <1>1, <1>2 DEF Calls

\* An entry appended to the log is appended to the calls.
LEMMA CallsAppend ==
  ASSUME NEW t \in Seq(Entry), NEW e \in Entry
  PROVE  Calls(Append(t, e)) = Append(Calls(t), e.req)
<1> DEFINE u == Append(t, e)
           g == Calls(u)
           k == Append(Calls(t), e.req)
<1>1. /\ u \in Seq(Entry) /\ Len(u) = Len(t) + 1 /\ Len(t) \in Nat
      /\ \A i \in 1 .. Len(t) : u[i] = t[i]
      /\ u[Len(t) + 1] = e
  BY AppendProperties, LenProperties
<1>2. /\ Calls(t) \in Seq(Req) /\ Len(Calls(t)) = Len(t) /\ e.req \in Req
      /\ \A i \in 1 .. Len(t) : Calls(t)[i] = t[i].req
  BY CallsAre DEF Entry
<1>3. /\ g \in Seq(Req) /\ Len(g) = Len(u)
      /\ \A i \in 1 .. Len(u) : g[i] = u[i].req
  BY <1>1, CallsAre
<1>4. /\ k \in Seq(Req) /\ Len(k) = Len(t) + 1
      /\ \A i \in 1 .. Len(t) : k[i] = t[i].req
      /\ k[Len(t) + 1] = e.req
  BY <1>2, AppendProperties
<1> HIDE DEF u, g, k
<1>5. ASSUME NEW i \in 1 .. Len(g) PROVE g[i] = k[i]
  <2>1. CASE i = Len(t) + 1
    BY <1>1, <1>3, <1>4, <2>1
  <2>2. CASE i # Len(t) + 1
    <3>1. i \in 1 .. Len(t) /\ i \in 1 .. Len(u)
      BY <1>1, <1>3, <2>2
    <3> QED
      BY <1>1, <1>3, <1>4, <3>1
  <2> QED
    BY <2>1, <2>2
<1>6. g = k
  BY <1>1, <1>3, <1>4, <1>5, SeqEqual
<1> QED
  BY <1>6 DEF g, k, u

\* Appending behind what was trimmed.
LEMMA ConcatAppend ==
  ASSUME NEW s \in Seq(Entry), NEW t \in Seq(Entry), NEW e \in Entry
  PROVE  s \o Append(t, e) = Append(s \o t, e)
<1>1. /\ Append(t, e) = t \o <<e>> /\ <<e>> \in Seq(Entry)
      /\ s \o t \in Seq(Entry)
  BY AppendIsConcat, ConcatProperties
<1>2. Append(s \o t, e) = (s \o t) \o <<e>>
  BY <1>1, AppendIsConcat
<1> QED
  BY <1>1, <1>2, ConcatAssociative

\* Moving the first entries of the log to the snapshot changes nothing.
LEMMA ConcatRest ==
  ASSUME NEW s \in Seq(Entry), NEW t \in Seq(Entry), Prefix(s, t)
  PROVE  /\ SubSeq(t, Len(s) + 1, Len(t)) \in Seq(Entry)
         /\ s \o SubSeq(t, Len(s) + 1, Len(t)) = t
<1> DEFINE u == SubSeq(t, Len(s) + 1, Len(t))
           w == s \o u
<1>1. /\ Len(s) \in Nat /\ Len(t) \in Nat /\ Len(s) <= Len(t)
      /\ \A i \in 1 .. Len(s) : s[i] = t[i]
      /\ \A i \in 1 .. Len(t) : t[i] \in Entry
  BY LenProperties, ElementOfSeq DEF Prefix
<1>2. /\ u \in Seq(Entry) /\ Len(u) = Len(t) - Len(s)
      /\ \A i \in 1 .. Len(t) - Len(s) : u[i] = t[Len(s) + i]
  <2>1. \A i \in Len(s) + 1 .. Len(t) : t[i] \in Entry
    BY <1>1
  <2>2. /\ u \in Seq(Entry)
        /\ Len(u) = IF Len(s) + 1 <= Len(t) THEN Len(t) - (Len(s) + 1) + 1 ELSE 0
        /\ \A i \in 1 .. Len(t) - (Len(s) + 1) + 1 : u[i] = t[Len(s) + 1 + i - 1]
    BY <1>1, <2>1, SubSeqProperties
  <2> HIDE DEF u
  <2>3. \A i \in 1 .. Len(t) - Len(s) : u[i] = t[Len(s) + i]
    <3>1. Len(t) - (Len(s) + 1) + 1 = Len(t) - Len(s)
      BY <1>1
    <3>2. ASSUME NEW i \in 1 .. Len(t) - Len(s) PROVE u[i] = t[Len(s) + i]
      <4>1. i \in 1 .. Len(t) - (Len(s) + 1) + 1
        BY <3>1
      <4>2. Len(s) + 1 + i - 1 = Len(s) + i
        BY <1>1
      <4>3. u[i] = t[Len(s) + 1 + i - 1]
        BY <2>2, <4>1
      <4> QED
        BY <4>2, <4>3
    <3> QED
      BY <3>2
  <2> QED
    BY <1>1, <2>2, <2>3
<1>3. /\ w \in Seq(Entry) /\ Len(w) = Len(t)
      /\ \A i \in 1 .. Len(t) : w[i] = IF i <= Len(s) THEN s[i] ELSE u[i - Len(s)]
  <2>1. /\ w \in Seq(Entry) /\ Len(w) = Len(s) + Len(u)
        /\ \A i \in 1 .. Len(s) + Len(u) : w[i] = IF i <= Len(s) THEN s[i] ELSE u[i - Len(s)]
    BY <1>2, ConcatProperties
  <2>2. Len(s) + Len(u) = Len(t)
    BY <1>1, <1>2
  <2> QED
    BY <2>1, <2>2
<1> HIDE DEF u, w
<1>4. ASSUME NEW i \in 1 .. Len(t) PROVE w[i] = t[i]
  <2>1. CASE i <= Len(s)
    <3>1. i \in 1 .. Len(s)
      BY <1>1, <2>1
    <3> QED
      BY <1>1, <1>3, <2>1, <3>1
  <2>2. CASE ~(i <= Len(s))
    <3>1. i - Len(s) \in 1 .. Len(t) - Len(s) /\ Len(s) + (i - Len(s)) = i
      BY <1>1, <2>2
    <3> QED
      BY <1>2, <1>3, <2>2, <3>1
  <2> QED
    BY <2>1, <2>2
<1>5. w = t
  BY <1>3, <1>4, SeqEqual
<1> QED
  BY <1>2, <1>5 DEF w, u

LEMMA HistoryType ==
  ASSUME TypeOK
  PROVE  /\ log \in Seq(Entry) /\ snap.entries \in Seq(Entry)
         /\ Entries \in Seq(Entry)
         /\ History = Calls(Entries)
<1>1. log \in Seq(Entry) /\ snap.entries \in Seq(Entry)
  BY DEF TypeOK, RedisTypeOK
<1>2. Entries \in Seq(Entry)
  BY <1>1, ConcatProperties DEF Entries
<1> QED
  BY <1>1, <1>2 DEF History, Calls

\* Steps that touch neither log nor snapshot change nothing a reader finds.
LEMMA HistoryFrame ==
  ASSUME UNCHANGED <<log, snap, snapshots>>
  PROVE  History' = History /\ Trimmed' = Trimmed
BY DEF History, Entries, Trimmed

\* A step that touches neither log nor snapshot and keeps every call keeps the
\* invariant.
LEMMA EntryFrame ==
  ASSUME EntryInv, UNCHANGED <<log, snap, snapshots>>, \A r \in Req : Keeps(r)
  PROVE  EntryInv'
<1> SUFFICES ASSUME snapshots <= 1 PROVE EntryInv'
  BY DEF EntryInv
<1>1. History' = History /\ Trimmed' = Trimmed
  BY HistoryFrame
<1>2. ASSUME NEW r \in Req PROVE CompactTask(r)'
  <2>1. CompactTask(r) /\ Keeps(r)
    BY DEF EntryInv
  <2> QED
    BY <2>1 DEF CompactTask, Prefix, Keeps
<1>3. \A r, s \in Req : pc'[r] = "cTrim" /\ pc'[s] = "cTrim" => r = s
  BY DEF EntryInv, Keeps
<1>4. ASSUME NEW r \in Req
      PROVE  (Pushed(r)' => Has(r)') /\ (Unpushed(r)' => ~Has(r)')
  <2>1. Has(r)' <=> Has(r)
    BY <1>1 DEF Has
  <2> QED
    BY <2>1 DEF EntryInv, Keeps
<1>5. StoreInv'
  BY <1>1 DEF EntryInv, StoreInv, Prefix
<1> QED
  BY <1>2, <1>3, <1>4, <1>5 DEF EntryInv

\* What it is for a call to have an entry.
LEMMA HasEntry ==
  ASSUME TypeOK, NEW r \in Req
  PROVE  Has(r) <=> \E i \in 1 .. Len(Entries) : Entries[i].req = r
<1>1. /\ History \in Seq(Req) /\ Len(History) = Len(Entries)
      /\ \A i \in 1 .. Len(Entries) : History[i] = Entries[i].req
  BY HistoryType, CallsAre
<1>2. DOMAIN History = 1 .. Len(Entries)
  BY <1>1, LenProperties
<1> QED
  BY <1>1, <1>2 DEF Has

\* The first entry is the first of the snapshot, if that is where the log starts.
LEMMA FirstEntry ==
  ASSUME TypeOK, Trimmed, snap.entries # <<>>
  PROVE  1 \in 1 .. Len(Entries) /\ Entries[1] = snap.entries[1]
<1>1. log \in Seq(Entry) /\ snap.entries \in Seq(Entry) /\ Entries = snap.entries \o log
  BY HistoryType DEF Entries
<1>2. Len(snap.entries) \in Nat \ {0} /\ Len(log) \in Nat
  BY <1>1, EmptySeq, LenProperties
<1>3. /\ Len(Entries) = Len(snap.entries) + Len(log)
      /\ \A i \in 1 .. Len(snap.entries) + Len(log) :
           Entries[i] = IF i <= Len(snap.entries) THEN snap.entries[i]
                        ELSE log[i - Len(snap.entries)]
  BY <1>1, ConcatProperties
<1> QED
  BY <1>2, <1>3

\* A push puts its call behind the history, whatever has been trimmed.
LEMMA PushHistory ==
  ASSUME TypeOK, EntryInv, snapshots <= 1, NEW r \in Req, Push(r)
  PROVE  /\ History' = Append(History, r)
         /\ ~Has(r)
         /\ Trimmed' = Trimmed
<1> DEFINE e == [req |-> r, idx |-> idx[r], term |-> curTerm[host[r]]]
           s == snap.entries
<1>1. /\ r \in Proc /\ host[r] \in Node /\ snap' = snap /\ snapshots' = snapshots
      /\ pc[r] = "rPush"
  BY DEF Push, Proc, TypeOK, PhaseOK, CallPhase, Running, auxVars
<1>2. e \in Entry /\ log \in Seq(Entry) /\ log' = Append(log, e) /\ s \in Seq(Entry)
  BY <1>1 DEF Push, Entry, TypeOK, RedisTypeOK, NodeTypeOK, LocalTypeOK
<1>3. ~Has(r)
  BY <1>1 DEF EntryInv, Unpushed
<1>4. Trimmed' = Trimmed
  <2>1. CASE log = <<>> /\ snapshots = 1
    <3>1. s # <<>> /\ Trimmed
      BY <2>1 DEF EntryInv, StoreInv, Trimmed
    <3>2. s[1] # e
      BY <1>3, <3>1, FirstEntry, HasEntry
    <3>3. log'[1] = e /\ log' # <<>>
      BY <1>2, <2>1
    <3> QED
      BY <1>1, <2>1, <3>1, <3>2, <3>3 DEF Trimmed
  <2>2. CASE log # <<>>
    <3>1. log'[1] = log[1] /\ log' # <<>>
      BY <1>2, <2>2
    <3> QED
      BY <1>1, <2>2, <3>1 DEF Trimmed
  <2>3. CASE snapshots # 1
    BY <1>1, <2>3 DEF Trimmed
  <2> QED
    BY <2>1, <2>2, <2>3
<1>5. Entries' = Append(Entries, e)
  BY <1>1, <1>2, <1>4, ConcatAppend DEF Entries
<1>6. History' = Calls(Entries')
  BY DEF History, Calls
<1>7. History' = Append(History, e.req)
  BY <1>2, <1>5, <1>6, HistoryType, CallsAppend
<1> QED
  BY <1>3, <1>4, <1>7

\* A push keeps the invariant.
LEMMA PushEntry ==
  ASSUME TypeOK, AnswerInv, EntryInv, NEW r \in Req, Push(r)
  PROVE  AnswerInv' /\ EntryInv' /\ UNCHANGED <<result, snapshots>>
<1>1. /\ r \in Proc /\ UNCHANGED <<snap, snapshots, result, idx, chunk>>
      /\ pc[r] = "rPush" /\ pc'[r] = "rAck"
      /\ \A q \in Req \ {r} : pc'[q] = pc[q]
  BY DEF Push, Goto, Proc, callVars, localVars, auxVars, TypeOK, TaskTypeOK
<1>2. ~Told(r)
  BY <1>1 DEF AnswerInv, Answered, CompactPc
<1>3. AnswerInv'
  BY <1>1, <1>2 DEF AnswerInv, Told, Answered
<1>4. ASSUME snapshots <= 1 PROVE EntryInv'
  <2>1. History' = Append(History, r) /\ ~Has(r) /\ Trimmed' = Trimmed
    BY <1>4, PushHistory
  <2>2. /\ History \in Seq(Req) /\ Len(History) \in Nat
        /\ DOMAIN History = 1 .. Len(History)
        /\ DOMAIN History' = 1 .. Len(History) + 1
        /\ \A i \in 1 .. Len(History) : History'[i] = History[i]
        /\ History'[Len(History) + 1] = r
    BY <2>1, HistoryType, CallsAre, AppendProperties, LenProperties
  <2>3. ASSUME NEW q \in Req PROVE Has(q)' <=> Has(q) \/ q = r
    <3>1. ASSUME NEW i \in 1 .. Len(History) + 1
          PROVE  i \in 1 .. Len(History) \/ i = Len(History) + 1
      BY <2>2
    <3>2. Len(History) + 1 \in 1 .. Len(History) + 1
          /\ \A i \in 1 .. Len(History) : i \in 1 .. Len(History) + 1
      BY <2>2
    <3> QED
      BY <2>2, <3>1, <3>2 DEF Has
  <2>4. \A i, j \in DOMAIN History' : History'[i] = History'[j] => i = j
    <3> SUFFICES ASSUME NEW i \in DOMAIN History', NEW j \in DOMAIN History',
                        History'[i] = History'[j]
                 PROVE  i = j
      OBVIOUS
    <3>1. /\ i \in 1 .. Len(History) \/ i = Len(History) + 1
          /\ j \in 1 .. Len(History) \/ j = Len(History) + 1
      BY <2>2
    <3>2. \A k \in 1 .. Len(History) : History[k] # r
      BY <2>1, <2>2 DEF Has
    <3>3. CASE i \in 1 .. Len(History) /\ j \in 1 .. Len(History)
      BY <1>4, <2>2, <3>3 DEF EntryInv, StoreInv
    <3> QED
      BY <2>2, <3>1, <3>2, <3>3
  <2>5. /\ log \in Seq(Entry) /\ Len(log) \in Nat /\ Len(log') = Len(log) + 1
        /\ \A i \in 1 .. Len(log) : log'[i] = log[i]
    <3>1. [req |-> r, idx |-> idx[r], term |-> curTerm[host[r]]] \in Entry
      BY <1>1 DEF Entry, TypeOK, NodeTypeOK, LocalTypeOK, PhaseOK, CallPhase, Running
    <3> QED
      BY <3>1, HistoryType, AppendProperties, LenProperties DEF Push
  <2>6. ASSUME NEW t \in Seq(Entry), Prefix(t, log) PROVE Prefix(t, log')
    <3>1. Len(t) \in Nat /\ Len(t) <= Len(log)
      BY <2>6, LenProperties DEF Prefix
    <3>2. \A k \in 1 .. Len(t) : k \in 1 .. Len(log)
      BY <2>5, <3>1
    <3> QED
      BY <2>5, <2>6, <3>1, <3>2 DEF Prefix
  <2>7. ASSUME NEW q \in Req PROVE CompactTask(q)'
    <3>1. /\ CompactTask(q)
          /\ pc'[q] \in {"cRange", "cSnap", "cTrim"} => pc'[q] = pc[q]
          /\ idx'[q] = idx[q] /\ chunk'[q] = chunk[q]
          /\ chunk[q] \in Seq(Entry) /\ snap.entries \in Seq(Entry)
      BY <1>1, <1>4 DEF EntryInv, TypeOK, LocalTypeOK, RedisTypeOK, Proc
    <3>2. idx[q] \in 1 .. Len(log) => idx[q] \in 1 .. Len(log')
      BY <2>5
    <3> QED
      BY <1>1, <2>6, <3>1, <3>2 DEF CompactTask
  <2>8. \A q, t \in Req : pc'[q] = "cTrim" /\ pc'[t] = "cTrim" => q = t
    BY <1>1, <1>4 DEF EntryInv
  <2>9. \A q \in Req : (Pushed(q)' => Has(q)') /\ (Unpushed(q)' => ~Has(q)')
    <3> SUFFICES ASSUME NEW q \in Req
                 PROVE  (Pushed(q)' => Has(q)') /\ (Unpushed(q)' => ~Has(q)')
      OBVIOUS
    <3>1. CASE q = r
      BY <1>1, <2>3, <3>1 DEF Unpushed, ElectPc
    <3>2. CASE q # r
      <4>1. (Pushed(q)' => Pushed(q)) /\ (Unpushed(q)' => Unpushed(q))
        BY <1>1, <3>2 DEF Pushed, Unpushed, Told
      <4> QED
        BY <1>4, <2>3, <3>2, <4>1 DEF EntryInv
    <3> QED
      BY <3>1, <3>2
  <2>10. StoreInv'
    <3>1. snapshots' = 1 => snap'.entries # <<>> /\ (Trimmed' \/ Prefix(snap'.entries, log'))
      BY <1>1, <1>4, <2>1, <2>6, HistoryType DEF EntryInv, StoreInv
    <3> QED
      BY <2>4, <3>1 DEF StoreInv
  <2> QED
    BY <2>7, <2>8, <2>9, <2>10 DEF EntryInv
<1>5. ~(snapshots <= 1) => EntryInv'
  BY <1>1 DEF EntryInv
<1> QED
  BY <1>1, <1>3, <1>4, <1>5

-----------------------------------------------------------------------------
(* Compaction                                                              *)

\* A compaction answers nobody and stays one until it ends.
LEMMA CompactFrame ==
  ASSUME TypeOK, AnswerInv, NEW r \in Req, Compact(r)
  PROVE  /\ UNCHANGED result /\ AnswerInv'
         /\ \A q \in Req \ {r} : pc'[q] = pc[q] /\ idx'[q] = idx[q] /\ chunk'[q] = chunk[q]
         /\ \A q \in Req : (Pushed(q)' => Pushed(q)) /\ (Unpushed(q)' => Unpushed(q))
<1>1. r \in Proc /\ result' = result
  BY DEF Proc, Compact, SnapshotLength, ReadCommit, ReadRange, WriteSnapshot, TrimLog, callVars
<1>2. \A q \in Req \ {r} : pc'[q] = pc[q] /\ idx'[q] = idx[q] /\ chunk'[q] = chunk[q]
  BY <1>1 DEF Proc, Compact, SnapshotLength, ReadCommit, ReadRange, WriteSnapshot, TrimLog,
       Goto, TypeOK, TaskTypeOK, LocalTypeOK
<1>3. /\ pc[r] \in CompactPc
      /\ pc'[r] \in CompactPc \cup {"sStop", "done"}
  BY <1>1 DEF Compact, SnapshotLength, ReadCommit, ReadRange, WriteSnapshot, TrimLog,
       AfterCompaction, CompactPc, Goto, TypeOK, TaskTypeOK
<1>4. AnswerInv'
  BY <1>1, <1>2, <1>3 DEF AnswerInv, Answered, Told
<1>5. \A q \in Req : (Pushed(q)' => Pushed(q)) /\ (Unpushed(q)' => Unpushed(q))
  BY <1>1, <1>2, <1>3 DEF Pushed, Unpushed, Told, CompactPc, ElectPc
<1> QED
  BY <1>1, <1>2, <1>4, <1>5

\* A step of a compaction that leaves the history alone keeps who has an entry.
LEMMA CompactHas ==
  ASSUME TypeOK, AnswerInv, EntryInv, snapshots <= 1, NEW r \in Req, Compact(r),
         History' = History
  PROVE  /\ \A q \in Req : (Pushed(q)' => Has(q)') /\ (Unpushed(q)' => ~Has(q)')
         /\ \A i, j \in DOMAIN History' : History'[i] = History'[j] => i = j
<1>1. \A q \in Req : Has(q)' <=> Has(q)
  BY DEF Has
<1>2. \A i, j \in DOMAIN History' : History'[i] = History'[j] => i = j
  BY DEF EntryInv, StoreInv
<1> QED
  BY <1>1, <1>2, CompactFrame DEF EntryInv

\* The reads: what is going to be stored is the beginning of the log.
LEMMA ReadEntry ==
  ASSUME TypeOK, LogInv, AnswerInv, EntryInv, NEW r \in Req,
         SnapshotLength(r) \/ ReadCommit(r) \/ ReadRange(r)
  PROVE  EntryInv' /\ UNCHANGED <<log, snap, snapshots>>
<1>1. /\ r \in Proc /\ idx[r] \in Nat /\ Len(log) \in Nat /\ commit \in Nat \cup {-1}
      /\ log \in Seq(Entry) /\ snapshots \in Nat
  BY HistoryType, LenProperties DEF Proc, TypeOK, LocalTypeOK, RedisTypeOK, AuxTypeOK
<1>2. UNCHANGED <<log, snap, snapshots>> /\ Compact(r)
  BY DEF SnapshotLength, ReadCommit, ReadRange, redisVars, auxVars, Compact
<1>3. pc'[r] # "cTrim"
  BY <1>1 DEF SnapshotLength, ReadCommit, ReadRange, AfterCompaction, Goto, TypeOK, TaskTypeOK
<1>4. ASSUME snapshots <= 1 PROVE EntryInv'
  <2>1. History' = History /\ Trimmed' = Trimmed
    BY <1>2, HistoryFrame
  <2>2. CompactTask(r)'
    <3> SUFFICES ASSUME snapshots = 0
                 PROVE  /\ pc'[r] = "cRange" => idx'[r] \in 1 .. Len(log)
                        /\ pc'[r] = "cSnap" => /\ idx'[r] > 0
                                               /\ Len(chunk'[r]) = idx'[r]
                                               /\ Prefix(chunk'[r], log)
      BY <1>2, <1>3 DEF CompactTask, Prefix
    <3>1. CASE SnapshotLength(r)
      BY <1>1, <3>1 DEF SnapshotLength, Goto, TypeOK, TaskTypeOK
    <3>2. CASE ReadCommit(r)
      <4>1. commit < Len(log)
        BY DEF LogInv
      <4>2. SafeIndex(idx[r]) # 0 => SafeIndex(idx[r]) \in 1 .. Len(log)
        BY <1>1, <4>1 DEF SafeIndex, Smaller
      <4>3. /\ idx'[r] = SafeIndex(idx[r])
            /\ pc'[r] = "cRange" => SafeIndex(idx[r]) # 0
            /\ pc'[r] # "cSnap"
        BY <1>1, <3>2 DEF ReadCommit, Goto, AfterCompaction, TypeOK, TaskTypeOK, LocalTypeOK
      <4> QED
        BY <4>2, <4>3
    <3>3. CASE ReadRange(r)
      <4>1. idx[r] \in 1 .. Len(log)
        BY <1>4, <3>3 DEF ReadRange, EntryInv, CompactTask
      <4>2. idx'[r] = idx[r] /\ pc'[r] = "cSnap" /\ chunk'[r] = SubSeq(log, 1, idx[r])
        BY <1>1, <3>3, <4>1 DEF ReadRange, Smaller, Goto, TypeOK, TaskTypeOK, LocalTypeOK
      <4>3. /\ Len(chunk'[r]) = idx[r]
            /\ \A k \in 1 .. idx[r] : chunk'[r][k] = log[k]
        BY <1>1, <4>1, <4>2
      <4> QED
        BY <1>1, <4>1, <4>2, <4>3 DEF Prefix
    <3> QED
      BY <3>1, <3>2, <3>3
  <2>3. ASSUME NEW q \in Req PROVE CompactTask(q)'
    <3>1. CASE q # r
      <4>1. CompactTask(q) /\ pc'[q] = pc[q] /\ idx'[q] = idx[q] /\ chunk'[q] = chunk[q]
        BY <1>2, <1>4, <3>1, CompactFrame DEF EntryInv
      <4> QED
        BY <1>2, <4>1 DEF CompactTask, Prefix
    <3> QED
      BY <2>2, <3>1
  <2>4. \A q, t \in Req : pc'[q] = "cTrim" /\ pc'[t] = "cTrim" => q = t
    BY <1>2, <1>3, <1>4, CompactFrame DEF EntryInv
  <2>5. StoreInv'
    BY <1>2, <1>4, <2>1 DEF EntryInv, StoreInv, Prefix
  <2> QED
    BY <1>2, <1>4, <2>1, <2>3, <2>4, <2>5, CompactHas DEF EntryInv
<1>5. ~(snapshots <= 1) => EntryInv'
  BY <1>2 DEF EntryInv
<1> QED
  BY <1>2, <1>4, <1>5

\* The first snapshot repeats the beginning of the log, which no task has begun
\* to trim.
LEMMA SnapshotEntry ==
  ASSUME TypeOK, AnswerInv, EntryInv, NEW r \in Req, WriteSnapshot(r)
  PROVE  EntryInv' /\ (snapshots' <= 1 => History' = History)
<1> SUFFICES ASSUME snapshots' <= 1 PROVE EntryInv' /\ History' = History
  BY DEF EntryInv
<1>1. r \in Proc /\ snapshots = 0 /\ snapshots' = 1 /\ Compact(r)
  BY DEF Proc, TypeOK, AuxTypeOK, WriteSnapshot, Compact
<1>2. /\ UNCHANGED <<log, idx>>
      /\ snap'.entries = chunk[r]
      /\ pc'[r] = "cTrim"
      /\ pc[r] = "cSnap"
  BY <1>1 DEF WriteSnapshot, Goto, TypeOK, TaskTypeOK
<1>3. idx[r] > 0 /\ Len(chunk[r]) = idx[r] /\ Prefix(chunk[r], log)
  BY <1>1, <1>2 DEF EntryInv, CompactTask
<1>4. /\ chunk[r] \in Seq(Entry) /\ log \in Seq(Entry) /\ idx[r] \in Nat
  BY <1>1, HistoryType DEF TypeOK, LocalTypeOK
<1>5. chunk[r] # <<>> /\ log # <<>> /\ log[1] = chunk[r][1]
  <2>1. 1 \in 1 .. Len(chunk[r]) /\ Len(log) > 0
    BY <1>3, <1>4, LenProperties DEF Prefix
  <2> QED
    BY <1>3, <2>1, EmptySeq DEF Prefix
<1>6. History' = History
  <2>1. ~Trimmed /\ ~Trimmed'
    BY <1>1, <1>2, <1>5 DEF Trimmed
  <2> QED
    BY <1>2, <2>1 DEF History, Entries
<1>7. \A q \in Req \ {r} : pc'[q] = pc[q] /\ pc'[q] # "cTrim"
  BY <1>1, CompactFrame DEF EntryInv, CompactTask
<1>8. ASSUME NEW q \in Req PROVE CompactTask(q)'
  <2>1. CASE q = r
    BY <1>1, <1>2, <1>3, <2>1 DEF CompactTask, Prefix
  <2>2. CASE q # r
    BY <1>1, <1>7, <2>2 DEF CompactTask
  <2> QED
    BY <2>1, <2>2
<1>9. StoreInv'
  <2>1. snap'.entries # <<>> /\ Prefix(snap'.entries, log')
    BY <1>2, <1>3, <1>5 DEF Prefix
  <2> QED
    BY <1>1, <1>6, <2>1, CompactHas DEF StoreInv
<1>10. \A q, t \in Req : pc'[q] = "cTrim" /\ pc'[t] = "cTrim" => q = t
  BY <1>7
<1> QED
  BY <1>1, <1>6, <1>8, <1>9, <1>10, CompactHas DEF EntryInv

\* The trim removes what the snapshot holds, and no other task is about to trim.
LEMMA TrimEntry ==
  ASSUME TypeOK, AnswerInv, EntryInv, NEW r \in Req, TrimLog(r)
  PROVE  EntryInv' /\ (snapshots <= 1 => History' = History) /\ UNCHANGED snapshots
<1>1. /\ r \in Proc /\ pc[r] = "cTrim" /\ Compact(r) /\ UNCHANGED <<snap, snapshots>>
      /\ log \in Seq(Entry) /\ snap.entries \in Seq(Entry) /\ snapshots \in Nat
      /\ log' = SubSeq(log, idx[r] + 1, Len(log))
  BY HistoryType DEF TrimLog, Proc, TypeOK, AuxTypeOK, Compact, auxVars
<1>2. ASSUME snapshots <= 1 PROVE EntryInv' /\ History' = History
  <2> DEFINE s == snap.entries
  <2>1. snapshots = 1
    BY <1>1, <1>2 DEF EntryInv, CompactTask
  <2>2. idx[r] = Len(s) /\ Prefix(s, log) /\ s # <<>>
    BY <1>1, <1>2, <2>1 DEF EntryInv, CompactTask, StoreInv
  <2>3. log' \in Seq(Entry) /\ s \o log' = log
    BY <1>1, <2>2, ConcatRest
  <2>4. /\ Len(s) \in Nat \ {0} /\ Len(log) \in Nat /\ Len(log') \in Nat
        /\ Len(log) = Len(s) + Len(log')
    <3>1. Len(s) \in Nat \ {0}
      BY <1>1, <2>2, EmptySeq
    <3>2. Len(s \o log') = Len(s) + Len(log')
      BY <1>1, <2>3, ConcatProperties
    <3> QED
      BY <1>1, <2>3, <3>1, <3>2, LenProperties
  <2>5. 1 \in 1 .. Len(s) /\ 1 \in 1 .. Len(log) /\ log[1] = s[1] /\ log # <<>>
    <3>1. 1 \in 1 .. Len(s) /\ 1 \in 1 .. Len(log)
      BY <2>4
    <3>2. Len(log) # 0
      BY <2>4
    <3>3. log # <<>>
      BY <3>2
    <3> QED
      BY <2>2, <3>1, <3>3 DEF Prefix
  <2>6. ~Trimmed
    BY <2>5 DEF Trimmed
  <2>7. Trimmed'
    <3>1. CASE log' = <<>>
      BY <1>1, <2>1, <3>1 DEF Trimmed
    <3>2. CASE log' # <<>>
      <4>1. Len(log') > 0
        BY <2>3, <3>2, EmptySeq
      <4>2. Len(s) + 1 \in 1 .. Len(log) /\ log'[1] = log[Len(s) + 1]
        <5>1. Len(s) + 1 \in 1 .. Len(s) + Len(log') /\ Len(s) + 1 \in 1 .. Len(log)
          BY <2>4, <4>1
        <5>2. log[Len(s) + 1] =
                IF Len(s) + 1 <= Len(s) THEN s[Len(s) + 1] ELSE log'[Len(s) + 1 - Len(s)]
          BY <1>1, <2>3, <5>1, ConcatProperties
        <5>3. ~(Len(s) + 1 <= Len(s)) /\ Len(s) + 1 - Len(s) = 1
          BY <2>4
        <5> QED
          BY <5>1, <5>2, <5>3
      <4>3. /\ \A k \in 1 .. Len(log) : History[k] = log[k].req
            /\ DOMAIN History = 1 .. Len(log)
        BY <1>1, <2>6 DEF History, Entries
      <4>4. log[Len(s) + 1] # log[1]
        <5>1. SUFFICES ASSUME log[Len(s) + 1] = log[1] PROVE FALSE
          OBVIOUS
        <5>2. History[Len(s) + 1] = History[1]
          BY <2>5, <4>2, <4>3, <5>1
        <5>3. Len(s) + 1 = 1
          BY <1>2, <2>5, <4>2, <4>3, <5>2 DEF EntryInv, StoreInv
        <5> QED
          BY <2>4, <5>3
      <4> QED
        BY <1>1, <2>1, <2>5, <4>2, <4>4 DEF Trimmed
    <3> QED
      BY <3>1, <3>2
  <2>8. History' = History
    <3>1. Entries' = Entries
      BY <1>1, <2>3, <2>6, <2>7 DEF Entries
    <3> QED
      BY <3>1 DEF History
  <2>9. \A q \in Req : pc'[q] # "cTrim"
    <3>1. pc'[r] # "cTrim"
      BY <1>1 DEF TrimLog, AfterCompaction, Goto, TypeOK, TaskTypeOK
    <3>2. \A q \in Req \ {r} : pc[q] # "cTrim"
      BY <1>1, <1>2 DEF EntryInv
    <3> QED
      BY <1>1, <3>1, <3>2, CompactFrame
  <2>10. \A q \in Req : CompactTask(q)'
    BY <1>1, <2>1, <2>9 DEF CompactTask
  <2>11. StoreInv'
    BY <1>1, <1>2, <2>2, <2>7, <2>8, CompactHas DEF StoreInv
  <2> QED
    BY <1>1, <1>2, <2>8, <2>9, <2>10, <2>11, CompactHas DEF EntryInv
<1>3. ~(snapshots <= 1) => EntryInv'
  BY <1>1 DEF EntryInv
<1> QED
  BY <1>1, <1>2, <1>3

-----------------------------------------------------------------------------
(* Every step                                                              *)

\* What a step is to the calls and their entries: nothing, a command of
\* replicate_log, its push, or a command of a compaction.
LEMMA StepKinds ==
  ASSUME TypeOK, AnswerInv, [Next]_vars
  PROVE  \/ /\ UNCHANGED <<log, snap, snapshots>>
            /\ \A r \in Req : Keeps(r) /\ (Told(r)' => Told(r))
         \/ \E r \in Req : Replicate(r) /\ ~Push(r)
         \/ \E r \in Req : Push(r) \/ Compact(r)
<1>1. ASSUME NEW n \in Node, Crash(n)
      PROVE  /\ UNCHANGED <<log, snap, snapshots>>
             /\ \A r \in Req : Keeps(r) /\ (Told(r)' => Told(r))
  BY <1>1, DieKeeps DEF Crash
<1>2. ASSUME NEW r \in Req, Elect(r) \/ Stop(r)
      PROVE  /\ UNCHANGED <<log, snap, snapshots>>
             /\ \A q \in Req : Keeps(q) /\ (Told(q)' => Told(q))
  <2>1. CASE Elect(r)
    BY <2>1, ElectKeeps DEF Proc
  <2>2. CASE Stop(r)
    <3>1. host[r] \in Node
      BY <2>2 DEF Stop, TypeOK, PhaseOK, CallPhase, Running
    <3> QED
      BY <2>2, <3>1, DieKeeps DEF Stop
  <2> QED
    BY <1>2, <2>1, <2>2
<1> QED
  BY <1>1, <1>2, LoopKeeps, FailKeeps, InvokeKeeps, TimeKeeps DEF Next, Call

LEMMA NextEntryInv ==
  TypeOK /\ LogInv /\ AnswerInv /\ EntryInv /\ [Next]_vars => AnswerInv' /\ EntryInv'
<1> SUFFICES ASSUME TypeOK, LogInv, AnswerInv, EntryInv, [Next]_vars
             PROVE  AnswerInv' /\ EntryInv'
  OBVIOUS
<1>1. ASSUME UNCHANGED <<log, snap, snapshots>>, \A r \in Req : Keeps(r)
      PROVE  AnswerInv' /\ EntryInv'
  BY <1>1, EntryFrame DEF AnswerInv, Keeps
<1>2. ASSUME NEW r \in Req, Replicate(r), ~Push(r) PROVE AnswerInv' /\ EntryInv'
  BY <1>1, <1>2, ReplicateKeeps
<1>3. ASSUME NEW r \in Req, Push(r) PROVE AnswerInv' /\ EntryInv'
  BY <1>3, PushEntry
<1>4. ASSUME NEW r \in Req, Compact(r) PROVE AnswerInv' /\ EntryInv'
  BY <1>4, CompactFrame, ReadEntry, SnapshotEntry, TrimEntry DEF Compact
<1> QED
  BY <1>1, <1>2, <1>3, <1>4, StepKinds

LEMMA InitEntryInv == Init => LogInv /\ AnswerInv /\ EntryInv /\ D!Init
<1> SUFFICES ASSUME Init PROVE LogInv /\ AnswerInv /\ EntryInv /\ D!Init
  OBVIOUS
<1>1. Len(log) = 0 /\ log = <<>> /\ commit = -1 /\ acks = {} /\ snapshots = 0
  BY DEF Init
<1>2. \A p \in Proc : LogTask(p)
  BY DEF Init, LogTask
<1>3. \A r \in Req : pc[r] = "idle" /\ result[r] = "none"
  BY ReqAssumption DEF Init, Proc
<1>4. History = <<>>
  BY <1>1 DEF History, Entries, Trimmed
<1>5. \A r \in Req : ~Has(r) /\ ~Pushed(r)
  BY <1>3, <1>4 DEF Has, Pushed, Told
<1>6. StoreInv
  BY <1>1, <1>4 DEF StoreInv
<1>7. EntryInv
  BY <1>1, <1>3, <1>5, <1>6 DEF EntryInv, CompactTask
<1>8. D!Init
  BY <1>1, <1>3, <1>4 DEF D!Init
<1> QED
  BY <1>1, <1>2, <1>3, <1>7, <1>8 DEF LogInv, AnswerInv, Told

LEMMA EntryInvariant == Spec => [](TypeOK /\ AnswerInv /\ EntryInv)
BY InitEntryInv, NextLogInv, NextEntryInv, TypeCorrect, PTL DEF Spec

-----------------------------------------------------------------------------
(* What it is for                                                          *)

\* For any number of nodes, calls and entries, and however appends, compactions
\* and crashes interleave: an entry that a client was told is committed or
\* pending stays readable, in the log or in the snapshot, until a second
\* snapshot replaces the first.
THEOREM EntriesSurvive == Spec => []EntrySurvives
<1>1. TypeOK /\ AnswerInv /\ EntryInv => EntrySurvives
  <2> SUFFICES ASSUME TypeOK, EntryInv, snapshots <= 1, NEW r \in Req, Told(r)
               PROVE  InLog(r) \/ InSnap(r)
    BY DEF EntrySurvives, Told
  <2>1. PICK i \in 1 .. Len(Entries) : Entries[i].req = r
    BY HasEntry DEF EntryInv, Pushed
  <2>2. log \in Seq(Entry) /\ snap.entries \in Seq(Entry)
    BY HistoryType
  <2>3. CASE ~Trimmed
    BY <2>1, <2>2, <2>3, LenProperties DEF Entries, InLog
  <2>4. CASE Trimmed
    <3>1. /\ Len(Entries) = Len(snap.entries) + Len(log)
          /\ Len(snap.entries) \in Nat /\ Len(log) \in Nat
          /\ Entries[i] = IF i <= Len(snap.entries) THEN snap.entries[i]
                          ELSE log[i - Len(snap.entries)]
      BY <2>1, <2>2, <2>4, ConcatProperties, LenProperties DEF Entries
    <3>2. CASE i <= Len(snap.entries)
      <4>1. i \in DOMAIN snap.entries
        BY <2>1, <2>2, <3>1, <3>2, LenProperties
      <4> QED
        BY <2>1, <3>1, <3>2, <4>1 DEF InSnap
    <3>3. CASE ~(i <= Len(snap.entries))
      <4>1. i - Len(snap.entries) \in DOMAIN log
        BY <2>1, <2>2, <3>1, <3>3, LenProperties
      <4> QED
        BY <2>1, <3>1, <3>3, <4>1 DEF InLog
    <3> QED
      BY <3>2, <3>3
  <2> QED
    BY <2>3, <2>4
<1> QED
  BY <1>1, EntryInvariant, PTL

\* Every step is one of DecisionLog: the push decides, an answer tells, the
\* second snapshot forgets, and nothing else is visible.
LEMMA DecisionStep ==
  ASSUME TypeOK, TypeOK', AnswerInv, EntryInv, [Next]_vars
  PROVE  [D!Next]_(D!logVars)
<1> DEFINE told == {r \in Req : result[r] \in {"committed", "pending"}}
<1>1. CASE ~(snapshots' <= 1)
  <2>1. snapshots' > 1
    BY <1>1 DEF TypeOK, AuxTypeOK
  <2> QED
    BY <2>1 DEF D!Next, D!Forget
<1>2. CASE snapshots' <= 1
  <2>1. ASSUME snapshots <= 1, History' = History, \A r \in Req : Told(r)' <=> Told(r)
        PROVE  UNCHANGED D!logVars
    <3>1. told' = told
      BY <2>1 DEF Told
    <3>2. (snapshots' > 1) = (snapshots > 1)
      BY <1>2, <2>1 DEF TypeOK, AuxTypeOK
    <3> QED
      BY <2>1, <3>1, <3>2 DEF D!logVars
  <2>2. ASSUME UNCHANGED <<log, snap, snapshots>>,
               \A r \in Req : Keeps(r) /\ (Told(r)' => Told(r))
        PROVE  UNCHANGED D!logVars
    BY <1>2, <2>1, <2>2, HistoryFrame DEF Keeps
  <2>3. ASSUME NEW r \in Req, Replicate(r), ~Push(r) PROVE [D!Next]_(D!logVars)
    <3>1. /\ UNCHANGED <<log, snap, snapshots>>
          /\ \A q \in Req : Keeps(q)
          /\ \A q \in Req \ {r} : Told(q)' => Told(q)
      BY <2>3, ReplicateKeeps
    <3>2. CASE Told(r)' /\ ~Told(r)
      <4>1. Has(r)
        BY <1>2, <3>1, <3>2 DEF Keeps, Pushed, EntryInv
      <4>2. r \in D!Decided
        BY <4>1 DEF Has, D!Decided
      <4>3. told' = told \cup {r}
        BY <3>1, <3>2 DEF Keeps, Told
      <4>4. D!Tell(r)
        BY <3>1, <4>2, <4>3, HistoryFrame DEF D!Tell
      <4> QED
        BY <4>4 DEF D!Next
    <3>3. CASE ~(Told(r)' /\ ~Told(r))
      BY <2>2, <3>1, <3>3
    <3> QED
      BY <3>2, <3>3
  <2>4. ASSUME NEW r \in Req, Push(r) PROVE [D!Next]_(D!logVars)
    <3>1. UNCHANGED <<result, snapshots>>
      BY <2>4, PushEntry
    <3>2. History' = Append(History, r) /\ ~Has(r)
      BY <1>2, <2>4, <3>1, PushHistory
    <3>3. r \notin D!Decided
      BY <3>2 DEF Has, D!Decided
    <3>4. D!Decide(r)
      BY <3>1, <3>2, <3>3 DEF D!Decide
    <3> QED
      BY <3>4 DEF D!Next
  <2>5. ASSUME NEW r \in Req, Compact(r) PROVE [D!Next]_(D!logVars)
    <3>1. \A q \in Req : Told(q)' <=> Told(q)
      BY <2>5, CompactFrame DEF Told
    <3>2. snapshots <= 1
      BY <1>2, <2>5 DEF Compact, SnapshotLength, ReadCommit, ReadRange, WriteSnapshot, TrimLog,
         auxVars, TypeOK, AuxTypeOK
    <3>3. CASE SnapshotLength(r) \/ ReadCommit(r) \/ ReadRange(r)
      <4>1. UNCHANGED <<log, snap, snapshots>>
        BY <3>3 DEF SnapshotLength, ReadCommit, ReadRange, redisVars, auxVars
      <4> QED
        BY <2>1, <3>1, <3>2, <4>1, HistoryFrame
    <3>4. CASE WriteSnapshot(r)
      BY <1>2, <2>1, <3>1, <3>2, <3>4, SnapshotEntry
    <3>5. CASE TrimLog(r)
      BY <2>1, <3>1, <3>2, <3>5, TrimEntry
    <3> QED
      BY <2>5, <3>3, <3>4, <3>5 DEF Compact
  <2> QED
    BY <2>2, <2>3, <2>4, <2>5, StepKinds
<1> QED
  BY <1>1, <1>2

\* RaftLite implements DecisionLog: whatever the nodes, the calls and the order
\* in which appends, retries, answers, compactions and crashes happen, the two
\* keys are one log that only grows, in which every call has at most one entry
\* and every call that was answered has one, until a second snapshot.
THEOREM DecisionLogImplemented == Spec => ImplementsDecisionLog
<1>1. TypeOK /\ TypeOK' /\ AnswerInv /\ EntryInv /\ [Next]_vars => [D!Next]_(D!logVars)
  BY DecisionStep
<1>2. Init => D!Init
  BY InitEntryInv
<1> QED
  BY <1>1, <1>2, EntryInvariant, PTL DEF Spec, ImplementsDecisionLog, D!Spec

================================================================================
