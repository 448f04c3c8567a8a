----------------------------- MODULE MCRaftCommit -----------------------------
(***************************************************************************)
(* RaftLite with a history variable: which nodes can have received the     *)
(* entry of a call before they acknowledged its index.                     *)
(***************************************************************************)
EXTENDS RaftLite, TLC

VARIABLE heard      \* pairs <<call, node>>

historyVars == <<vars, heard>>

\* SADD: task p, on node Home(p), adds its node to the set of index idx[p].
Acknowledges(p) ==
  /\ pc[p] \in {"obsAck", "rAck"} /\ pc'[p] # pc[p]
  /\ <<idx[p], Home(p)>> \in acks'

\* An acknowledgement is about whatever the log has under its index: that is
\* all a node can have received (its observer reads no entry at all).
Received ==
  UNION {{<<log[i].req, Home(p)>> : i \in {j \in DOMAIN log : log[j].idx = idx[p]}} :
         p \in {q \in Proc : Acknowledges(q)}}

HistoryNext == Next /\ heard' = heard \cup Received

HistorySpec == Init /\ heard = {} /\ [][HistoryNext]_historyVars

Symmetry == Permutations(Req)

\* README_ARCHITECTURE.md:83, "committed to the DCN log only after a majority
\* (Quorum) of nodes acknowledge receipt": under one leader, when replicate_log
\* has counted its quorum, that many nodes have acknowledged the index since
\* the entry has been in the log.
CommittedByMajority ==
  ~lapsed =>
    \A r \in Req :
      pc[r] = "rCommit" => Cardinality({n \in Node : <<r, n>> \in heard}) >= quorum[r]

=============================================================================
