----------------------------- MODULE DecisionLog -----------------------------
(***************************************************************************)
(* What the decision log promises to the calls that propose to it: an      *)
(* entry is added once, behind those that are there, a call is answered    *)
(* only for an entry that is there, and nothing moves or goes away, until  *)
(* a second snapshot replaces the first.  RaftLite implements it.          *)
(***************************************************************************)
EXTENDS Sequences

CONSTANT Req      \* calls, each with at most one entry

VARIABLES
  decisions,      \* the calls that have an entry, in the order of the entries
  told,           \* the calls told that their entry is committed or pending
  forgotten       \* a second snapshot has replaced the first

logVars == <<decisions, told, forgotten>>

Decided == {decisions[i] : i \in DOMAIN decisions}

Init ==
  /\ decisions = <<>>
  /\ told = {}
  /\ forgotten = FALSE

Decide(r) ==
  /\ r \notin Decided
  /\ decisions' = Append(decisions, r)
  /\ UNCHANGED <<told, forgotten>>

Tell(r) ==
  /\ r \in Decided
  /\ told' = told \cup {r}
  /\ UNCHANGED <<decisions, forgotten>>

\* From here on nothing is promised.
Forget == forgotten' = TRUE

Next ==
  \/ \E r \in Req : Decide(r) \/ Tell(r)
  \/ Forget

Spec == Init /\ [][Next]_logVars

=============================================================================
