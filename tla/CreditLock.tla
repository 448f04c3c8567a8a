------------------------------ MODULE CreditLock ------------------------------
(***************************************************************************)
(* A user's credits: the requests that change them, each a thread of its   *)
(* own, and the lock in Redis that some of them take.                      *)
(*                                                                         *)
(*   use     api/payments.py use_credits                                   *)
(*   refund  services/payments/tasks.py _refund_credits                    *)
(*   verify  api/payments.py verify_payment_endpoint, signature accepted   *)
(*   reset   services/payments/tasks.py reset_monthly_credits              *)
(*                                                                         *)
(* db/redis_client.py distributed_lock is one key, set with NX and a time  *)
(* to live and deleted by a script that compares the token.  A token is    *)
(* the time of the acquisition plus the time to live: here it is the       *)
(* request, which acquires again only after its earlier token has been     *)
(* deleted or has lapsed, so no two holders have the same token.  Each     *)
(* Redis command and each Firestore call is one step.                      *)
(***************************************************************************)
EXTENDS Integers, FiniteSets

CONSTANTS
  Use, Refund, Verify, Reset,
  NoReq,        \* no token: the key does not exist
  Opening, Cost, Amount, Bonus,
  First, Plan,  \* the user's tier at the beginning and the one paid for
  Free,         \* the tier whose limit is the default
  Limit,        \* TIERS: the allowance of a day, of each tier there
  Monthly,      \* the credits of a month, of each tier that is reset
  SpendReads,   \* get_daily_ai_spend returns a number (see README.md)
  Attempts,     \* runs of a decorated function (3 in the code)
  Tries,        \* SET NX commands per run (4 in the code)
  MaxFaults,    \* bound: errors and crashes in a behaviour
  Timely,       \* holders leave the section before the key lapses
  Ambiguous     \* an update that raises may have been applied

ASSUME RequestsDisjoint ==
  /\ Use \cap Refund = {} /\ Use \cap Verify = {} /\ Refund \cap Verify = {}
  /\ Reset \cap (Use \cup Refund \cup Verify) = {}
  /\ NoReq \notin Use \cup Refund \cup Verify \cup Reset
ASSUME SizesAreNat ==
  /\ Opening \in Nat /\ Cost \in Nat /\ Amount \in Nat /\ Bonus \in Nat
  /\ Attempts \in Nat \ {0} /\ Tries \in Nat \ {0} /\ MaxFaults \in Nat
  /\ Timely \in BOOLEAN /\ Ambiguous \in BOOLEAN /\ SpendReads \in BOOLEAN
ASSUME TiersAreNat ==
  Limit \in [DOMAIN Limit -> Nat] /\ Monthly \in [DOMAIN Monthly -> Nat]

VARIABLES
  key,          \* the token under lock:credits:<user>
  credits,      \* users/<user>.credits in Firestore
  tier,         \* users/<user>.tier in Firestore
  spend,        \* ai_spend:<user>:<day> in Redis
  pc,           \* where each request is
  seen,         \* what it has read: the day's spend, the credits of a month
  tries,        \* SET NX commands left in this run
  attempts,     \* runs left, this one included
  times,        \* how often a request's change has been applied
  expired,      \* the requests whose key lapsed inside the section
  overwritten,  \* a reset has written between a use's comparison and charge
  faults        \* errors and crashes so far

vars == <<key, credits, tier, spend, pc, seen, tries, attempts, times,
          expired, overwritten, faults>>
lockVars == <<key, expired>>
books == <<credits, tier, spend, times, overwritten>>

Req == Use \cup Refund \cup Verify \cup Reset
Locking == Use \cup Refund
Retried == Use \cup Verify     \* decorated with standard_retry

\* Between acquiring the lock and giving it back: "leave" holds the answer of
\* a run that succeeded, "unwind" the exception of one that did not.
Outside == {"spend", "profile", "allow", "query", "set", "lock"}
Section == {"read", "update", "leave", "unwind"}
Final == {"done", "failed", "dropped", "dead"}
InSection(r) == r \in Locking /\ pc[r] \in Section

Change(r) == IF r \in Use THEN -Cost ELSE IF r \in Refund THEN Amount ELSE Bonus

\* The first command of each function.
Entry(r) ==
  IF r \in Use THEN "spend"
  ELSE IF r \in Refund THEN "lock"
  ELSE IF r \in Verify THEN "update" ELSE "query"

Init ==
  /\ key = NoReq
  /\ credits = Opening /\ tier = First /\ spend = 0
  /\ pc = [r \in Req |-> Entry(r)]
  /\ seen = [r \in Req |-> 0]
  /\ tries = [r \in Req |-> Tries]
  /\ attempts = [r \in Req |-> Attempts]
  /\ times = [r \in Req |-> 0]
  /\ expired = {} /\ overwritten = FALSE
  /\ faults = 0

Goto(r, label) == pc' = [pc EXCEPT ![r] = label]
Fault == faults < MaxFaults /\ faults' = faults + 1

\* Mutant of Raise: the attempts are not counted.
RaiseForever(r) ==
  /\ IF r \in Retried
     THEN tries' = [tries EXCEPT ![r] = Tries] /\ Goto(r, Entry(r))
     ELSE Goto(r, "dropped") /\ UNCHANGED tries
  /\ UNCHANGED attempts

\* An exception leaves the function: standard_retry runs it again from its
\* beginning, whatever the exception, while there are attempts;
\* _refund_credits and reset_monthly_credits swallow it.
Raise(r) ==
  IF r \in Retried /\ attempts[r] > 1
  THEN /\ attempts' = [attempts EXCEPT ![r] = @ - 1]
       /\ tries' = [tries EXCEPT ![r] = Tries]
       /\ Goto(r, Entry(r))
  ELSE /\ Goto(r, IF r \in Retried THEN "failed" ELSE "dropped")
       /\ UNCHANGED <<attempts, tries>>

\* get_daily_ai_spend: GET of the day's key.
GetSpend(r) ==
  /\ pc[r] = "spend"
  /\ IF SpendReads
     THEN /\ seen' = [seen EXCEPT ![r] = spend]
          /\ Goto(r, "profile")
          /\ UNCHANGED <<tries, attempts>>
     ELSE Raise(r) /\ UNCHANGED seen
  /\ UNCHANGED <<lockVars, books, faults>>

\* TIERS.get(tier, TIERS["free"]): the default is looked up in any case.
LimitOf(t) == IF t \in DOMAIN Limit THEN Limit[t] ELSE Limit[Free]

\* use_credits reads the user's tier and compares the spend it has read with
\* the allowance.
Profile(r) ==
  /\ pc[r] = "profile"
  /\ IF Free \in DOMAIN Limit
     THEN /\ Goto(r, IF seen[r] + Cost <= LimitOf(tier) THEN "allow" ELSE "lock")
          /\ UNCHANGED <<tries, attempts>>
     ELSE Raise(r)
  /\ UNCHANGED <<lockVars, books, seen, faults>>

\* reset_monthly_credits reads the users of the paid tiers.
Query(r) ==
  /\ pc[r] = "query"
  /\ IF tier \notin DOMAIN Monthly THEN Goto(r, "done") /\ UNCHANGED seen
     ELSE IF Free \notin DOMAIN Limit THEN Goto(r, "dropped") /\ UNCHANGED seen
     ELSE Goto(r, "set") /\ seen' = [seen EXCEPT ![r] = Monthly[tier]]
  /\ UNCHANGED <<lockVars, books, tries, attempts, faults>>

\* SET NX succeeds.
Acquire(r) ==
  /\ pc[r] = "lock"
  /\ key = NoReq
  /\ key' = r
  /\ Goto(r, IF r \in Use THEN "read" ELSE "update")
  /\ UNCHANGED <<books, seen, tries, attempts, expired, faults>>

\* Mutant of Busy: one command too many.
BusyLate(r) ==
  /\ pc[r] = "lock"
  /\ key # NoReq
  /\ IF tries[r] >= 1
     THEN /\ tries' = [tries EXCEPT ![r] = @ - 1]
          /\ UNCHANGED <<pc, attempts>>
     ELSE Raise(r)
  /\ UNCHANGED <<lockVars, books, seen, faults>>

\* SET NX fails: sleep and try again, or give up with a 429 (a refund just
\* returns).
Busy(r) ==
  /\ pc[r] = "lock"
  /\ key # NoReq
  /\ IF tries[r] > 1
     THEN /\ tries' = [tries EXCEPT ![r] = @ - 1]
          /\ UNCHANGED <<pc, attempts>>
     ELSE Raise(r)
  /\ UNCHANGED <<lockVars, books, seen, faults>>

\* SET NX raises, and may have been executed.
AcquireFails(r) ==
  /\ pc[r] = "lock"
  /\ Fault
  /\ key' \in {key, IF key = NoReq THEN r ELSE key}
  /\ Raise(r)
  /\ UNCHANGED <<books, seen, expired>>

\* Mutant of Read: the comparison is lost.
ReadOnly(r) ==
  /\ pc[r] = "read"
  /\ Goto(r, "update")
  /\ UNCHANGED <<lockVars, books, seen, tries, attempts, faults>>

\* use_credits reads the balance under the lock and compares.
Read(r) ==
  /\ pc[r] = "read"
  /\ Goto(r, IF credits < Cost THEN "unwind" ELSE "update")
  /\ UNCHANGED <<lockVars, books, seen, tries, attempts, faults>>

\* The writes: the allowance of the day is incremented; firestore.Increment
\* is atomic in the store, and a payment's update writes the tier with it; a
\* reset writes the credits of the month over whatever there is.
Apply(r) ==
  /\ times' = [times EXCEPT ![r] = @ + 1]
  /\ \/ /\ pc[r] = "allow"
        /\ spend' = spend + Cost
        /\ UNCHANGED <<credits, tier, overwritten>>
     \/ /\ pc[r] = "update"
        /\ credits' = credits + Change(r)
        /\ tier' = IF r \in Verify THEN Plan ELSE tier
        /\ UNCHANGED <<spend, overwritten>>
     \/ /\ pc[r] = "set"
        /\ credits' = seen[r]
        /\ overwritten' = (overwritten \/ \E u \in Use : pc[u] = "update")
        /\ UNCHANGED <<spend, tier>>

\* A write succeeds: under the lock it is given back, elsewhere the request
\* has its answer.
Update(r) ==
  /\ pc[r] \in {"allow", "update", "set"}
  /\ Apply(r)
  /\ Goto(r, IF InSection(r) THEN "leave" ELSE "done")
  /\ UNCHANGED <<lockVars, seen, tries, attempts, faults>>

\* Mutant of StoreFails: the exception is swallowed inside the section.
StoreFailsQuietly(r) ==
  /\ pc[r] \in {"read", "update"}
  /\ Fault
  /\ UNCHANGED <<books, seen, tries, attempts>>
  /\ Goto(r, "leave")
  /\ UNCHANGED lockVars

\* A Redis command or a Firestore call other than the lock's raises.
StoreFails(r) ==
  /\ pc[r] \in {"spend", "profile", "allow", "read", "update", "query", "set"}
  /\ Fault
  /\ UNCHANGED books \/ (Ambiguous /\ Apply(r))
  /\ IF InSection(r)
     THEN Goto(r, "unwind") /\ UNCHANGED <<tries, attempts>>
     ELSE Raise(r)
  /\ UNCHANGED <<lockVars, seen>>

\* Mutant of Delete: the token is not compared.
DeleteAny(r) == key' = NoReq

\* LUA_RELEASE_SCRIPT deletes the key if it holds the caller's token.
Delete(r) == key' = IF key = r THEN NoReq ELSE key

\* The finally clause of the lock, whose own errors are swallowed.
Release(r) ==
  /\ r \in Locking
  /\ pc[r] \in {"leave", "unwind"}
  /\ \/ Delete(r) /\ UNCHANGED faults
     \/ Fault /\ UNCHANGED key
  /\ IF pc[r] = "leave"
     THEN Goto(r, "done") /\ UNCHANGED <<tries, attempts>>
     ELSE Raise(r)
  /\ UNCHANGED <<books, seen, expired>>

\* The process dies; its key stays.
Crash(r) ==
  /\ pc[r] \notin Final
  /\ Fault
  /\ Goto(r, "dead")
  /\ UNCHANGED <<lockVars, books, seen, tries, attempts>>

\* px: Redis deletes the key when its time is over.
Lapse ==
  /\ key # NoReq
  /\ Timely => ~InSection(key)
  /\ key' = NoReq
  /\ expired' = IF InSection(key) THEN expired \cup {key} ELSE expired
  /\ UNCHANGED <<books, pc, seen, tries, attempts, faults>>

\* The key of the day's spend has the date in its name.
NewDay ==
  /\ spend > 0
  /\ spend' = 0
  /\ UNCHANGED <<lockVars, credits, tier, pc, seen, tries, attempts, times,
                 overwritten, faults>>

Step(r) ==
  \/ GetSpend(r) \/ Profile(r) \/ Query(r)
  \/ Acquire(r) \/ Busy(r) \/ Read(r) \/ Update(r) \/ Release(r)

Terminated ==
  /\ key = NoReq /\ \A r \in Req : pc[r] \in Final
  /\ UNCHANGED vars

Next ==
  \/ \E r \in Req : Step(r) \/ AcquireFails(r) \/ StoreFails(r) \/ Crash(r)
  \/ Lapse
  \/ NewDay
  \/ Terminated

Spec == Init /\ [][Next]_vars

\* Threads run, calls return or raise, and Redis expires keys.
FairSpec == Spec /\ (\A r \in Req : WF_vars(Step(r))) /\ WF_vars(Lapse)

-----------------------------------------------------------------------------
(***************************************************************************)
(* Properties.                                                             *)
(***************************************************************************)

\* The state of the lock and of the requests has the expected shape.
TypeOK ==
  /\ key \in Req \cup {NoReq}
  /\ credits \in Int /\ tier \in {First, Plan} /\ spend \in Nat
  /\ pc \in [Req -> Outside \cup Section \cup Final]
  /\ seen \in [Req -> Nat]
  /\ tries \in [Req -> 1 .. Tries]
  /\ attempts \in [Req -> 1 .. Attempts]
  /\ times \in [Req -> Nat]
  /\ expired \subseteq Locking /\ overwritten \in BOOLEAN
  /\ faults \in 0 .. MaxFaults

\* A request in the section whose key has not lapsed still has the key: the
\* release of a holder that stayed too long never deletes its successor's
\* (test_lock_release_safety: "only the owner can release a lock via Lua").
HolderKeepsKey ==
  \A r \in Req : InSection(r) /\ r \notin expired => key = r

\* An answered request has been charged exactly once, from the allowance or
\* from the credits, and a refused one not at all, whatever was retried in
\* between and wherever the retry ended up.
AnswerMatchesCharge ==
  \A r \in Req :
    /\ pc[r] = "done" /\ r \notin Reset => times[r] = 1
    /\ pc[r] \in {"failed", "dropped"} => times[r] = 0

\* Whoever crashed, the lock becomes free and every request is answered.
Settles == <>[](key = NoReq /\ \A r \in Req : pc[r] \in Final)

\* The account the callers see: no step of the retries, the lock or the
\* faults changes it twice, or lets a use take what is not there.
Abstract == INSTANCE Account WITH
  balance <- credits,
  spent <- spend,
  settled <- {r \in Req : times[r] > 0},
  disturbed <- (expired # {} \/ overwritten)

ImplementsAccount == Abstract!Spec

=============================================================================
