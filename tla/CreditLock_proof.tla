--------------------------- MODULE CreditLock_proof ---------------------------
(***************************************************************************)
(* For any number of requests, retries, errors and crashes: the lock is    *)
(* never taken from a holder in time, the answers match the charges, and   *)
(* CreditLock implements Account.                                          *)
(*                                                                         *)
(* The inductive invariant adds to the properties where each kind of       *)
(* request can be, how often it has been applied at each place of its      *)
(* code, and that a use about to charge still has the balance it read,     *)
(* until somebody overstays or a reset writes in between.                  *)
(***************************************************************************)
EXTENDS CreditLock, TLAPS

USE RequestsDisjoint, SizesAreNat, TiersAreNat

-----------------------------------------------------------------------------
(* Types *)

Places == Outside \cup Section \cup Final

LEMMA EntryPlace == ASSUME NEW r \in Req PROVE Entry(r) \in Places
BY DEF Entry, Places, Outside, Section

LEMMA InitTypes == Init => TypeOK
<1> SUFFICES ASSUME Init PROVE TypeOK
  OBVIOUS
<1>1. pc \in [Req -> Places]
  BY EntryPlace DEF Init
<1>2. /\ tries \in [Req -> 1 .. Tries] /\ attempts \in [Req -> 1 .. Attempts]
      /\ seen \in [Req -> Nat] /\ times \in [Req -> Nat]
  BY DEF Init
<1>3. pc \in [Req -> Outside \cup Section \cup Final]
  BY <1>1 DEF Places
<1>4. credits \in Int /\ spend \in Nat /\ faults \in 0 .. MaxFaults
  BY DEF Init
<1>5. /\ key \in Req \cup {NoReq} /\ tier \in {First, Plan}
      /\ expired \subseteq Locking /\ overwritten \in BOOLEAN
  BY DEF Init
<1> QED
  BY <1>2, <1>3, <1>4, <1>5 DEF TypeOK

LEMMA RaiseTypes ==
  ASSUME TypeOK, NEW r \in Req, Raise(r)
  PROVE  /\ pc' \in [Req -> Places]
         /\ tries' \in [Req -> 1 .. Tries]
         /\ attempts' \in [Req -> 1 .. Attempts]
<1>1. CASE r \in Retried /\ attempts[r] > 1
  BY <1>1, EntryPlace DEF TypeOK, Raise, Goto, Places
<1>2. CASE ~(r \in Retried /\ attempts[r] > 1)
  BY <1>2 DEF TypeOK, Raise, Goto, Places, Final
<1> QED
  BY <1>1, <1>2

LEMMA ApplyTypes ==
  ASSUME TypeOK, NEW r \in Req, Apply(r)
  PROVE  /\ credits' \in Int /\ tier' \in {First, Plan} /\ spend' \in Nat
         /\ times' \in [Req -> Nat] /\ overwritten' \in BOOLEAN
<1>1. times' \in [Req -> Nat]
  BY DEF TypeOK, Apply
<1>2. CASE pc[r] = "allow"
  BY <1>1, <1>2 DEF TypeOK, Apply
<1>3. CASE pc[r] = "update"
  BY <1>1, <1>3 DEF TypeOK, Apply, Change
<1>4. CASE pc[r] = "set"
  BY <1>1, <1>4 DEF TypeOK, Apply
<1> QED
  BY <1>2, <1>3, <1>4 DEF Apply

LEMMA StepTypes == TypeOK /\ [Next]_vars => TypeOK'
<1> SUFFICES ASSUME TypeOK, [Next]_vars PROVE TypeOK'
  OBVIOUS
<1> USE DEF books, lockVars
<1>1. ASSUME NEW r \in Req, GetSpend(r) PROVE TypeOK'
  <2>1. CASE SpendReads
    BY <1>1, <2>1 DEF TypeOK, GetSpend, Goto, Outside
  <2>2. CASE ~SpendReads
    BY <1>1, <2>2, RaiseTypes DEF TypeOK, GetSpend, Places
  <2> QED
    BY <2>1, <2>2
<1>2. ASSUME NEW r \in Req, Profile(r) PROVE TypeOK'
  <2>1. CASE Free \in DOMAIN Limit
    BY <1>2, <2>1 DEF TypeOK, Profile, Goto, Outside
  <2>2. CASE Free \notin DOMAIN Limit
    BY <1>2, <2>2, RaiseTypes DEF TypeOK, Profile, Places
  <2> QED
    BY <2>1, <2>2
<1>3. ASSUME NEW r \in Req, Query(r) PROVE TypeOK'
  <2>1. seen' \in [Req -> Nat]
    BY <1>3 DEF TypeOK, Query
  <2>2. pc' \in [Req -> Places]
    BY <1>3 DEF TypeOK, Query, Goto, Places, Outside, Final
  <2> QED
    BY <1>3, <2>1, <2>2 DEF TypeOK, Query, Places
<1>4. ASSUME NEW r \in Req, Acquire(r) PROVE TypeOK'
  BY <1>4 DEF TypeOK, Acquire, Goto, Section
<1>5. ASSUME NEW r \in Req, Busy(r) PROVE TypeOK'
  <2>1. CASE tries[r] > 1
    BY <1>5, <2>1 DEF TypeOK, Busy
  <2>2. CASE ~(tries[r] > 1)
    <3>1. Raise(r)
      BY <1>5, <2>2 DEF Busy
    <3> QED
      BY <1>5, <3>1, RaiseTypes DEF TypeOK, Busy, Places
  <2> QED
    BY <2>1, <2>2
<1>6. ASSUME NEW r \in Req, Read(r) PROVE TypeOK'
  BY <1>6 DEF TypeOK, Read, Goto, Section
<1>7. ASSUME NEW r \in Req, Update(r) PROVE TypeOK'
  <2>1. pc' \in [Req -> Places]
    BY <1>7 DEF TypeOK, Update, Goto, Places, Section, Final
  <2> QED
    BY <1>7, <2>1, ApplyTypes DEF TypeOK, Update, Places
<1>8. ASSUME NEW r \in Req, Release(r) PROVE TypeOK'
  <2>1. key' \in Req \cup {NoReq} /\ faults' \in 0 .. MaxFaults
    BY <1>8 DEF TypeOK, Release, Delete, Fault
  <2>2. CASE pc[r] = "leave"
    BY <1>8, <2>1, <2>2 DEF TypeOK, Release, Goto, Final
  <2>3. CASE pc[r] # "leave"
    <3>1. Raise(r)
      BY <1>8, <2>3 DEF Release
    <3> QED
      BY <1>8, <2>1, <3>1, RaiseTypes DEF TypeOK, Release, Places
  <2> QED
    BY <2>2, <2>3
<1>9. ASSUME NEW r \in Req, AcquireFails(r) PROVE TypeOK'
  <2>1. key' \in Req \cup {NoReq} /\ faults' \in 0 .. MaxFaults
    BY <1>9 DEF TypeOK, AcquireFails, Fault
  <2> QED
    BY <1>9, <2>1, RaiseTypes DEF TypeOK, AcquireFails, Places
<1>10. ASSUME NEW r \in Req, StoreFails(r) PROVE TypeOK'
  <2>1. /\ credits' \in Int /\ tier' \in {First, Plan} /\ spend' \in Nat
        /\ times' \in [Req -> Nat] /\ overwritten' \in BOOLEAN
    BY <1>10, ApplyTypes DEF TypeOK, StoreFails
  <2>2. faults' \in 0 .. MaxFaults
    BY <1>10 DEF TypeOK, StoreFails, Fault
  <2>3. CASE InSection(r)
    BY <1>10, <2>1, <2>2, <2>3 DEF TypeOK, StoreFails, Goto, Section
  <2>4. CASE ~InSection(r)
    <3>1. Raise(r)
      BY <1>10, <2>4 DEF StoreFails
    <3> QED
      BY <1>10, <2>1, <2>2, <3>1, RaiseTypes DEF TypeOK, StoreFails, Places
  <2> QED
    BY <2>3, <2>4
<1>11. ASSUME NEW r \in Req, Crash(r) PROVE TypeOK'
  BY <1>11 DEF TypeOK, Crash, Fault, Goto, Final
<1>12. ASSUME Lapse PROVE TypeOK'
  BY <1>12 DEF TypeOK, Lapse, InSection
<1>13. ASSUME NewDay PROVE TypeOK'
  BY <1>13 DEF TypeOK, NewDay
<1>14. ASSUME UNCHANGED vars PROVE TypeOK'
  BY <1>14 DEF TypeOK, vars
<1> QED
  BY <1>1, <1>2, <1>3, <1>4, <1>5, <1>6, <1>7, <1>8, <1>9, <1>10, <1>11, <1>12,
     <1>13, <1>14
  DEF Next, Step, Terminated

\* Every state is well typed, whatever the numbers of requests, attempts,
\* SET NX commands and faults: no retry loop runs past its last attempt.
THEOREM LockTypeCorrect == Spec => []TypeOK
BY InitTypes, StepTypes, PTL DEF Spec

-----------------------------------------------------------------------------
(* Places *)

\* Where a request of each kind can be.
PlacesOf(r) ==
  Final \cup
    IF r \in Use THEN {"spend", "profile", "allow", "lock"} \cup Section
    ELSE IF r \in Refund THEN {"lock"} \cup (Section \ {"read"})
    ELSE IF r \in Verify THEN {"update"} ELSE {"query", "set"}

\* A reset about to write has the credits of some tier.
Placed ==
  \A r \in Req :
    /\ pc[r] \in PlacesOf(r)
    /\ pc[r] = "set" => \E t \in DOMAIN Monthly : seen[r] = Monthly[t]

\* Where an exception takes a request.
LEMMA RaiseEffect ==
  ASSUME NEW r \in Req, Raise(r)
  PROVE  \E l \in {Entry(r), "failed", "dropped"} : pc' = [pc EXCEPT ![r] = l]
BY DEF Raise, Goto

LEMMA MovePlaced ==
  ASSUME TypeOK, Placed, NEW r \in Req, NEW l \in PlacesOf(r), l # "set",
         pc' = [pc EXCEPT ![r] = l], seen' \in [Req -> Nat],
         \A q \in Req : q # r => seen'[q] = seen[q]
  PROVE  Placed'
BY DEF TypeOK, Placed, PlacesOf

LEMMA RaisePlaced ==
  ASSUME TypeOK, Placed, NEW r \in Req, Raise(r), seen' = seen
  PROVE  Placed'
<1>1. PICK l \in {Entry(r), "failed", "dropped"} : pc' = [pc EXCEPT ![r] = l]
  BY RaiseEffect
<1>2. l \in PlacesOf(r) /\ l # "set"
  BY <1>1 DEF Entry, PlacesOf, Final, Section, Req
<1> QED
  BY <1>1, <1>2, MovePlaced DEF TypeOK

LEMMA StepPlaced == TypeOK /\ Placed /\ [Next]_vars => Placed'
<1> SUFFICES ASSUME TypeOK, Placed, [Next]_vars PROVE Placed'
  OBVIOUS
<1> USE DEF books, lockVars
<1>0. /\ seen \in [Req -> Nat] /\ Use \subseteq Req
      /\ \A q \in Req : pc[q] \in PlacesOf(q)
  BY DEF TypeOK, Placed, Req
<1>1. ASSUME NEW r \in Req, GetSpend(r) PROVE Placed'
  <2>1. CASE SpendReads
    <3>1. "profile" \in PlacesOf(r)
      BY <1>0, <1>1 DEF GetSpend, PlacesOf, Final, Section
    <3> QED
      BY <1>0, <1>1, <2>1, <3>1, MovePlaced DEF GetSpend, Goto, TypeOK
  <2>2. CASE ~SpendReads
    BY <1>1, <2>2, RaisePlaced DEF GetSpend
  <2> QED
    BY <2>1, <2>2
<1>2. ASSUME NEW r \in Req, Profile(r) PROVE Placed'
  <2>1. CASE Free \in DOMAIN Limit
    <3>1. "allow" \in PlacesOf(r) /\ "lock" \in PlacesOf(r)
      BY <1>0, <1>2 DEF Profile, PlacesOf, Final, Section
    <3> QED
      BY <1>0, <1>2, <2>1, <3>1, MovePlaced DEF Profile, Goto
  <2>2. CASE Free \notin DOMAIN Limit
    BY <1>2, <2>2, RaisePlaced DEF Profile
  <2> QED
    BY <2>1, <2>2
<1>3. ASSUME NEW r \in Req, Query(r) PROVE Placed'
  <2>1. {"done", "dropped", "set"} \subseteq PlacesOf(r)
    BY <1>0, <1>3 DEF Query, PlacesOf, Final, Section
  <2>2. CASE tier \in DOMAIN Monthly /\ Free \in DOMAIN Limit
    BY <1>3, <2>1, <2>2 DEF Query, Goto, Placed, TypeOK, PlacesOf
  <2>3. CASE ~(tier \in DOMAIN Monthly /\ Free \in DOMAIN Limit)
    BY <1>0, <1>3, <2>1, <2>3, MovePlaced DEF Query, Goto
  <2> QED
    BY <2>2, <2>3
<1>4. ASSUME NEW r \in Req, Acquire(r) PROVE Placed'
  <2>1. (IF r \in Use THEN "read" ELSE "update") \in PlacesOf(r)
    BY <1>0, <1>4 DEF Acquire, PlacesOf, Final, Section
  <2> QED
    BY <1>0, <1>4, <2>1, MovePlaced DEF Acquire, Goto
<1>5. ASSUME NEW r \in Req, Busy(r) PROVE Placed'
  BY <1>5, RaisePlaced DEF Busy, Placed, PlacesOf
<1>6. ASSUME NEW r \in Req, Read(r) PROVE Placed'
  <2>1. "unwind" \in PlacesOf(r) /\ "update" \in PlacesOf(r)
    BY <1>0, <1>6 DEF Read, PlacesOf, Final, Section
  <2> QED
    BY <1>0, <1>6, <2>1, MovePlaced DEF Read, Goto
<1>7. ASSUME NEW r \in Req, Update(r) PROVE Placed'
  <2>1. (IF InSection(r) THEN "leave" ELSE "done") \in PlacesOf(r)
    BY <1>0, <1>7 DEF Update, PlacesOf, Final, Section, InSection, Locking
  <2> QED
    BY <1>0, <1>7, <2>1, MovePlaced DEF Update, Goto
<1>8. ASSUME NEW r \in Req, Release(r) PROVE Placed'
  <2>1. CASE pc[r] = "leave"
    <3>1. "done" \in PlacesOf(r)
      BY DEF PlacesOf, Final
    <3> QED
      BY <1>0, <1>8, <2>1, <3>1, MovePlaced DEF Release, Goto
  <2>2. CASE pc[r] # "leave"
    BY <1>8, <2>2, RaisePlaced DEF Release
  <2> QED
    BY <2>1, <2>2
<1>9. ASSUME NEW r \in Req, AcquireFails(r) PROVE Placed'
  BY <1>9, RaisePlaced DEF AcquireFails
<1>10. ASSUME NEW r \in Req, StoreFails(r) PROVE Placed'
  <2>1. CASE InSection(r)
    <3>1. "unwind" \in PlacesOf(r)
      BY <2>1 DEF PlacesOf, Section, InSection, Locking
    <3> QED
      BY <1>0, <1>10, <2>1, <3>1, MovePlaced DEF StoreFails, Goto
  <2>2. CASE ~InSection(r)
    BY <1>10, <2>2, RaisePlaced DEF StoreFails
  <2> QED
    BY <2>1, <2>2
<1>11. ASSUME NEW r \in Req, Crash(r) PROVE Placed'
  <2>1. "dead" \in PlacesOf(r)
    BY DEF PlacesOf, Final
  <2> QED
    BY <1>0, <1>11, <2>1, MovePlaced DEF Crash, Goto
<1>12. ASSUME UNCHANGED <<pc, seen>> PROVE Placed'
  BY <1>12 DEF Placed, PlacesOf
<1> QED
  BY <1>1, <1>2, <1>3, <1>4, <1>5, <1>6, <1>7, <1>8, <1>9, <1>10, <1>11, <1>12
  DEF Next, Step, Terminated, Lapse, NewDay, vars

LEMMA AlwaysPlaced == Spec => []Placed
<1>1. Init => Placed
  BY DEF Init, Placed, PlacesOf, Entry, Section, Req, Final
<1> QED
  BY <1>1, LockTypeCorrect, StepPlaced, PTL DEF Spec

-----------------------------------------------------------------------------
(* The lock *)

\* A step of r leaves r outside the section and the others where they are.
Leaves(r) ==
  /\ \A q \in Req : q # r => pc'[q] = pc[q]
  /\ r \in Locking => pc'[r] \notin Section

LEMMA RaiseLeaves ==
  ASSUME TypeOK, NEW r \in Req, Raise(r)
  PROVE  Leaves(r)
<1>1. PICK l \in {Entry(r), "failed", "dropped"} : pc' = [pc EXCEPT ![r] = l]
  BY RaiseEffect
<1>2. r \in Locking => l \notin Section
  BY <1>1 DEF Entry, Section, Locking
<1> QED
  BY <1>1, <1>2 DEF TypeOK, Leaves

\* A request that leaves the section takes the key from nobody who has it.
LEMMA LeavesKey ==
  ASSUME HolderKeepsKey, NEW r \in Req, Leaves(r), expired' = expired,
         \A q \in Req : q # r /\ key = q => key' = q
  PROVE  HolderKeepsKey'
BY DEF HolderKeepsKey, InSection, Leaves

\* A request that moves in the section, or that does not lock, takes no key.
LEMMA MovesKey ==
  ASSUME TypeOK, HolderKeepsKey, NEW r \in Req, NEW l,
         Goto(r, l), InSection(r) \/ r \notin Locking \/ l \notin Section,
         UNCHANGED lockVars
  PROVE  HolderKeepsKey'
BY DEF TypeOK, Goto, HolderKeepsKey, InSection, lockVars

LEMMA StepHolder == TypeOK /\ HolderKeepsKey /\ [Next]_vars => HolderKeepsKey'
<1> SUFFICES ASSUME TypeOK, HolderKeepsKey, [Next]_vars PROVE HolderKeepsKey'
  OBVIOUS
<1>1. ASSUME NEW r \in Req, Raise(r), UNCHANGED lockVars PROVE HolderKeepsKey'
  BY <1>1, RaiseLeaves, LeavesKey DEF lockVars
<1>2. ASSUME NEW r \in Req, GetSpend(r) PROVE HolderKeepsKey'
  <2>1. "profile" \notin Section
    BY DEF Section
  <2> QED
    BY <1>1, <1>2, <2>1, MovesKey DEF GetSpend
<1>3. ASSUME NEW r \in Req, Profile(r) PROVE HolderKeepsKey'
  <2>1. (IF seen[r] + Cost <= LimitOf(tier) THEN "allow" ELSE "lock") \notin Section
    BY DEF Section
  <2> QED
    BY <1>1, <1>3, <2>1, MovesKey DEF Profile
<1>4. ASSUME NEW r \in Req, Query(r) PROVE HolderKeepsKey'
  <2>1. \A l \in {"done", "dropped", "set"} : l \notin Section
    BY DEF Section
  <2> QED
    BY <1>4, <2>1, MovesKey DEF Query
<1>5. ASSUME NEW r \in Req, Acquire(r) PROVE HolderKeepsKey'
  <2>1. \A q \in Req : q # r => pc'[q] = pc[q]
    BY <1>5 DEF TypeOK, Acquire, Goto
  <2> QED
    BY <1>5, <2>1 DEF HolderKeepsKey, InSection, Acquire, Locking
<1>6. ASSUME NEW r \in Req, Busy(r) PROVE HolderKeepsKey'
  <2>1. CASE tries[r] > 1
    BY <1>6, <2>1 DEF Busy, HolderKeepsKey, InSection, lockVars
  <2>2. CASE ~(tries[r] > 1)
    BY <1>1, <1>6, <2>2 DEF Busy
  <2> QED
    BY <2>1, <2>2
<1>7. ASSUME NEW r \in Req, Read(r) PROVE HolderKeepsKey'
  <2>1. InSection(r) \/ r \notin Locking
    BY <1>7 DEF Read, InSection, Section
  <2> QED
    BY <1>7, <2>1, MovesKey DEF Read
<1>8. ASSUME NEW r \in Req, Update(r) PROVE HolderKeepsKey'
  <2>1. "done" \notin Section
    BY DEF Section
  <2>2. CASE InSection(r)
    BY <1>8, <2>2, MovesKey DEF Update
  <2>3. CASE ~InSection(r)
    BY <1>8, <2>1, <2>3, MovesKey DEF Update
  <2> QED
    BY <2>2, <2>3
<1>9. ASSUME NEW r \in Req, Release(r) PROVE HolderKeepsKey'
  <2>1. Leaves(r)
    <3>1. CASE pc[r] = "leave"
      BY <1>9, <3>1 DEF TypeOK, Release, Goto, Leaves, Section
    <3>2. CASE pc[r] # "leave"
      BY <1>9, <3>2, RaiseLeaves DEF Release
    <3> QED
      BY <3>1, <3>2
  <2>2. \A q \in Req : q # r /\ key = q => key' = q
    BY <1>9 DEF Release, Delete
  <2> QED
    BY <1>9, <2>1, <2>2, LeavesKey DEF Release
<1>10. ASSUME NEW r \in Req, AcquireFails(r) PROVE HolderKeepsKey'
  <2>1. \A q \in Req : q # r /\ key = q => key' = q
    BY <1>10 DEF AcquireFails, Req
  <2> QED
    BY <1>10, <2>1, RaiseLeaves, LeavesKey DEF AcquireFails
<1>11. ASSUME NEW r \in Req, StoreFails(r) PROVE HolderKeepsKey'
  <2>1. CASE InSection(r)
    BY <1>11, <2>1, MovesKey DEF StoreFails
  <2>2. CASE ~InSection(r)
    BY <1>1, <1>11, <2>2 DEF StoreFails
  <2> QED
    BY <2>1, <2>2
<1>12. ASSUME NEW r \in Req, Crash(r) PROVE HolderKeepsKey'
  <2>1. "dead" \notin Section
    BY DEF Section
  <2> QED
    BY <1>12, <2>1, MovesKey DEF Crash
<1>13. ASSUME Lapse PROVE HolderKeepsKey'
  BY <1>13 DEF Lapse, HolderKeepsKey, InSection
<1>14. ASSUME UNCHANGED <<lockVars, pc>> PROVE HolderKeepsKey'
  BY <1>14 DEF HolderKeepsKey, InSection, lockVars
<1> QED
  BY <1>2, <1>3, <1>4, <1>5, <1>6, <1>7, <1>8, <1>9, <1>10, <1>11, <1>12, <1>13,
     <1>14
  DEF Next, Step, Terminated, NewDay, vars, lockVars

\* However many requests, errors and crashes there are, and however often a
\* key lapses: a holder in time has the key, so no release deletes the key of
\* another holder.
THEOREM HoldersKeepTheKey == Spec => []HolderKeepsKey
<1>1. Init => HolderKeepsKey
  BY DEF Init, HolderKeepsKey, InSection, Entry, Locking, Section
<1> QED
  BY <1>1, LockTypeCorrect, StepHolder, PTL DEF Spec

-----------------------------------------------------------------------------
(* The charges *)

\* How often a request has been applied at each place of the code.
Counted ==
  \A r \in Req :
    /\ pc[r] = "leave" \/ (pc[r] = "done" /\ r \notin Reset) => times[r] = 1
    /\ pc[r] \notin {"leave", "done", "dead"} => times[r] = 0

\* A move between places before the charge.
LEMMA MoveCounted ==
  ASSUME TypeOK, Counted, NEW r \in Req, NEW l,
         times[r] = 0, pc' = [pc EXCEPT ![r] = l], times' = times,
         l # "leave", l = "done" => r \in Reset
  PROVE  Counted'
BY DEF TypeOK, Counted

LEMMA RaiseCounted ==
  ASSUME TypeOK, Counted, NEW r \in Req, times[r] = 0, Raise(r), times' = times
  PROVE  Counted'
<1>1. PICK l \in {Entry(r), "failed", "dropped"} : pc' = [pc EXCEPT ![r] = l]
  BY RaiseEffect
<1>2. l # "leave" /\ l # "done"
  BY <1>1 DEF Entry
<1> QED
  BY <1>1, <1>2, MoveCounted

LEMMA StepCounted ==
  ASSUME ~Ambiguous, TypeOK, Placed, Counted, [Next]_vars
  PROVE  Counted'
<1> USE DEF books
<1>1. ASSUME NEW r \in Req, GetSpend(r) PROVE Counted'
  <2>1. times[r] = 0 /\ times' = times
    BY <1>1 DEF GetSpend, Counted
  <2> QED
    BY <1>1, <2>1, MoveCounted, RaiseCounted DEF GetSpend, Goto
<1>2. ASSUME NEW r \in Req, Profile(r) PROVE Counted'
  <2>1. times[r] = 0 /\ times' = times
    BY <1>2 DEF Profile, Counted
  <2> QED
    BY <1>2, <2>1, MoveCounted, RaiseCounted DEF Profile, Goto
<1>3. ASSUME NEW r \in Req, Query(r) PROVE Counted'
  <2>1. times[r] = 0 /\ times' = times
    BY <1>3 DEF Query, Counted
  <2>2. r \in Reset
    BY <1>3 DEF Query, Placed, PlacesOf, Final, Section, Req
  <2> QED
    BY <1>3, <2>1, <2>2, MoveCounted DEF Query, Goto
<1>4. ASSUME NEW r \in Req, Acquire(r) PROVE Counted'
  <2>1. times[r] = 0 /\ times' = times
    BY <1>4 DEF Acquire, Counted
  <2> QED
    BY <1>4, <2>1, MoveCounted DEF Acquire, Goto
<1>5. ASSUME NEW r \in Req, Busy(r) PROVE Counted'
  <2>1. times[r] = 0 /\ times' = times
    BY <1>5 DEF Busy, Counted
  <2> QED
    BY <1>5, <2>1, RaiseCounted DEF Busy, Counted
<1>6. ASSUME NEW r \in Req, Read(r) PROVE Counted'
  <2>1. times[r] = 0 /\ times' = times
    BY <1>6 DEF Read, Counted
  <2> QED
    BY <1>6, <2>1, MoveCounted DEF Read, Goto
<1>7. ASSUME NEW r \in Req, Update(r) PROVE Counted'
  <2>1. times[r] = 0 /\ times' = [times EXCEPT ![r] = @ + 1]
    BY <1>7 DEF Update, Apply, Counted
  <2>2. PICK l \in {"leave", "done"} : pc' = [pc EXCEPT ![r] = l]
    BY <1>7 DEF Update, Goto
  <2> QED
    BY <2>1, <2>2 DEF TypeOK, Counted
<1>8. ASSUME NEW r \in Req, Release(r) PROVE Counted'
  <2>1. CASE pc[r] = "leave"
    <3>1. times[r] = 1 /\ times' = times /\ pc' = [pc EXCEPT ![r] = "done"]
      BY <1>8, <2>1 DEF Release, Goto, Counted
    <3> QED
      BY <3>1 DEF TypeOK, Counted
  <2>2. CASE pc[r] # "leave"
    <3>1. times[r] = 0 /\ times' = times
      BY <1>8, <2>2 DEF Release, Counted
    <3> QED
      BY <1>8, <2>2, <3>1, RaiseCounted DEF Release
  <2> QED
    BY <2>1, <2>2
<1>9. ASSUME NEW r \in Req, AcquireFails(r) PROVE Counted'
  <2>1. times[r] = 0 /\ times' = times
    BY <1>9 DEF AcquireFails, Counted
  <2> QED
    BY <1>9, <2>1, RaiseCounted DEF AcquireFails
<1>10. ASSUME NEW r \in Req, StoreFails(r) PROVE Counted'
  <2>1. times' = times /\ times[r] = 0
    BY <1>10 DEF StoreFails, Counted
  <2>2. CASE InSection(r)
    BY <1>10, <2>1, <2>2, MoveCounted DEF StoreFails, Goto
  <2>3. CASE ~InSection(r)
    BY <1>10, <2>1, <2>3, RaiseCounted DEF StoreFails
  <2> QED
    BY <2>2, <2>3
<1>11. ASSUME NEW r \in Req, Crash(r) PROVE Counted'
  BY <1>11 DEF TypeOK, Counted, Crash, Goto
<1>12. ASSUME UNCHANGED <<pc, times>> PROVE Counted'
  BY <1>12 DEF Counted
<1> QED
  BY <1>1, <1>2, <1>3, <1>4, <1>5, <1>6, <1>7, <1>8, <1>9, <1>10, <1>11, <1>12
  DEF Next, Step, Terminated, Lapse, NewDay, vars

\* As long as an update that raises has not been applied, whatever was retried
\* and wherever the retry ended up: an answered request was charged once, from
\* the allowance or the credits, and a refused one never.
THEOREM AnswersMatchCharges ==
  ASSUME ~Ambiguous
  PROVE  Spec => []AnswerMatchesCharge
<1>1. Init => Counted
  BY DEF Init, Counted, Entry
<1>2. Counted => AnswerMatchesCharge
  BY DEF Counted, AnswerMatchesCharge
<1>3. TypeOK /\ Placed /\ Counted /\ [Next]_vars => Counted'
  BY StepCounted
<1> QED
  BY <1>1, <1>2, <1>3, LockTypeCorrect, AlwaysPlaced, PTL DEF Spec

-----------------------------------------------------------------------------
(* The account *)

\* A use about to charge still has the credits it read.
Covered ==
  \A r \in Use :
    pc[r] = "update" /\ expired = {} /\ ~overwritten => credits >= Cost

\* A step that moves no use to its update and takes nothing.
LEMMA StaysCovered ==
  ASSUME TypeOK, TypeOK', Covered, expired \subseteq expired', credits' >= credits,
         overwritten => overwritten',
         \A r \in Use : pc'[r] = "update" => pc[r] = "update"
  PROVE  Covered'
<1> SUFFICES ASSUME NEW r \in Use, pc'[r] = "update", expired' = {}, ~overwritten'
             PROVE  credits' >= Cost
  BY DEF Covered
<1>1. credits >= Cost
  BY DEF Covered
<1>2. credits \in Int /\ credits' \in Int /\ Cost \in Int
  BY DEF TypeOK
<1> QED
  BY <1>1, <1>2

LEMMA RaiseStays ==
  ASSUME TypeOK, NEW r \in Req, Raise(r)
  PROVE  \A q \in Use : pc'[q] = "update" => pc[q] = "update"
<1>1. PICK l \in {Entry(r), "failed", "dropped"} : pc' = [pc EXCEPT ![r] = l]
  BY RaiseEffect
<1>2. r \in Use => l # "update"
  BY <1>1 DEF Entry
<1> QED
  BY <1>1, <1>2 DEF TypeOK, Req

\* While one use is in the section and nobody has overstayed, no other
\* request of the lock is.
LEMMA AloneInSection ==
  ASSUME HolderKeepsKey, expired = {}, NEW r \in Req, NEW q \in Req,
         InSection(r), InSection(q)
  PROVE  q = r
BY DEF HolderKeepsKey

\* A write takes from no use what it has read.
LEMMA ApplyCovered ==
  ASSUME TypeOK, TypeOK', Placed, HolderKeepsKey, Covered, NEW r \in Req, Apply(r),
         UNCHANGED lockVars,
         \A q \in Use : pc'[q] = "update" => pc[q] = "update" /\ q # r
  PROVE  Covered'
<1>1. CASE pc[r] = "allow"
  <2>1. credits' = credits /\ overwritten' = overwritten /\ credits >= credits
    BY <1>1 DEF Apply, TypeOK
  <2> QED
    BY <2>1, StaysCovered DEF lockVars
<1>2. CASE pc[r] = "update"
  <2> SUFFICES ASSUME NEW q \in Use, pc'[q] = "update", expired = {}, ~overwritten'
               PROVE  credits' >= Cost
    BY DEF Covered, lockVars
  <2>1. overwritten' = overwritten
    BY <1>2 DEF Apply
  <2>2. pc[q] = "update" /\ q # r /\ credits >= Cost /\ q \in Req
    BY <2>1 DEF Covered, Req
  <2>3. r \notin Use
    BY <1>2, <2>2, AloneInSection DEF InSection, Section, Locking
  <2>4. credits' = credits + (IF r \in Refund THEN Amount ELSE Bonus)
    BY <1>2, <2>3 DEF Apply, Change
  <2> QED
    BY <2>2, <2>4 DEF TypeOK
<1>3. CASE pc[r] = "set"
  <2>1. overwritten' = (overwritten \/ \E u \in Use : pc[u] = "update")
    BY <1>3 DEF Apply
  <2> QED
    BY <2>1 DEF Covered
<1> QED
  BY <1>1, <1>2, <1>3 DEF Apply

LEMMA StepCovered ==
  ASSUME TypeOK, Placed, HolderKeepsKey, Covered, [Next]_vars
  PROVE  Covered'
<1> DEFINE moves == \A q \in Use : pc'[q] = "update" => pc[q] = "update"
<1>0. /\ credits >= credits /\ Use \subseteq Req /\ TypeOK'
      /\ pc \in [Req -> Places]
  BY StepTypes DEF TypeOK, Req, Places
<1>1. ASSUME UNCHANGED <<credits, overwritten>>, expired \subseteq expired', moves
      PROVE  Covered'
  BY <1>0, <1>1, StaysCovered
<1>2. ASSUME NEW r \in Req, NEW l, Goto(r, l), l # "update" PROVE moves
  BY <1>0, <1>2 DEF Goto
<1>3. ASSUME NEW r \in Req, GetSpend(r) PROVE Covered'
  <2>1. moves
    BY <1>2, <1>3, RaiseStays DEF GetSpend
  <2> QED
    BY <1>1, <1>3, <2>1 DEF GetSpend, books, lockVars
<1>4. ASSUME NEW r \in Req, Profile(r) PROVE Covered'
  <2>1. moves
    BY <1>2, <1>4, RaiseStays DEF Profile
  <2> QED
    BY <1>1, <1>4, <2>1 DEF Profile, books, lockVars
<1>5. ASSUME NEW r \in Req, Query(r) PROVE Covered'
  <2>1. moves
    BY <1>2, <1>5 DEF Query
  <2> QED
    BY <1>1, <1>5, <2>1 DEF Query, books, lockVars
<1>6. ASSUME NEW r \in Req, Acquire(r) PROVE Covered'
  <2>1. moves
    BY <1>0, <1>6 DEF Acquire, Goto
  <2> QED
    BY <1>1, <1>6, <2>1 DEF Acquire, books
<1>7. ASSUME NEW r \in Req, Busy(r) PROVE Covered'
  <2>1. moves
    BY <1>7, RaiseStays DEF Busy
  <2> QED
    BY <1>1, <1>7, <2>1 DEF Busy, books, lockVars
<1>8. ASSUME NEW r \in Req, Read(r) PROVE Covered'
  BY <1>0, <1>8 DEF Covered, Read, Goto, lockVars, books, TypeOK
<1>9. ASSUME NEW r \in Req, Update(r) PROVE Covered'
  <2>1. \A q \in Use : pc'[q] = "update" => pc[q] = "update" /\ q # r
    BY <1>0, <1>9 DEF Update, Goto
  <2> QED
    BY <1>0, <1>9, <2>1, ApplyCovered DEF Update
<1>10. ASSUME NEW r \in Req, Release(r) PROVE Covered'
  <2>1. moves
    BY <1>2, <1>10, RaiseStays DEF Release
  <2> QED
    BY <1>1, <1>10, <2>1 DEF Release, books
<1>11. ASSUME NEW r \in Req, AcquireFails(r) PROVE Covered'
  <2>1. moves
    BY <1>11, RaiseStays DEF AcquireFails
  <2> QED
    BY <1>1, <1>11, <2>1 DEF AcquireFails, books
<1>12. ASSUME NEW r \in Req, StoreFails(r) PROVE Covered'
  <2>1. \A q \in Use : pc'[q] = "update" => pc[q] = "update" /\ q # r
    <3>1. CASE InSection(r)
      BY <1>0, <1>12, <3>1 DEF StoreFails, Goto
    <3>2. CASE ~InSection(r)
      <4>1. Raise(r)
        BY <1>12, <3>2 DEF StoreFails
      <4>2. r \in Use => pc[r] # "update"
        BY <3>2 DEF InSection, Locking, Section
      <4> QED
        BY <4>1, <4>2, RaiseStays
    <3> QED
      BY <3>1, <3>2
  <2>2. CASE Apply(r)
    BY <1>0, <1>12, <2>1, <2>2, ApplyCovered DEF StoreFails
  <2>3. CASE UNCHANGED books
    BY <1>1, <1>12, <2>1, <2>3 DEF StoreFails, books, lockVars
  <2> QED
    BY <1>12, <2>2, <2>3 DEF StoreFails
<1>13. ASSUME NEW r \in Req, Crash(r) PROVE Covered'
  <2>1. moves
    BY <1>2, <1>13 DEF Crash
  <2> QED
    BY <1>1, <1>13, <2>1 DEF Crash, books, lockVars
<1>14. ASSUME Lapse PROVE Covered'
  BY <1>1, <1>14 DEF Lapse, books
<1>15. ASSUME NewDay PROVE Covered'
  BY <1>1, <1>15 DEF NewDay, lockVars
<1>16. ASSUME UNCHANGED vars PROVE Covered'
  BY <1>1, <1>16 DEF vars
<1> QED
  BY <1>3, <1>4, <1>5, <1>6, <1>7, <1>8, <1>9, <1>10, <1>11, <1>12, <1>13, <1>14,
     <1>15, <1>16
  DEF Next, Step, Terminated

LEMMA StepAbstract ==
  ASSUME ~Ambiguous,
         TypeOK, Placed, Counted, Covered, [Next]_vars
  PROVE  [Abstract!Next]_(Abstract!accountVars)
<1> DEFINE settled == {r \in Req : times[r] > 0}
           stutter == UNCHANGED <<credits, spend, times, expired, overwritten>>
<1>1. ASSUME stutter PROVE [Abstract!Next]_(Abstract!accountVars)
  BY <1>1 DEF Abstract!accountVars
<1>2. ASSUME NEW r \in Req, Update(r) PROVE Abstract!Next
  <2>1. times[r] = 0 /\ Apply(r) /\ UNCHANGED expired /\ pc[r] \in PlacesOf(r)
    BY <1>2 DEF Update, Counted, lockVars, Placed
  <2>2. Abstract!Settle(r)
    <3>1. r \notin settled /\ settled' = settled \cup {r}
      BY <2>1 DEF TypeOK, Apply
    <3> QED
      BY <3>1 DEF Abstract!Settle
  <2>3. CASE pc[r] = "allow"
    <3>1. r \in Use
      BY <2>1, <2>3 DEF PlacesOf, Section, Final
    <3>2. Abstract!Allow(r)
      BY <2>1, <2>2, <2>3 DEF Abstract!Allow, Apply
    <3> QED
      BY <3>1, <3>2 DEF Abstract!Next
  <2>4. CASE pc[r] = "update"
    <3>1. /\ credits' = credits + Abstract!Change(r)
          /\ UNCHANGED <<spend, expired, overwritten>>
      BY <2>1, <2>4 DEF Apply, Change, Abstract!Change
    <3>2. CASE r \in Use
      <4>1. (expired # {} \/ overwritten) \/ credits >= Cost
        BY <2>4, <3>2 DEF Covered
      <4>2. Abstract!Spend(r)
        BY <2>2, <3>1, <4>1 DEF Abstract!Spend
      <4> QED
        BY <3>2, <4>2 DEF Abstract!Next
    <3>3. CASE r \notin Use
      <4>1. r \in Refund \cup Verify
        BY <2>1, <2>4, <3>3 DEF PlacesOf, Final, Req
      <4>2. Abstract!Deposit(r)
        BY <2>2, <3>1 DEF Abstract!Deposit
      <4> QED
        BY <4>1, <4>2 DEF Abstract!Next
    <3> QED
      BY <3>2, <3>3
  <2>5. CASE pc[r] = "set"
    <3>1. r \in Reset
      BY <2>1, <2>5 DEF PlacesOf, Final, Section, Req
    <3>2. \E t \in DOMAIN Monthly : credits' = Monthly[t]
      BY <2>1, <2>5 DEF Apply, Placed
    <3>3. overwritten => overwritten'
      BY <2>1, <2>5 DEF Apply
    <3>4. spend' = spend
      BY <2>1, <2>5 DEF Apply
    <3>5. (expired # {} \/ overwritten)' \in {(expired # {} \/ overwritten), TRUE}
      <4>1. CASE expired # {} \/ overwritten
        BY <2>1, <3>3, <4>1
      <4>2. CASE ~(expired # {} \/ overwritten)
        BY <2>1, <4>2
      <4> QED
        BY <4>1, <4>2
    <3>6. Abstract!Replace(r)
      BY <2>2, <3>2, <3>4, <3>5 DEF Abstract!Replace
    <3> QED
      BY <3>1, <3>6 DEF Abstract!Next
  <2> QED
    BY <1>2, <2>3, <2>4, <2>5 DEF Update
<1>3. ASSUME Lapse PROVE [Abstract!Next]_(Abstract!accountVars)
  <2>1. credits' = credits /\ spend' = spend /\ settled' = settled
    BY <1>3 DEF Lapse, books
  <2>2. CASE InSection(key)
    <3>1. expired' # {}
      BY <1>3, <2>2 DEF Lapse
    <3> QED
      BY <2>1, <3>1 DEF Abstract!Next, Abstract!Overstay
  <2>3. CASE ~InSection(key)
    BY <1>3, <1>1, <2>3 DEF Lapse, books
  <2> QED
    BY <2>2, <2>3
<1>4. ASSUME NewDay PROVE Abstract!Next
  <2>1. settled' = settled /\ UNCHANGED <<credits, expired, overwritten>> /\ spend' = 0
    BY <1>4 DEF NewDay, lockVars
  <2> QED
    BY <2>1 DEF Abstract!Next, Abstract!NewDay
<1>5. ASSUME NEW r \in Req,
             \/ GetSpend(r) \/ Profile(r) \/ Query(r) \/ Acquire(r) \/ Busy(r) \/ Read(r)
             \/ Release(r) \/ AcquireFails(r) \/ StoreFails(r) \/ Crash(r)
      PROVE  stutter
  BY <1>5
  DEF GetSpend, Profile, Query, Acquire, Busy, Read, Release, AcquireFails, StoreFails,
      Crash, books, lockVars
<1>6. ASSUME UNCHANGED vars PROVE stutter
  BY <1>6 DEF vars
<1> QED
  BY <1>1, <1>2, <1>3, <1>4, <1>5, <1>6 DEF Next, Step, Terminated

\* As long as an update that raises has not been applied: every behaviour of
\* the requests, their retries, the lock and the faults is a behaviour of the
\* account, in which every request is settled at most once, from the allowance
\* or from the balance, and no use takes what is not there unless somebody
\* overstayed or a reset came in between.
THEOREM AccountImplemented ==
  ASSUME ~Ambiguous
  PROVE  Spec => ImplementsAccount
<1>1. Init => Abstract!Init /\ Counted /\ Covered
  <2> SUFFICES ASSUME Init PROVE Abstract!Init /\ Counted /\ Covered
    OBVIOUS
  <2>1. {r \in Req : times[r] > 0} = {}
    BY DEF Init
  <2>2. Abstract!Init
    BY <2>1 DEF Init, Abstract!Init
  <2>3. Counted /\ Covered
    BY DEF Init, Counted, Covered, Entry, Req
  <2> QED
    BY <2>2, <2>3
<1>2. TypeOK /\ Placed /\ HolderKeepsKey /\ Counted /\ Covered /\ [Next]_vars
        => Counted' /\ Covered' /\ [Abstract!Next]_(Abstract!accountVars)
  BY StepCounted, StepCovered, StepAbstract
<1> QED
  BY <1>1, <1>2, LockTypeCorrect, AlwaysPlaced, HoldersKeepTheKey, PTL
  DEF Spec, ImplementsAccount, Abstract!Spec

=============================================================================
