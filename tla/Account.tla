------------------------------- MODULE Account -------------------------------
(***************************************************************************)
(* What the credit account of a user promises to its callers: every        *)
(* request is settled at most once and in one step, a use either from the  *)
(* allowance of the day or from the balance, and no use takes more than    *)
(* there is, as long as nobody held the account's lock longer than the     *)
(* lock lives and no monthly reset, which takes no lock, came in between.  *)
(* CreditLock implements it.                                               *)
(***************************************************************************)
EXTENDS Integers

CONSTANTS
  Use,          \* requests that spend credits
  Refund,       \* requests that give back what a failed task took
  Verify,       \* requests that add the bonus of a verified payment
  Reset,        \* monthly resets
  Opening,      \* the credits before the first request
  Cost, Amount, Bonus,
  Monthly       \* the credits a reset leaves, of each tier that is reset

VARIABLES
  balance,      \* the user's credits
  spent,        \* what the day's allowance has paid for
  settled,      \* the requests that have changed either
  disturbed     \* the lock has not protected the balance all the time

accountVars == <<balance, spent, settled, disturbed>>

\* What request r adds to the balance.
Change(r) == IF r \in Use THEN -Cost ELSE IF r \in Refund THEN Amount ELSE Bonus

Init ==
  /\ balance = Opening
  /\ spent = 0
  /\ settled = {}
  /\ disturbed = FALSE

Settle(r) == r \notin settled /\ settled' = settled \cup {r}

\* A refund or a payment.
Deposit(r) ==
  /\ Settle(r)
  /\ balance' = balance + Change(r)
  /\ UNCHANGED <<spent, disturbed>>

\* A use needs the credits it takes.
Spend(r) ==
  /\ disturbed \/ balance >= Cost
  /\ Settle(r)
  /\ balance' = balance + Change(r)
  /\ UNCHANGED <<spent, disturbed>>

\* The allowance pays: the balance stays.  Its limit is compared with what
\* was spent a moment ago, so it is no promise.
Allow(r) ==
  /\ Settle(r)
  /\ spent' = spent + Cost
  /\ UNCHANGED <<balance, disturbed>>

\* The balance of a month, whatever there was.
Replace(r) ==
  /\ Settle(r)
  /\ \E t \in DOMAIN Monthly : balance' = Monthly[t]
  /\ disturbed' \in {disturbed, TRUE}
  /\ UNCHANGED spent

Overstay == disturbed' = TRUE /\ UNCHANGED <<balance, spent, settled>>

NewDay == spent' = 0 /\ UNCHANGED <<balance, settled, disturbed>>

Next ==
  \/ \E r \in Use : Spend(r) \/ Allow(r)
  \/ \E r \in Refund \cup Verify : Deposit(r)
  \/ \E r \in Reset : Replace(r)
  \/ Overstay
  \/ NewDay

Spec == Init /\ [][Next]_accountVars

=============================================================================
