SPECIFICATION FairSpec
CONSTANTS
  Use = {u1, u2}
  Refund = {f1}
  Verify = {v1}
  Reset = {m1}
  NoReq = NoReq
  Opening = 3
  Cost = 2
  Amount = 1
  Bonus = 1
  First = "free"
  Plan = "pro"
  Free = "free"
  Limit <- TiersWithFree
  Monthly <- MonthOfPro
  SpendReads = TRUE
  Attempts = 2
  Tries = 2
  MaxFaults = 1
  Timely = FALSE
  Ambiguous = FALSE
INVARIANT TypeOK
INVARIANT HolderKeepsKey
INVARIANT AnswerMatchesCharge
PROPERTY ImplementsAccount
PROPERTY Settles
