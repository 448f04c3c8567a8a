----------------------------- MODULE MCCreditLock -----------------------------
(***************************************************************************)
(* Instances of CreditLock for TLC.                                        *)
(***************************************************************************)
EXTENDS CreditLock, TLC

\* TIERS with the default that use_credits and the reset look up, which
\* config/system.py does not have (see README.md).  A use costs 2.
TiersWithFree == "free" :> 0 @@ "pro" :> 2
MonthOfPro == "pro" :> 1

=============================================================================
