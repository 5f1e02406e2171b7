---------------------------- MODULE UnlockBudget ----------------------------
(***************************************************************************)
(* What the lock-screen unlock feature promises about one lock cycle, and  *)
(* nothing about how it keeps the promise: at most FailureLimit failed     *)
(* recognitions are counted, none of them after the password was claimed,  *)
(* and the saved password is typed at most once, only after the claim.     *)
(* LockUnlock implements this specification (see UnlockImplementsBudget).  *)
(***************************************************************************)
EXTENDS Naturals

CONSTANT FailureLimit     \* positive: failed recognitions that spend a cycle's budget

VARIABLES
    failures,             \* failed recognitions counted in this cycle
    submitted,            \* the one submission of this cycle is claimed
    typed                 \* how many times the password was typed in it

budgetVars == <<failures, submitted, typed>>

BudgetInit ==
    /\ failures = 0
    /\ submitted = FALSE
    /\ typed = 0

Open == failures < FailureLimit /\ ~submitted

NewCycle ==
    /\ failures' = 0
    /\ submitted' = FALSE
    /\ typed' = 0

CountFailure ==
    /\ Open
    /\ failures' = failures + 1
    /\ UNCHANGED <<submitted, typed>>

Claim ==
    /\ Open
    /\ submitted' = TRUE
    /\ UNCHANGED <<failures, typed>>

TypePassword ==
    /\ submitted
    /\ typed = 0
    /\ typed' = 1
    /\ UNCHANGED <<failures, submitted>>

BudgetNext == NewCycle \/ CountFailure \/ Claim \/ TypePassword

BudgetSpec == BudgetInit /\ [][BudgetNext]_budgetVars
=============================================================================
