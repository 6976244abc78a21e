----------------------------- MODULE MCStakePool -----------------------------
(***************************************************************************)
(* The stake pool program for TLC.                                         *)
(***************************************************************************)
EXTENDS StakePoolProperties, TLC

CONSTANT Budgets        \* bound: how many instructions of each kind are sent

VARIABLE left           \* what is left of the budget

Spend(kind) == left[kind] > 0 /\ left' = [left EXCEPT ![kind] = @ - 1]

MCInit == Init /\ left \in Budgets

\* Updates and epochs cost nothing.
MCNext ==
    \/ TradeNext /\ Spend("trade")
    \/ StakerNext /\ Spend("staker")
    \/ ManagerNext /\ Spend("manager")
    \/ HolderNext /\ Spend("holder")
    \/ (UpdateNext \/ ClusterNext) /\ UNCHANGED left

MCSpec == MCInit /\ [][MCNext]_<<vars, left>>

Fee(n, d) == [num |-> n, den |-> d]

Budget(trade, staker, manager, holder) ==
    [trade |-> trade, staker |-> staker, manager |-> manager, holder |-> holder]

SmallBudgets ==
    {Budget(0, 4, 0, 0), Budget(1, 3, 0, 0), Budget(2, 2, 0, 1),
     Budget(2, 1, 1, 1), Budget(3, 1, 0, 0), Budget(1, 1, 2, 0)}

Validator == Permutations(Validators)

SmallDeposits == {[stake |-> 0, sol |-> 5], [stake |-> 4, sol |-> 1]}

FeesOf(epoch_fee, withdrawal, deposit, referral) ==
    [k \in FeeKinds |->
        CASE k = "epoch" -> epoch_fee
          [] k \in WithdrawalKinds -> withdrawal
          [] k \in {"stake_deposit", "sol_deposit"} -> deposit
          [] OTHER -> referral]

SomeFees == {FeesOf(Fee(1, 2), Fee(1, 3), Fee(1, 4), Fee(50, 100))}

SomeFeeChanges == {[kind |-> "sol_withdrawal", to |-> Fee(1, 2)],
                   [kind |-> "stake_withdrawal", to |-> Fee(2, 3)],
                   [kind |-> "sol_deposit", to |-> Fee(0, 0)]}
=============================================================================
