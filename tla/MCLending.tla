------------------------------ MODULE MCLending ------------------------------
(***************************************************************************)
(* The token lending program for TLC.                                      *)
(***************************************************************************)
EXTENDS LendingProperties, TLC

CONSTANT Budgets        \* bound: how many instructions of each kind are sent

VARIABLES
    left,               \* what is left of the budget
    seen                \* the prices and exchange rates an obligation was last
                        \* refreshed with

Spend(kind) == left[kind] > 0 /\ left' = [left EXCEPT ![kind] = @ - 1]

Current == [r \in Reserves |-> [price |-> reserve[r].price, rate |-> ExchangeRate(reserve[r])]]

MCInit ==
    /\ Init
    /\ left \in Budgets
    /\ seen = [o \in Obligations |-> Current]

\* The market is set up first.
MCNext ==
    \/ AdminNext /\ Spend("admin") /\ UNCHANGED seen
    \/ /\ left["admin"] = 0
       /\ \/ DepositorNext /\ Spend("depositor") /\ UNCHANGED seen
          \/ BorrowerNext /\ Spend("borrower") /\ UNCHANGED seen
          \/ ClusterNext /\ Spend("cluster") /\ UNCHANGED seen
          \/ \E r \in Reserves : RefreshReserve(r) /\ UNCHANGED <<left, seen>>
          \/ \E o \in Obligations : /\ RefreshObligation(o)
                                    /\ seen' = [seen EXCEPT ![o] = Current]
                                    /\ UNCHANGED left

MCSpec == MCInit /\ [][MCNext]_<<vars, left, seen>>

\* As long as no reserve has a new price since the refresh of an obligation, its
\* owner never borrows or withdraws beyond what the remaining collateral allows,
\* however many loans and withdrawals follow each other and whatever happens to
\* the reserves in between: the cached values that a loan is checked against
\* count every earlier one.  To the precision of the computation.
StaysHealthy ==
    [][\A o \in Obligations :
         TakesRisk(o) /\ (\A r \in Reserves : seen[o][r].price = reserve[r].price) =>
            Owed(obligation'[o], seen[o])
               <= Allowed(obligation'[o], seen[o]) + obligation[o].deposited_value \div Wad
                  + 2 * Cardinality(Reserves)]_<<vars, left, seen>>

Budget(admin, depositor, borrower, cluster) ==
    [admin |-> admin, depositor |-> depositor, borrower |-> borrower, cluster |-> cluster]

SmallBudgets == {Budget(4, 0, 3, 2), Budget(4, 1, 2, 1), Budget(3, 3, 0, 1)}

Reserve == Permutations(Reserves)

BaseConfig ==
    [optimal_utilization_rate |-> 80, loan_to_value_ratio |-> 50, liquidation_bonus |-> 10,
     liquidation_threshold |-> 60, min_borrow_rate |-> 0, optimal_borrow_rate |-> 20,
     max_borrow_rate |-> 100, borrow_fee |-> 0, flash_loan_fee |-> 0, host_fee |-> 0]
FeeConfig == [BaseConfig EXCEPT !.borrow_fee = 100, !.flash_loan_fee = 10, !.host_fee = 20]

SmallConfigs == {FeeConfig}

Quoted(p, e) == [price |-> p, expo |-> e, trading |-> TRUE]
SmallQuotes == {Quoted(1, 0), Quoted(5, -1)}
=============================================================================
