-------------------------- MODULE LendingProperties --------------------------
(***************************************************************************)
(* What the token lending program has to guarantee.                        *)
(***************************************************************************)
EXTENDS Lending

\* Type correctness; in particular no amount or balance ever becomes negative
\* and what the program keeps as u64 stays in u64.
TypeOK ==
    /\ slot \in 0 .. MaxSlot /\ market_owner \in People \cup {None}
    /\ oracle \in [Reserves -> [quote : Quote, valid_slot : 0 .. MaxSlot]]
    /\ reserve \in [Reserves -> [initialized : BOOLEAN, slot : 0 .. MaxSlot,
                                 stale : BOOLEAN, available : Amounts, borrowed : Nat,
                                 cumulative_rate : Nat, price : Nat, supply : Amounts,
                                 config : Config]]
    /\ liquidity \in [Reserves -> [supply : Nat, fees : Nat, hosts : Nat, others : Nat]]
    /\ collateral \in [Reserves -> [users : Nat, pledged : Nat]]

-----------------------------------------------------------------------------
(* Tokens *)

\* The liquidity a reserve counts as available is in its supply account,
\* whatever was borrowed, paid as a fee, flash-loaned or rounded.
LiquidityBacked == \A r \in Reserves : reserve[r].available <= liquidity[r].supply

\* The collateral supply account holds exactly what the obligations have
\* deposited, and the supply that prices are computed with is never below the
\* collateral tokens that exist, although holders may burn theirs.
CollateralBacked ==
    \A r \in Reserves :
        LET deposited(o) == IF r \in DOMAIN obligation[o].deposits
                            THEN obligation[o].deposits[r].amount ELSE 0
        IN  /\ collateral[r].pledged = MapThenSumSet(deposited, Obligations)
            /\ collateral[r].users + collateral[r].pledged <= reserve[r].supply

-----------------------------------------------------------------------------
(* Depositors *)

\* A step that writes off debt of reserve r: a liquidation that is paid less
\* than it settles.
WritesOff(r) ==
    /\ reserve[r].borrowed > reserve'[r].borrowed
    /\ Decimal(reserve'[r].available - reserve[r].available)
          < reserve[r].borrowed - reserve'[r].borrowed

\* Collateral tokens keep their worth: with T the liquidity of a reserve, lent
\* or not, and S the supply of its collateral token, S / T never rises above the
\* exchange rate the program computes, which is precise to 1 / Wad.  No deposit,
\* redemption, loan, repayment, fee or flash loan dilutes the other depositors;
\* only debt that a liquidation writes off does.
CollateralKeepsWorth ==
    [][\A r \in Reserves :
         LET v == reserve[r]
             w == reserve'[r]
         IN  v.initialized /\ (TotalLiquidity(v) > 0 \/ v.supply = 0) /\ ~WritesOff(r) =>
               Decimal(Decimal(w.supply))
                   <= (ExchangeRate(v) + 1) * TotalLiquidity(w)
                      + (IF w.supply < v.supply
                         THEN Div(Decimal(v.supply - w.supply), ExchangeRate(v)) ELSE 0)]_vars

-----------------------------------------------------------------------------
(* Borrowers *)

\* What obligation a owes and what its deposits allow it to owe, at given prices
\* and exchange rates.
Owed(a, at) ==
    LET value(r) == Mul(a.borrows[r].amount, at[r].price) \div Unit
    IN  MapThenSumSet(value, DOMAIN a.borrows)

Allowed(a, at) ==
    LET value(r) == Mul(Div(Decimal(a.deposits[r].amount), at[r].rate), at[r].price) \div Unit
        allowed(r) == Mul(value(r), Percent(reserve[r].config.loan_to_value_ratio))
    IN  MapThenSumSet(allowed, DOMAIN a.deposits)

\* Steps of the owner that make an obligation riskier: it borrows more, or takes
\* collateral back while it owes something.
TakesRisk(o) ==
    LET a == obligation[o]
        b == obligation'[o]
    IN  \/ \E r \in DOMAIN b.borrows :
              /\ b.borrows[r].amount > LiquidityOf(a, r).amount
              /\ LiquidityOf(a, r).cumulative_rate = b.borrows[r].cumulative_rate
        \/ /\ a.borrows = b.borrows /\ a.borrows # NoEntries
           /\ \E r \in DOMAIN a.deposits : CollateralOf(b, r).amount < a.deposits[r].amount

\* The debt of an obligation in r and its collateral in w that a step takes.
Settled(o, r) == LiquidityOf(obligation[o], r).amount - LiquidityOf(obligation'[o], r).amount
Taken(o, w) == CollateralOf(obligation[o], w).amount - CollateralOf(obligation'[o], w).amount

\* A liquidation takes collateral worth no more than the debt it settles and the
\* bonus; it settles at most the close factor of the debts, except for a debt
\* that is below the close amount; and it gives up at most a fraction of a token
\* of debt, unless it closes a small debt or takes all the collateral there is.
\* Values are compared to the precision of the computation.
LiquidationBounded ==
    [][\A o \in Obligations, r, w \in Reserves :
         LET a == obligation[o]
             b == LiquidityOf(a, r)
             d == CollateralOf(a, w)
             settled_value == (b.value * Settled(o, r)) \div b.amount
             taken_value == (d.value * Taken(o, w)) \div d.amount
             bonus == Wad + Percent(reserve[w].config.liquidation_bonus)
             paid == Decimal(reserve'[r].available - reserve[r].available)
         IN  Settled(o, r) > 0 /\ Taken(o, w) > 0 =>
               /\ taken_value <= Mul(settled_value, bonus) + 2 * (d.value \div Wad) + 2
               /\ \/ settled_value <= Mul(a.borrowed_value, Percent(CloseFactor)) + 1
                  \/ b.amount < Decimal(CloseAmount)
               /\ \/ Settled(o, r) - paid < Wad
                  \/ b.amount < Decimal(CloseAmount)
                  \/ Taken(o, w) = d.amount]_vars
=============================================================================
