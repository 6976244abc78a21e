------------------------------- MODULE Lending -------------------------------
(***************************************************************************)
(* The token lending program (token-lending/program/src): reserves lend    *)
(* out the liquidity deposited in them, for collateral tokens that stand   *)
(* for a share of the reserve; obligations pledge collateral tokens and    *)
(* borrow liquidity against them, and are liquidated when the value of the *)
(* loans comes too close to that of the collateral.                        *)
(*                                                                         *)
(* An action is an instruction that succeeds.  Decimals and rates are the  *)
(* integers the program stores: multiples of 1 / Wad.  Accounts of         *)
(* different roles are different accounts, whoever has to sign for its own *)
(* tokens may sign, and the liquidity of a reserve is a token of its own.  *)
(***************************************************************************)
EXTENDS Integers, FiniteSetsExt

CONSTANTS
    Reserves, Obligations,
    People,             \* who may own the lending market
    None,               \* nobody
    MaxU64,             \* u64::MAX
    Wad,                \* WAD
    Unit,               \* 10 ^ mint_decimals
    SlotsPerYear,       \* SLOTS_PER_YEAR
    CloseFactor,        \* LIQUIDATION_CLOSE_FACTOR, a percentage
    CloseAmount,        \* LIQUIDATION_CLOSE_AMOUNT
    MaxObligationReserves,  \* MAX_OBLIGATION_RESERVES
    OracleStaleAfter,   \* STALE_AFTER_SLOTS_ELAPSED of get_pyth_price
    MaxSlot,            \* bound: the last slot
    Inputs,             \* bound: the amounts instructions name
    Opening,            \* bound: the first deposits in a reserve
    Configs,            \* bound: reserve configurations
    Quotes,             \* bound: what the oracle says [price, expo, trading]
    Returns,            \* bound: what a receiver of a flash loan pays back
    Wallet              \* bound: liquidity outside the reserves at the start

Amounts == 0 .. MaxU64

Config == [optimal_utilization_rate : Nat, loan_to_value_ratio : Nat,
           liquidation_bonus : Nat, liquidation_threshold : Nat,
           min_borrow_rate : Nat, optimal_borrow_rate : Nat, max_borrow_rate : Nat,
           borrow_fee : Nat, flash_loan_fee : Nat, host_fee : Nat]
Quote == [price : Nat, expo : Int, trading : BOOLEAN]

ASSUME LendingAssumption ==
    /\ IsFiniteSet(Reserves) /\ IsFiniteSet(Obligations) /\ None \notin People
    /\ Wad \in Nat /\ Wad % 100 = 0 /\ Wad > 0
    /\ Unit \in Nat \ {0} /\ SlotsPerYear \in Nat \ {0}
    /\ CloseFactor \in 1 .. 100 /\ CloseAmount \in Nat /\ MaxU64 \in Nat
    /\ MaxObligationReserves \in Nat /\ OracleStaleAfter \in Nat /\ MaxSlot \in Nat
    /\ Inputs \subseteq Amounts /\ Opening \subseteq Amounts
    /\ Configs \subseteq Config /\ Quotes \subseteq Quote
    /\ Returns \subseteq Amounts /\ Wallet \in Amounts

VARIABLES
    slot,               \* Clock::slot
    market_owner,       \* LendingMarket::owner, None before it is initialized
    oracle,             \* the price accounts [quote, valid_slot]
    reserve,            \* the Reserve accounts
    obligation,         \* the Obligation accounts
    liquidity,          \* liquidity tokens: in the reserve's supply account, with
                        \* its fee receiver, hosts and all the others
    collateral          \* collateral tokens: with users, and in the collateral
                        \* supply account that holds the deposits of obligations

vars == <<slot, market_owner, oracle, reserve, obligation, liquidity, collateral>>

\* Definitions marked "Variant" are faulty versions of the definition that
\* follows; they serve to show that the properties notice the fault.

-----------------------------------------------------------------------------
(* Decimal and Rate *)

Decimal(n) == n * Wad
Percent(p) == p * (Wad \div 100)
Mul(a, b) == (a * b) \div Wad
Div(a, b) == (a * Wad) \div b
Floor(a) == a \div Wad
Ceil(a) == (Wad - 1 + a) \div Wad
Round(a) == (Wad \div 2 + a) \div Wad
Least(a, b) == IF a <= b THEN a ELSE b
Greatest(a, b) == IF a <= b THEN b ELSE a

\* Rate::try_pow: repeated squaring, each product rounded down.
Pow(rate, n) ==
    LET bit(i) == (n \div 2 ^ i) % 2 # 0
        square[i \in 0 .. n] == IF i = 0 THEN rate ELSE Mul(square[i - 1], square[i - 1])
        ret[i \in 0 .. n] ==
            IF i = 0 THEN IF bit(0) THEN rate ELSE Wad
            ELSE IF bit(i) THEN Mul(ret[i - 1], square[i]) ELSE ret[i - 1]
    IN  ret[n]

-----------------------------------------------------------------------------
(* Reserves *)

NoConfig == [optimal_utilization_rate |-> 0, loan_to_value_ratio |-> 0,
             liquidation_bonus |-> 0, liquidation_threshold |-> 0,
             min_borrow_rate |-> 0, optimal_borrow_rate |-> 0, max_borrow_rate |-> 0,
             borrow_fee |-> 0, flash_loan_fee |-> 0, host_fee |-> 0]

NoReserve == [initialized |-> FALSE, slot |-> 0, stale |-> FALSE, available |-> 0,
              borrowed |-> 0, cumulative_rate |-> 0, price |-> 0, supply |-> 0,
              config |-> NoConfig]

IsValidConfig(c) ==
    /\ c.optimal_utilization_rate <= 100
    /\ c.loan_to_value_ratio < 100
    /\ c.liquidation_bonus <= 100
    /\ c.loan_to_value_ratio < c.liquidation_threshold /\ c.liquidation_threshold <= 100
    /\ c.min_borrow_rate <= c.optimal_borrow_rate
    /\ c.optimal_borrow_rate <= c.max_borrow_rate
    /\ c.borrow_fee < Wad /\ c.flash_loan_fee < Wad
    /\ c.host_fee <= 100

\* LastUpdate::is_stale, of a reserve or an obligation.
IsStale(a) == a.stale \/ slot - a.slot >= 1

TotalLiquidity(v) == Decimal(v.available) + v.borrowed

ExchangeRate(v) ==
    IF v.supply = 0 \/ TotalLiquidity(v) = 0 THEN Wad
    ELSE Div(Decimal(v.supply), TotalLiquidity(v))

LiquidityToCollateral(v, n) == Floor(Mul(Decimal(n), ExchangeRate(v)))

\* Variant: the liquidity that is paid out is rounded up.
CollateralToMoreLiquidity(v, n) == Ceil(Div(Decimal(n), ExchangeRate(v)))

CollateralToLiquidity(v, n) == Floor(Div(Decimal(n), ExchangeRate(v)))

UtilizationRate(v) ==
    IF TotalLiquidity(v) = 0 THEN 0 ELSE Div(v.borrowed, TotalLiquidity(v))

\* Reserve::current_borrow_rate: linear below and above the optimal utilization.
CurrentBorrowRate(v) ==
    LET c == v.config
        optimal == Percent(c.optimal_utilization_rate)
        used == UtilizationRate(v)
    IN  IF used < optimal \/ c.optimal_utilization_rate = 100
        THEN Mul(Div(used, optimal), Percent(c.optimal_borrow_rate - c.min_borrow_rate))
             + Percent(c.min_borrow_rate)
        ELSE Mul(Div(used - optimal, Percent(100 - c.optimal_utilization_rate)),
                 Percent(c.max_borrow_rate - c.optimal_borrow_rate))
             + Percent(c.optimal_borrow_rate)

\* Reserve::accrue_interest, ReserveLiquidity::compound_interest.
AccrueInterest(v) ==
    LET rate == Pow(Wad + CurrentBorrowRate(v) \div SlotsPerYear, slot - v.slot)
    IN  IF slot > v.slot
        THEN [v EXCEPT !.cumulative_rate = Mul(@, rate), !.borrowed = Mul(@, rate)]
        ELSE v

\* Variant: the account is not marked stale.
LeaveFresh(a) == a

MarkStale(a) == [a EXCEPT !.stale = TRUE]
UpdateSlot(a) == [a EXCEPT !.stale = FALSE, !.slot = slot]

\* get_pyth_price: the price is a decimal with an exponent.
HasPrice(r) ==
    /\ oracle[r].quote.trading
    /\ slot - oracle[r].valid_slot < OracleStaleAfter

PythPrice(r) ==
    LET q == oracle[r].quote
    IN  IF q.expo >= 0 THEN Decimal(q.price) * 10 ^ q.expo
        ELSE Decimal(q.price) \div 10 ^ (0 - q.expo)

-----------------------------------------------------------------------------
(* ReserveFees::calculate_fees: a fee is at least one token, or two when a *)
(* host gets its part.                                                     *)

FeeAmount(c, amount, fee, inclusive) ==
    Greatest(Mul(amount, IF inclusive THEN Div(fee, fee + Wad) ELSE fee),
             Decimal(IF c.host_fee > 0 THEN 2 ELSE 1))

IsFeeDue(amount, fee) == fee > 0 /\ amount > 0

LeavesSomething(c, amount, fee, inclusive) ==
    IsFeeDue(amount, fee) => FeeAmount(c, amount, fee, inclusive) < amount

OriginationFee(c, amount, fee, inclusive) ==
    IF IsFeeDue(amount, fee) THEN Round(FeeAmount(c, amount, fee, inclusive)) ELSE 0

HostFee(c, amount, fee, inclusive) ==
    IF IsFeeDue(amount, fee) /\ c.host_fee > 0
    THEN Greatest(Round(Mul(FeeAmount(c, amount, fee, inclusive), Percent(c.host_fee))), 1)
    ELSE 0

-----------------------------------------------------------------------------
(* Obligations.  Deposits and borrows are unique by reserve: functions on  *)
(* the reserves they hold.                                                 *)

NoEntries == [r \in {} |-> 0]

NoObligation == [initialized |-> FALSE, slot |-> 0, stale |-> FALSE,
                 deposits |-> NoEntries, borrows |-> NoEntries,
                 deposited_value |-> 0, borrowed_value |-> 0,
                 allowed_borrow_value |-> 0, unhealthy_borrow_value |-> 0]

HasRoom(o) ==
    Cardinality(DOMAIN o.deposits) + Cardinality(DOMAIN o.borrows) < MaxObligationReserves

With(entries, r, e) == [s \in DOMAIN entries \cup {r} |-> IF s = r THEN e ELSE entries[s]]
Without(entries, r) == [s \in DOMAIN entries \ {r} |-> entries[s]]

\* Variant: the deposit is added although there is one of the reserve.
NewCollateral(o, r) == [amount |-> 0, value |-> 0]

\* Obligation::find_or_add_collateral_to_deposits, find_or_add_liquidity_to_borrows.
CollateralOf(o, r) ==
    IF r \in DOMAIN o.deposits THEN o.deposits[r] ELSE [amount |-> 0, value |-> 0]
LiquidityOf(o, r) ==
    IF r \in DOMAIN o.borrows THEN o.borrows[r]
    ELSE [amount |-> 0, value |-> 0, cumulative_rate |-> Wad]

\* Obligation::withdraw, Obligation::repay: an entry that is used up is removed.
WithdrawFrom(o, r, n) ==
    [o EXCEPT !.deposits = IF n = @[r].amount THEN Without(@, r)
                           ELSE [@ EXCEPT ![r].amount = @ - n]]
RepayTo(o, r, settle) ==
    [o EXCEPT !.borrows = IF settle = @[r].amount THEN Without(@, r)
                          ELSE [@ EXCEPT ![r].amount = @ - settle]]

\* Obligation::max_withdraw_value
MaxWithdrawValue(o, c) ==
    CASE o.allowed_borrow_value <= o.borrowed_value -> 0
      [] o.allowed_borrow_value > o.borrowed_value /\ c.loan_to_value_ratio = 0 ->
            o.deposited_value
      [] OTHER -> Div(o.allowed_borrow_value - o.borrowed_value,
                      Percent(c.loan_to_value_ratio))

\* Variant: the close factor is not applied.
WholeDebt(o, r) == o.borrows[r].amount

\* Obligation::max_liquidation_amount
MaxLiquidationAmount(o, r) ==
    LET b == o.borrows[r]
    IN  Mul(b.amount,
            Div(Least(Mul(o.borrowed_value, Percent(CloseFactor)), b.value), b.value))

-----------------------------------------------------------------------------
(* The market, reserves and their depositors *)

Init ==
    /\ slot = 0
    /\ market_owner = None
    /\ oracle \in [Reserves -> [quote : Quotes, valid_slot : {0}]]
    /\ reserve = [r \in Reserves |-> NoReserve]
    /\ obligation = [o \in Obligations |-> NoObligation]
    /\ liquidity = [r \in Reserves |-> [supply |-> 0, fees |-> 0, hosts |-> 0,
                                        others |-> Wallet]]
    /\ collateral = [r \in Reserves |-> [users |-> 0, pledged |-> 0]]

InitLendingMarket(owner) ==
    /\ market_owner = None
    /\ market_owner' = owner
    /\ UNCHANGED <<slot, oracle, reserve, obligation, liquidity, collateral>>

SetLendingMarketOwner(signer, owner) ==
    /\ market_owner # None
    /\ signer = market_owner
    /\ market_owner' = owner
    /\ UNCHANGED <<slot, oracle, reserve, obligation, liquidity, collateral>>

\* Reserve::deposit_liquidity and the transfers that go with it: n liquidity
\* tokens for collateral tokens.
DepositLiquidity(v, r, n) ==
    LET minted == LiquidityToCollateral(v, n)
    IN  /\ liquidity[r].others >= n
        /\ v.available + n <= MaxU64 /\ v.supply + minted <= MaxU64
        /\ reserve' = [reserve EXCEPT ![r] =
              [v EXCEPT !.available = @ + n, !.supply = @ + minted, !.stale = TRUE]]
        /\ liquidity' = [liquidity EXCEPT ![r].others = @ - n, ![r].supply = @ + n]
        /\ collateral' = [collateral EXCEPT ![r].users = @ + minted]

InitReserve(signer, r, n, c) ==
    /\ n > 0 /\ IsValidConfig(c)
    /\ ~reserve[r].initialized
    /\ market_owner # None /\ signer = market_owner
    /\ HasPrice(r)
    /\ DepositLiquidity([NoReserve EXCEPT !.initialized = TRUE, !.slot = slot, !.stale = TRUE,
                                          !.cumulative_rate = Wad, !.price = PythPrice(r),
                                          !.config = c], r, n)
    /\ UNCHANGED <<slot, market_owner, oracle, obligation>>

RefreshReserve(r) ==
    /\ reserve[r].initialized
    /\ HasPrice(r)
    /\ reserve' = [reserve EXCEPT ![r] =
                      UpdateSlot(AccrueInterest([@ EXCEPT !.price = PythPrice(r)]))]
    /\ UNCHANGED <<slot, market_owner, oracle, obligation, liquidity, collateral>>

IsFresh(r) == reserve[r].initialized /\ ~IsStale(reserve[r])

DepositReserveLiquidity(r, n) ==
    /\ n > 0
    /\ IsFresh(r)
    /\ DepositLiquidity(reserve[r], r, n)
    /\ UNCHANGED <<slot, market_owner, oracle, obligation>>

RedeemReserveCollateral(r, n) ==
    LET v == reserve[r]
        redeemed == CollateralToLiquidity(v, n)
    IN  /\ n > 0
        /\ IsFresh(r)
        /\ ExchangeRate(v) > 0
        /\ collateral[r].users >= n /\ v.supply >= n
        /\ redeemed <= v.available /\ redeemed <= liquidity[r].supply
        /\ reserve' = [reserve EXCEPT ![r] =
              [v EXCEPT !.available = @ - redeemed, !.supply = @ - n, !.stale = TRUE]]
        /\ liquidity' = [liquidity EXCEPT ![r].supply = @ - redeemed,
                                          ![r].others = @ + redeemed]
        /\ collateral' = [collateral EXCEPT ![r].users = @ - n]
        /\ UNCHANGED <<slot, market_owner, oracle, obligation>>

-----------------------------------------------------------------------------
(* Obligations *)

InitObligation(o) ==
    /\ ~obligation[o].initialized /\ market_owner # None
    /\ obligation' = [obligation EXCEPT ![o] =
                         [NoObligation EXCEPT !.initialized = TRUE, !.slot = slot, !.stale = TRUE]]
    /\ UNCHANGED <<slot, market_owner, oracle, reserve, liquidity, collateral>>

\* What the deposit and the borrow of r are worth; interest is what the reserve
\* has accrued since the obligation was last refreshed.
Revalued(d, r) ==
    [d EXCEPT !.value = Mul(Div(Decimal(d.amount), ExchangeRate(reserve[r])),
                            reserve[r].price) \div Unit]

WithInterest(b, r) ==
    LET rate == reserve[r].cumulative_rate
    IN  IF rate = b.cumulative_rate THEN b
        ELSE [b EXCEPT !.amount = Mul(@, Div(rate, b.cumulative_rate)),
                       !.cumulative_rate = rate]

Reappraised(b, r) ==
    LET d == WithInterest(b, r)
    IN  [d EXCEPT !.value = Mul(d.amount, reserve[r].price) \div Unit]

RefreshObligation(o) ==
    LET a == obligation[o]
        deposits == [r \in DOMAIN a.deposits |-> Revalued(a.deposits[r], r)]
        borrows == [r \in DOMAIN a.borrows |-> Reappraised(a.borrows[r], r)]
        deposited(r) == deposits[r].value
        borrowed(r) == borrows[r].value
        allowed(r) == Mul(deposits[r].value, Percent(reserve[r].config.loan_to_value_ratio))
        unhealthy(r) ==
            Mul(deposits[r].value, Percent(reserve[r].config.liquidation_threshold))
    IN  /\ a.initialized
        /\ \A r \in DOMAIN a.deposits : IsFresh(r) /\ ExchangeRate(reserve[r]) > 0
        /\ \A r \in DOMAIN a.borrows :
              IsFresh(r) /\ reserve[r].cumulative_rate >= a.borrows[r].cumulative_rate
        /\ obligation' = [obligation EXCEPT ![o] = UpdateSlot(
              [a EXCEPT !.deposits = deposits, !.borrows = borrows,
                        !.deposited_value = MapThenSumSet(deposited, DOMAIN deposits),
                        !.borrowed_value = MapThenSumSet(borrowed, DOMAIN borrows),
                        !.allowed_borrow_value = MapThenSumSet(allowed, DOMAIN deposits),
                        !.unhealthy_borrow_value = MapThenSumSet(unhealthy, DOMAIN deposits)])]
        /\ UNCHANGED <<slot, market_owner, oracle, reserve, liquidity, collateral>>

DepositObligationCollateral(o, r, n) ==
    LET a == obligation[o]
        d == CollateralOf(a, r)
    IN  /\ n > 0
        /\ IsFresh(r) /\ reserve[r].config.loan_to_value_ratio # 0
        /\ a.initialized
        /\ r \in DOMAIN a.deposits \/ HasRoom(a)
        /\ d.amount + n <= MaxU64 /\ collateral[r].users >= n
        /\ obligation' = [obligation EXCEPT ![o] = MarkStale(
              [a EXCEPT !.deposits = With(@, r, [d EXCEPT !.amount = @ + n])])]
        /\ collateral' = [collateral EXCEPT ![r].users = @ - n, ![r].pledged = @ + n]
        /\ UNCHANGED <<slot, market_owner, oracle, reserve, liquidity>>

IsFreshObligation(o) == obligation[o].initialized /\ ~IsStale(obligation[o])

\* The collateral tokens that a request for n of r takes out of a, and the
\* requests that are refused.
WithdrawAmount(a, r, n) ==
    LET d == a.deposits[r]
        max_value == MaxWithdrawValue(a, reserve[r].config)
    IN  IF DOMAIN a.borrows # {} /\ n = MaxU64
        THEN Floor(Div(Least(max_value, d.value), d.value) * d.amount)
        ELSE Least(n, d.amount)

MayWithdraw(a, r, n) ==
    LET d == a.deposits[r]
        max_value == MaxWithdrawValue(a, reserve[r].config)
    IN  DOMAIN a.borrows # {} =>
            /\ a.deposited_value # 0 /\ max_value # 0
            /\ IF n = MaxU64 THEN d.value # 0
               ELSE Mul(d.value, Decimal(Least(n, d.amount)) \div d.amount) <= max_value
            /\ WithdrawAmount(a, r, n) # 0

WithdrawObligationCollateral(o, r, n) ==
    LET a == obligation[o]
        withdrawn == WithdrawAmount(a, r, n)
    IN  /\ n > 0
        /\ IsFresh(r) /\ IsFreshObligation(o)
        /\ r \in DOMAIN a.deposits /\ a.deposits[r].amount # 0
        /\ MayWithdraw(a, r, n)
        /\ collateral[r].pledged >= withdrawn
        /\ obligation' = [obligation EXCEPT ![o] = MarkStale(WithdrawFrom(a, r, withdrawn))]
        /\ collateral' = [collateral EXCEPT ![r].pledged = @ - withdrawn,
                                            ![r].users = @ + withdrawn]
        /\ UNCHANGED <<slot, market_owner, oracle, reserve, liquidity>>

\* Reserve::calculate_borrow: n tokens and the fee on top, or for u64::MAX as
\* much as the collateral allows with the fee included.
BorrowAmount(v, n, max_value) ==
    IF n = MaxU64
    THEN Least(Div(max_value * Unit, v.price), Decimal(v.available))
    ELSE Decimal(n + OriginationFee(v.config, Decimal(n), v.config.borrow_fee, FALSE))

\* The amount its fees are computed from.
FeeBase(v, n, max_value) ==
    IF n = MaxU64 THEN BorrowAmount(v, n, max_value) ELSE Decimal(n)

MayBorrow(v, n, max_value) ==
    /\ n = MaxU64 => v.price # 0
    /\ LeavesSomething(v.config, FeeBase(v, n, max_value), v.config.borrow_fee, n = MaxU64)
    /\ n # MaxU64 => Mul(BorrowAmount(v, n, max_value), v.price) \div Unit <= max_value

\* The obligation and the reserve are fresh and there is something to borrow against.
HasCredit(o, r) ==
    LET a == obligation[o]
    IN  /\ IsFresh(r) /\ IsFreshObligation(o)
        /\ DOMAIN a.deposits # {} /\ a.deposited_value # 0
        /\ a.allowed_borrow_value > a.borrowed_value

\* A host is named or not: without one its fee goes to the owner.
BorrowObligationLiquidity(o, r, n, has_host) ==
    LET a == obligation[o]
        v == reserve[r]
        max_value == a.allowed_borrow_value - a.borrowed_value
        borrowed == BorrowAmount(v, n, max_value)
        base == FeeBase(v, n, max_value)
        fee == OriginationFee(v.config, base, v.config.borrow_fee, n = MaxU64)
        host_fee == IF has_host THEN HostFee(v.config, base, v.config.borrow_fee, n = MaxU64)
                    ELSE 0
        received == IF n = MaxU64 THEN Floor(borrowed) - fee ELSE n
        b == LiquidityOf(a, r)
    IN  /\ n > 0 /\ HasCredit(o, r)
        /\ MayBorrow(v, n, max_value)
        /\ received > 0 /\ host_fee <= fee
        /\ Floor(borrowed) <= v.available
        /\ r \in DOMAIN a.borrows \/ HasRoom(a)
        /\ received + fee <= liquidity[r].supply
        /\ reserve' = [reserve EXCEPT ![r] = MarkStale(
              [v EXCEPT !.available = @ - Floor(borrowed), !.borrowed = @ + borrowed])]
        /\ obligation' = [obligation EXCEPT ![o] = MarkStale(
              [a EXCEPT !.borrows = With(@, r, [b EXCEPT !.amount = @ + borrowed])])]
        /\ liquidity' = [liquidity EXCEPT ![r].supply = @ - received - fee,
                                          ![r].fees = @ + (fee - host_fee),
                                          ![r].hosts = @ + host_fee,
                                          ![r].others = @ + received]
        /\ UNCHANGED <<slot, market_owner, oracle, collateral>>

\* ReserveLiquidity::repay, and the tokens that are paid in.
RepayReserve(r, repaid, settled) ==
    /\ repaid <= liquidity[r].others
    /\ reserve[r].available + repaid <= MaxU64 /\ settled <= reserve[r].borrowed
    /\ reserve' = [reserve EXCEPT ![r] = MarkStale(
          [@ EXCEPT !.available = @ + repaid, !.borrowed = @ - settled])]
    /\ liquidity' = [liquidity EXCEPT ![r].others = @ - repaid, ![r].supply = @ + repaid]

RepayObligationLiquidity(o, r, n) ==
    LET a == obligation[o]
        settled == IF n = MaxU64 THEN a.borrows[r].amount
                   ELSE Least(Decimal(n), a.borrows[r].amount)
    IN  /\ n > 0
        /\ IsFresh(r) /\ IsFreshObligation(o)
        /\ r \in DOMAIN a.borrows /\ a.borrows[r].amount # 0
        /\ Ceil(settled) # 0
        /\ RepayReserve(r, Ceil(settled), settled)
        /\ obligation' = [obligation EXCEPT ![o] = MarkStale(RepayTo(a, r, settled))]
        /\ UNCHANGED <<slot, market_owner, oracle, collateral>>

-----------------------------------------------------------------------------
(* Liquidation *)

\* Reserve::calculate_liquidation of the debt b of obligation a in reserve r
\* against its collateral d in a reserve with configuration c.  A debt below the
\* close amount is settled altogether.
CalculateLiquidation(a, r, d, c, n) ==
    LET b == a.borrows[r]
        bonus == Percent(c.liquidation_bonus) + Wad
        max_amount == IF n = MaxU64 THEN b.amount ELSE Least(Decimal(n), b.amount)
        closes == b.amount < Decimal(CloseAmount)
        amount == IF closes THEN max_amount ELSE Least(MaxLiquidationAmount(a, r), max_amount)
        value == IF closes THEN Mul(b.value, bonus)
                 ELSE Mul(Mul(b.value, Div(amount, b.amount)), bonus)
        covered == IF value > d.value THEN Mul(amount, Div(d.value, value)) ELSE amount
    IN  [settle |-> IF closes THEN b.amount ELSE covered,
         repay |-> IF value < d.value THEN Floor(covered) ELSE Ceil(covered),
         withdraw |-> IF value < d.value THEN Floor(d.amount * Div(value, d.value))
                      ELSE d.amount]

\* The debt in r of an unhealthy obligation, its collateral in w.
IsLiquidatable(o, r, w) ==
    LET a == obligation[o]
    IN  /\ IsFresh(r) /\ IsFresh(w) /\ IsFreshObligation(o)
        /\ a.deposited_value # 0 /\ a.borrowed_value # 0
        /\ a.borrowed_value >= a.unhealthy_borrow_value
        /\ r \in DOMAIN a.borrows /\ a.borrows[r].value # 0
        /\ w \in DOMAIN a.deposits /\ a.deposits[w].value # 0

LiquidateObligation(o, r, w, n) ==
    LET a == obligation[o]
        l == CalculateLiquidation(a, r, a.deposits[w], reserve[w].config, n)
    IN  /\ n > 0 /\ IsLiquidatable(o, r, w)
        /\ l.repay # 0 /\ l.withdraw # 0
        /\ collateral[w].pledged >= l.withdraw
        /\ RepayReserve(r, l.repay, l.settle)
        /\ obligation' = [obligation EXCEPT ![o] =
              MarkStale(WithdrawFrom(RepayTo(a, r, l.settle), w, l.withdraw))]
        /\ collateral' = [collateral EXCEPT ![w].pledged = @ - l.withdraw,
                                            ![w].users = @ + l.withdraw]
        /\ UNCHANGED <<slot, market_owner, oracle>>

-----------------------------------------------------------------------------
(* Flash loans: the receiver program is called between the loan and its    *)
(* repayment.  It cannot call the lending program; it may do with tokens   *)
(* what it likes, and the instruction fails unless the supply account has  *)
(* got its tokens back, with the fee.                                      *)

\* What is lent, the fee on it and the part of it for the host.
FlashAmount(v, n) == IF n = MaxU64 THEN v.available ELSE n
FlashFee(v, n) ==
    OriginationFee(v.config, Decimal(FlashAmount(v, n)), v.config.flash_loan_fee, FALSE)
FlashHostFee(v, n) ==
    HostFee(v.config, Decimal(FlashAmount(v, n)), v.config.flash_loan_fee, FALSE)

\* Variant: the fee is not demanded back.
LoanOnly(r, fee) == liquidity[r].supply

\* What has to be in the supply account afterwards.
ExpectedBalance(r, fee) == liquidity[r].supply + fee

FlashLoan(r, n, returned) ==
    LET v == reserve[r]
        lent == FlashAmount(v, n)
        fee == FlashFee(v, n)
        host_fee == FlashHostFee(v, n)
        after == liquidity[r].supply - lent + returned
    IN  /\ n > 0
        /\ v.initialized
        /\ LeavesSomething(v.config, Decimal(lent), v.config.flash_loan_fee, FALSE)
        /\ ExpectedBalance(r, fee) <= MaxU64 /\ lent + fee <= MaxU64
        /\ lent <= v.available /\ lent <= liquidity[r].supply
        /\ returned <= liquidity[r].others + lent
        /\ after >= ExpectedBalance(r, fee)
        /\ host_fee <= fee /\ fee <= after
        /\ liquidity' = [liquidity EXCEPT ![r].supply = after - fee,
                                          ![r].others = @ + lent - returned,
                                          ![r].fees = @ + (fee - host_fee),
                                          ![r].hosts = @ + host_fee]
        /\ UNCHANGED <<slot, market_owner, oracle, reserve, obligation, collateral>>

-----------------------------------------------------------------------------
(* The token program, the oracle, and time *)

\* A holder burns collateral tokens.
BurnCollateral(r, n) ==
    /\ n > 0 /\ n <= collateral[r].users
    /\ collateral' = [collateral EXCEPT ![r].users = @ - n]
    /\ UNCHANGED <<slot, market_owner, oracle, reserve, obligation, liquidity>>

UpdateOracle(r, q) ==
    /\ oracle' = [oracle EXCEPT ![r] = [quote |-> q, valid_slot |-> slot]]
    /\ UNCHANGED <<slot, market_owner, reserve, obligation, liquidity, collateral>>

NextSlot ==
    /\ slot < MaxSlot
    /\ slot' = slot + 1
    /\ UNCHANGED <<market_owner, oracle, reserve, obligation, liquidity, collateral>>

RefreshNext ==
    \/ \E r \in Reserves : RefreshReserve(r)
    \/ \E o \in Obligations : RefreshObligation(o)

AdminNext ==
    \/ \E p \in People : InitLendingMarket(p)
    \/ \E p, q \in People : SetLendingMarketOwner(p, q)
    \/ \E p \in People, r \in Reserves, n \in Opening, c \in Configs : InitReserve(p, r, n, c)
    \/ \E o \in Obligations : InitObligation(o)

DepositorNext ==
    \E r \in Reserves, n \in Inputs :
        \/ DepositReserveLiquidity(r, n)
        \/ RedeemReserveCollateral(r, n)
        \/ \E m \in Returns : FlashLoan(r, n, m)

BorrowerNext ==
    \E o \in Obligations, r \in Reserves, n \in Inputs :
        \/ DepositObligationCollateral(o, r, n)
        \/ WithdrawObligationCollateral(o, r, n)
        \/ \E h \in BOOLEAN : BorrowObligationLiquidity(o, r, n, h)
        \/ RepayObligationLiquidity(o, r, n)
        \/ \E w \in Reserves : LiquidateObligation(o, r, w, n)

ClusterNext ==
    \/ \E r \in Reserves, n \in Inputs : BurnCollateral(r, n)
    \/ \E r \in Reserves, q \in Quotes : UpdateOracle(r, q)
    \/ NextSlot

Next == RefreshNext \/ AdminNext \/ DepositorNext \/ BorrowerNext \/ ClusterNext

Spec == Init /\ [][Next]_vars
=============================================================================
