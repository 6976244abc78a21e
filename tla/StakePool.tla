----------------------------- MODULE StakePool ------------------------------
(***************************************************************************)
(* The stake pool program (stake-pool/program/src/processor.rs, state.rs). *)
(* Lamports are deposited for pool tokens, in the reserve or as stake on a *)
(* validator; the staker moves them between the reserve and validators by  *)
(* way of transient stake accounts, which take an epoch to activate or     *)
(* deactivate.  After an epoch the balances of the validators are updated  *)
(* one by one, then the pool's total; until then nothing trades.           *)
(*                                                                         *)
(* An action is an instruction that succeeds.  Whoever has to sign may     *)
(* sign.  A stake account holds its rent and its delegation; lamports that *)
(* strangers send go to the reserve.  Stake is active one epoch after it   *)
(* was delegated, and inactive one epoch after it was deactivated.         *)
(***************************************************************************)
EXTENDS Integers, FiniteSets, Functions

CONSTANTS
    Validators,
    None,               \* no validator, no fee
    MaxU64,             \* u64::MAX
    Rent,               \* rent exempt reserve of a stake account
    MinimumActive,      \* MINIMUM_ACTIVE_STAKE
    MinimumReserve,     \* MINIMUM_RESERVE_LAMPORTS
    Seeds,              \* seeds of the addresses of transient accounts
    MaxValidators,      \* ValidatorListHeader::max_validators
    MaxEpoch,           \* bound: the last epoch
    Reserves,           \* bound: lamports in the reserve at the start
    Deposits,           \* bound: deposits [stake, sol]
    Increases,          \* bound: lamports staked or unstaked at a time
    Withdrawals,        \* bound: pool tokens withdrawn or burned at a time
    Rewards,            \* bound: lamports a validator earns in an epoch
    InitialFees,        \* bound: the fees at the start
    FeeChanges          \* bound: the fees that are set [kind, to]

\* A Fee is a ratio, None where there is none.  A referral percentage is a
\* ratio of 100.
FeeKinds == {"epoch", "stake_withdrawal", "sol_withdrawal", "stake_deposit",
             "sol_deposit", "stake_referral", "sol_referral"}
\* FeeType::can_only_change_next_epoch
NextEpochKinds == {"epoch", "stake_withdrawal", "sol_withdrawal"}
WithdrawalKinds == {"stake_withdrawal", "sol_withdrawal"}
Ratio == [num : Nat, den : Nat]

Epochs == 0 .. MaxEpoch
Amounts == 0 .. MaxU64

ASSUME StakePoolAssumption ==
    /\ IsFiniteSet(Validators) /\ None \notin Validators
    /\ Rent \in Nat /\ MinimumActive \in Nat \ {0} /\ MinimumReserve \in Nat
    /\ IsFiniteSet(Seeds) /\ Seeds \subseteq Nat /\ 0 \in Seeds
    /\ MaxValidators \in Nat \ {0} /\ MaxEpoch \in Nat /\ MaxU64 \in Nat
    /\ Reserves \subseteq {n \in Amounts : n >= Rent + MinimumReserve}
    /\ Deposits \subseteq [stake : Nat, sol : Nat]
    /\ Increases \subseteq Nat /\ Withdrawals \subseteq Nat /\ Rewards \subseteq Nat
    /\ InitialFees \subseteq [FeeKinds -> Ratio]
    /\ FeeChanges \subseteq [kind : FeeKinds, to : Ratio]

VARIABLES
    epoch,              \* Clock::epoch
    total_lamports, pool_token_supply, last_update_epoch,   \* StakePool
    preferred,          \* the preferred "deposit" and "withdraw" validators
    fee, next_fee,      \* the fees of StakePool, and those of the next epoch
    list,               \* ValidatorList: [Validators -> ValidatorStakeInfo]
    stake,              \* the stake accounts of validators
    transient,          \* their transient stake accounts: [Validators -> [Seeds -> ...]]
    reserve,            \* lamports of the reserve stake account
    tokens,             \* pool tokens of the "users" and in the "manager" fee account
    fee_account         \* whether the manager fee account exists

price == <<total_lamports, pool_token_supply, tokens>>
fees == <<fee, next_fee>>
accounts == <<list, stake, transient, reserve>>
vars == <<epoch, price, last_update_epoch, preferred, fees, accounts, fee_account>>

\* Definitions marked "Variant" are faulty versions of the definition that
\* follows; they serve to show that the properties notice the fault.

\* A validator that is not in the list, a stake account that does not exist.
NoEntry ==
    [status |-> "None", active |-> 0, transient |-> 0, last_update |-> 0, seed |-> 0]
NoStake == [kind |-> "None", amount |-> 0, since |-> 0]

Listed == {v \in Validators : list[v].status # "None"}
\* The transient account of an entry of the list.
Transient(v) == transient[v][list[v].seed]

HasActiveStake == \E v \in Listed : list[v].active # 0
HasTransientStake == \E v \in Listed : list[v].transient # 0

PoolMintSupply == tokens.users + tokens.manager
MinimumReserveLamports == Rent + MinimumReserve

\* Process Initialize: the reserve above its minimum belongs to the manager.
Init ==
    /\ epoch = 0 /\ last_update_epoch = 0
    /\ reserve \in Reserves
    /\ total_lamports = reserve - MinimumReserveLamports
    /\ pool_token_supply = total_lamports
    /\ tokens = [users |-> 0, manager |-> total_lamports]
    /\ preferred = [deposit |-> None, withdraw |-> None]
    /\ fee \in InitialFees
    /\ \A k \in FeeKinds : fee[k].num <= fee[k].den
    /\ next_fee = [k \in NextEpochKinds |-> None]
    /\ list = [v \in Validators |-> NoEntry]
    /\ stake = [v \in Validators |-> NoStake]
    /\ transient = [v \in Validators |-> [s \in Seeds |-> NoStake]]
    /\ fee_account = TRUE

-----------------------------------------------------------------------------
(* Pool tokens and lamports *)

\* Fee::apply
Apply(f, amount) == IF f.den = 0 THEN 0 ELSE (amount * f.num) \div f.den

CeilDiv(n, d) == IF n % d = 0 THEN n \div d ELSE n \div d + 1

\* calc_pool_tokens_for_deposit
TokensForDeposit(total, supply, lamports) ==
    IF total = 0 \/ supply = 0 THEN lamports ELSE (lamports * supply) \div total

\* calc_lamports_withdraw_amount
LamportsWithdrawn(total, supply, amount) ==
    IF amount * total < supply \/ supply = 0 THEN 0
    ELSE CeilDiv(amount * total, supply)

\* Variant: the fee is taken from the whole pool, not from its growth.
EpochFeeOnTotal(total, supply, f, reward) ==
    LET fee_lamports == Apply(f, total + reward)
    IN  IF reward = 0 THEN 0
        ELSE IF total + reward = fee_lamports \/ supply = 0 THEN reward
        ELSE (supply * fee_lamports) \div (total + reward - fee_lamports)

\* calc_epoch_fee_amount
EpochFee(total, supply, f, reward) ==
    LET fee_lamports == Apply(f, reward)
    IN  IF reward = 0 THEN 0
        ELSE IF total + reward = fee_lamports \/ supply = 0 THEN reward
        ELSE (supply * fee_lamports) \div (total + reward - fee_lamports)

\* The pool and its list were updated in this epoch.
UpToDate == last_update_epoch >= epoch

-----------------------------------------------------------------------------
(* Deposits *)

\* The tokens of a deposit are minted to the user, the manager and a referrer.
MintTokens(amount, paid, referral) ==
    LET to_referrer == Apply(referral, paid)
    IN  /\ amount > paid
        /\ paid > to_referrer => fee_account
        /\ tokens' = [users   |-> tokens.users + (amount - paid) + to_referrer,
                      manager |-> tokens.manager + (paid - to_referrer)]
        /\ pool_token_supply + amount \in Amounts
        /\ pool_token_supply' = pool_token_supply + amount

\* The stake is merged into the validator's, what exceeds it goes to the
\* reserve.
DepositStake(v, d) ==
    LET amount     == TokensForDeposit(total_lamports, pool_token_supply, d.stake + d.sol)
        from_stake == TokensForDeposit(total_lamports, pool_token_supply, d.stake)
        paid       == Apply(fee["stake_deposit"], from_stake)
                      + Apply(fee["sol_deposit"], amount - from_stake)
    IN  /\ UpToDate
        /\ stake[v].kind = "Stake"
        /\ preferred.deposit \in {None, v}
        /\ list[v].status = "Active"
        /\ stake[v].amount + d.stake >= MinimumActive
        /\ MintTokens(amount, paid, fee["stake_referral"])
        /\ total_lamports + d.stake + d.sol \in Amounts
        /\ total_lamports' = total_lamports + d.stake + d.sol
        /\ stake' = [stake EXCEPT ![v].amount = stake[v].amount + d.stake]
        /\ list' = [list EXCEPT ![v].active = stake[v].amount + d.stake - MinimumActive]
        /\ reserve' = reserve + d.sol
        /\ UNCHANGED <<epoch, last_update_epoch, preferred, fees, transient, fee_account>>

DepositSol(lamports) ==
    LET amount == TokensForDeposit(total_lamports, pool_token_supply, lamports)
    IN  /\ UpToDate
        /\ MintTokens(amount, Apply(fee["sol_deposit"], amount), fee["sol_referral"])
        /\ total_lamports + lamports \in Amounts
        /\ total_lamports' = total_lamports + lamports
        /\ reserve' = reserve + lamports
        /\ UNCHANGED <<epoch, last_update_epoch, preferred, fees, list, stake,
                       transient, fee_account>>

-----------------------------------------------------------------------------
(* Withdrawals *)

\* The manager pays no fee, and without its account nobody does.
WithdrawalFee(kind, from, amount) ==
    IF from = "manager" \/ ~fee_account THEN 0 ELSE Apply(fee[kind], amount)

Burnt(kind, from, amount) == amount - WithdrawalFee(kind, from, amount)

Withdrawn(kind, from, amount) ==
    LamportsWithdrawn(total_lamports, pool_token_supply, Burnt(kind, from, amount))

\* What every withdrawal does: burn the tokens, pay the fee, reduce the total.
BurnTokens(kind, from, amount) ==
    /\ UpToDate
    /\ Withdrawn(kind, from, amount) > 0
    /\ tokens[from] >= amount
    /\ pool_token_supply >= Burnt(kind, from, amount)
    /\ total_lamports >= Withdrawn(kind, from, amount)
    /\ tokens' = IF from = "users"
                 THEN [users   |-> tokens.users - amount,
                       manager |-> tokens.manager + WithdrawalFee(kind, from, amount)]
                 ELSE [tokens EXCEPT !.manager = tokens.manager - amount]
    /\ pool_token_supply' = pool_token_supply - Burnt(kind, from, amount)
    /\ total_lamports' = total_lamports - Withdrawn(kind, from, amount)
    /\ UNCHANGED <<epoch, last_update_epoch, preferred, fees, fee_account>>

\* WithdrawStake from the reserve, which becomes a stake account of the user.
WithdrawReserveStake(from, amount) ==
    LET lamports == Withdrawn("stake_withdrawal", from, amount)
    IN  /\ ~HasActiveStake /\ ~HasTransientStake
        /\ reserve >= MinimumReserveLamports
        /\ reserve - lamports >= Rent       \* by the stake program's Split
        /\ BurnTokens("stake_withdrawal", from, amount)
        /\ reserve' = reserve - lamports
        /\ UNCHANGED <<list, stake, transient>>

\* The preferred validator's stake is to be withdrawn first.
MayWithdrawFrom(v) ==
    preferred.withdraw # None =>
        /\ preferred.withdraw \in Listed
        /\ preferred.withdraw # v => list[preferred.withdraw].active = 0

\* WithdrawStake from a validator's stake account
WithdrawStake(v, from, amount) ==
    LET lamports == Withdrawn("stake_withdrawal", from, amount)
    IN  /\ HasActiveStake
        /\ stake[v].kind = "Stake"
        /\ MayWithdrawFrom(v)
        /\ list[v].status = "Active"
        /\ stake[v].amount - lamports >= MinimumActive
        /\ list[v].active >= lamports
        /\ BurnTokens("stake_withdrawal", from, amount)
        /\ stake' = [stake EXCEPT ![v].amount = stake[v].amount - lamports]
        /\ list' = [list EXCEPT ![v].active = list[v].active - lamports]
        /\ UNCHANGED <<transient, reserve>>

\* WithdrawStake from a transient stake account, when no validator has stake
WithdrawTransientStake(v, from, amount) ==
    LET lamports == Withdrawn("stake_withdrawal", from, amount)
    IN  /\ ~HasActiveStake
        /\ Transient(v).kind \in {"Activating", "Deactivating"}
        /\ MayWithdrawFrom(v)
        /\ list[v].status = "Active"
        /\ Transient(v).amount - lamports >= MinimumActive
        /\ list[v].transient >= lamports
        /\ BurnTokens("stake_withdrawal", from, amount)
        /\ transient' = [transient EXCEPT ![v][list[v].seed] =
               [Transient(v) EXCEPT !.amount = Transient(v).amount - lamports]]
        /\ list' = [list EXCEPT ![v].transient = list[v].transient - lamports]
        /\ UNCHANGED <<stake, reserve>>

WithdrawSol(from, amount) ==
    LET lamports == Withdrawn("sol_withdrawal", from, amount)
    IN  /\ reserve - lamports >= MinimumReserveLamports
        /\ BurnTokens("sol_withdrawal", from, amount)
        /\ reserve' = reserve - lamports
        /\ UNCHANGED <<list, stake, transient>>

-----------------------------------------------------------------------------
(* The staker *)

poolVars == <<epoch, price, last_update_epoch, fees, fee_account>>

\* The new stake account is paid for by the staker.
AddValidatorToPool(v) ==
    /\ UpToDate
    /\ Cardinality(Listed) # MaxValidators
    /\ v \notin Listed
    /\ stake[v].kind = "None"
    /\ stake' = [stake EXCEPT ![v] =
           [kind |-> "Stake", amount |-> MinimumActive, since |-> epoch]]
    /\ list' = [list EXCEPT ![v] =
           [status |-> "Active", active |-> 0, transient |-> 0, last_update |-> epoch,
            seed |-> 0]]
    /\ UNCHANGED <<poolVars, preferred, transient, reserve>>

\* Variant: the deactivating stake is not waited for.
ImmediatelyRemoved(v) == "ReadyForRemoval"

RemovedStatus(v) ==
    IF list[v].transient > 0 /\ Transient(v).kind = "Deactivating"
    THEN "DeactivatingTransient" ELSE "ReadyForRemoval"

\* Variant: stake above the minimum is removed as well.
RemoveAnyStake(v) ==
    /\ UpToDate
    /\ stake[v].kind = "Stake"
    /\ v \in Listed
    /\ list[v].transient > 0 => Transient(v).kind # "Activating"
    /\ stake' = [stake EXCEPT ![v] = NoStake]
    /\ list' = [list EXCEPT ![v].status = RemovedStatus(v)]
    /\ preferred' = [k \in {"deposit", "withdraw"} |->
           IF preferred[k] = v THEN None ELSE preferred[k]]
    /\ UNCHANGED <<poolVars, transient, reserve>>

\* The validator's stake account goes back to the staker.
RemoveValidatorFromPool(v) ==
    /\ UpToDate
    /\ stake[v].kind = "Stake" /\ stake[v].amount = MinimumActive
    /\ v \in Listed
    /\ list[v].transient > 0 => Transient(v).kind # "Activating"
    /\ stake' = [stake EXCEPT ![v] = NoStake]
    /\ list' = [list EXCEPT ![v].status = RemovedStatus(v)]
    /\ preferred' = [k \in {"deposit", "withdraw"} |->
           IF preferred[k] = v THEN None ELSE preferred[k]]
    /\ UNCHANGED <<poolVars, transient, reserve>>

DecreaseValidatorStake(v, lamports, seed) ==
    /\ UpToDate
    /\ stake[v].kind = "Stake" /\ v \in Listed
    /\ list[v].transient = 0
    /\ lamports > Rent
    /\ stake[v].amount - lamports >= MinimumActive
    /\ list[v].active >= lamports
    /\ transient[v][seed].kind = "None"
    /\ stake' = [stake EXCEPT ![v].amount = stake[v].amount - lamports]
    /\ transient' = [transient EXCEPT ![v][seed] =
           [kind |-> "Deactivating", amount |-> lamports - Rent, since |-> epoch]]
    /\ list' = [list EXCEPT ![v] =
           [list[v] EXCEPT !.active = list[v].active - lamports,
                           !.transient = lamports, !.seed = seed]]
    /\ UNCHANGED <<poolVars, preferred, reserve>>

IncreaseValidatorStake(v, lamports, seed) ==
    /\ UpToDate
    /\ list[v].status = "Active"
    /\ list[v].transient = 0
    /\ stake[v].kind = "Stake"
    /\ lamports >= MinimumActive
    /\ reserve - (lamports + Rent) > Rent
    /\ transient[v][seed].kind = "None"
    /\ reserve' = reserve - (lamports + Rent)
    /\ transient' = [transient EXCEPT ![v][seed] =
           [kind |-> "Activating", amount |-> lamports, since |-> epoch]]
    /\ list' = [list EXCEPT ![v] =
           [list[v] EXCEPT !.transient = lamports + Rent, !.seed = seed]]
    /\ UNCHANGED <<poolVars, preferred, stake>>

SetPreferredValidator(kind, v) ==
    /\ v # None => list[v].status = "Active"
    /\ preferred' = [preferred EXCEPT ![kind] = v]
    /\ UNCHANGED <<poolVars, accounts>>

-----------------------------------------------------------------------------
(* Updates.  Anybody may send them. *)

\* A transient account that is not staked any more is merged into the reserve,
\* one that is active into the validator's stake.
MergesIntoReserve(v) ==
    \/ Transient(v).kind = "Initialized"
    \/ Transient(v).kind = "Deactivating" /\ Transient(v).since < epoch
MergesIntoStake(v) ==
    /\ Transient(v).kind = "Activating" /\ Transient(v).since < epoch
    /\ stake[v].kind = "Stake" /\ stake[v].since < epoch
\* The stake program refuses to merge stake that has begun to deactivate.
RefusesMerge(v) ==
    /\ Transient(v).kind = "Deactivating" /\ Transient(v).since = epoch
    /\ stake[v].kind = "Stake" /\ stake[v].since < epoch

\* A destaked stake account always goes to the reserve.
Absorbed(v) == stake[v].kind = "Initialized"

\* UpdateValidatorListBalance of one validator: the instruction does the same
\* for every validator it is given.
UpdateValidatorListBalance(v, no_merge) ==
    LET to_reserve == ~no_merge /\ MergesIntoReserve(v)
        to_stake   == ~no_merge /\ MergesIntoStake(v)
        amount     == stake[v].amount + IF to_stake THEN Transient(v).amount ELSE 0
        counted    == stake[v].kind = "Stake" /\ list[v].status = "Active"
    IN  /\ v \in Listed
        /\ ~no_merge => ~RefusesMerge(v)
        /\ counted => amount >= MinimumActive
        /\ reserve' = reserve
               + (IF to_reserve THEN Rent + Transient(v).amount ELSE 0)
               + (IF to_stake THEN Rent ELSE 0)
               + (IF Absorbed(v) THEN Rent + stake[v].amount ELSE 0)
        /\ transient' = [transient EXCEPT ![v][list[v].seed] =
               IF to_reserve \/ to_stake THEN NoStake ELSE Transient(v)]
        /\ stake' = [stake EXCEPT ![v] =
               IF Absorbed(v) THEN NoStake ELSE [stake[v] EXCEPT !.amount = amount]]
        /\ list' = [list EXCEPT ![v] =
               [status      |-> IF Absorbed(v) \/ (to_reserve /\ list[v].status = "DeactivatingTransient")
                                THEN "ReadyForRemoval" ELSE list[v].status,
                active      |-> IF counted THEN amount - MinimumActive ELSE 0,
                transient   |-> IF to_reserve \/ to_stake \/ Transient(v).kind = "None"
                                THEN 0 ELSE Rent + Transient(v).amount,
                last_update |-> epoch,
                seed        |-> list[v].seed]]
        /\ UNCHANGED <<poolVars, preferred>>

StakeLamports == [v \in Validators |-> list[v].active + list[v].transient]

\* Variant: entries that are out of date are counted.
UpdateFromStaleList ==
    LET total  == reserve - MinimumReserveLamports + SumFunctionOnSet(StakeLamports, Listed)
        reward == IF total > total_lamports THEN total - total_lamports ELSE 0
        minted == IF fee_account
                  THEN EpochFee(total_lamports, pool_token_supply, fee["epoch"], reward)
                  ELSE 0
    IN  /\ reserve >= MinimumReserveLamports
        /\ tokens' = [tokens EXCEPT !.manager = tokens.manager + minted]
        /\ IF UpToDate THEN UNCHANGED <<fees, last_update_epoch>>
           ELSE /\ fee' = [k \in FeeKinds |->
                       IF k \in NextEpochKinds /\ next_fee[k] # None
                       THEN next_fee[k] ELSE fee[k]]
                /\ next_fee' = [k \in NextEpochKinds |-> None]
                /\ last_update_epoch' = epoch
        /\ total \in Amounts /\ PoolMintSupply + minted \in Amounts
        /\ total_lamports' = total
        /\ pool_token_supply' = PoolMintSupply + minted
        /\ UNCHANGED <<epoch, preferred, accounts, fee_account>>

\* UpdateStakePoolBalance: growth is the reward, of which the manager gets its
\* share in new tokens.
UpdateStakePoolBalance ==
    LET total  == reserve - MinimumReserveLamports + SumFunctionOnSet(StakeLamports, Listed)
        reward == IF total > total_lamports THEN total - total_lamports ELSE 0
        minted == IF fee_account
                  THEN EpochFee(total_lamports, pool_token_supply, fee["epoch"], reward)
                  ELSE 0
    IN  /\ reserve >= MinimumReserveLamports
        /\ \A v \in Listed : list[v].last_update >= epoch
        /\ tokens' = [tokens EXCEPT !.manager = tokens.manager + minted]
        /\ IF UpToDate THEN UNCHANGED <<fees, last_update_epoch>>
           ELSE /\ fee' = [k \in FeeKinds |->
                       IF k \in NextEpochKinds /\ next_fee[k] # None
                       THEN next_fee[k] ELSE fee[k]]
                /\ next_fee' = [k \in NextEpochKinds |-> None]
                /\ last_update_epoch' = epoch
        /\ total \in Amounts /\ PoolMintSupply + minted \in Amounts
        /\ total_lamports' = total
        /\ pool_token_supply' = PoolMintSupply + minted
        /\ UNCHANGED <<epoch, preferred, accounts, fee_account>>

CleanupRemovedValidatorEntries ==
    /\ list' = [v \in Validators |->
           IF list[v].status = "ReadyForRemoval" THEN NoEntry ELSE list[v]]
    /\ UNCHANGED <<poolVars, preferred, stake, transient, reserve>>

-----------------------------------------------------------------------------
(* The manager *)

\* Fee::check_withdrawal: at most 3/2 of the old fee, of 1/1000 if there is none
CheckWithdrawal(new, old) ==
    LET base == IF old.num = 0 \/ old.den = 0 THEN [num |-> 1, den |-> 1000] ELSE old
    IN  base.num * new.den * 3 >= new.num * base.den * 2

\* Variant: fees are set although the pool is out of date.
SetFeeAnytime(kind, to) ==
    /\ to.num <= to.den
    /\ kind \in WithdrawalKinds => CheckWithdrawal(to, fee[kind])
    /\ IF kind \in NextEpochKinds
       THEN next_fee' = [next_fee EXCEPT ![kind] = to] /\ UNCHANGED fee
       ELSE fee' = [fee EXCEPT ![kind] = to] /\ UNCHANGED next_fee
    /\ UNCHANGED <<epoch, price, last_update_epoch, preferred, accounts, fee_account>>

SetFee(kind, to) ==
    /\ kind \in NextEpochKinds => UpToDate
    /\ to.num <= to.den
    /\ kind \in WithdrawalKinds => CheckWithdrawal(to, fee[kind])
    /\ IF kind \in NextEpochKinds
       THEN next_fee' = [next_fee EXCEPT ![kind] = to] /\ UNCHANGED fee
       ELSE fee' = [fee EXCEPT ![kind] = to] /\ UNCHANGED next_fee
    /\ UNCHANGED <<epoch, price, last_update_epoch, preferred, accounts, fee_account>>

\* The new fee account may be any account of pool tokens.
SetManager(held) ==
    /\ held <= PoolMintSupply
    /\ tokens' = [users |-> PoolMintSupply - held, manager |-> held]
    /\ fee_account' = TRUE
    /\ UNCHANGED <<epoch, total_lamports, pool_token_supply, last_update_epoch,
                   preferred, fees, accounts>>

-----------------------------------------------------------------------------
(* The world outside *)

\* Holders may burn tokens with the token program.
BurnPoolTokens(amount) ==
    /\ amount > 0 /\ tokens.users >= amount
    /\ tokens' = [tokens EXCEPT !.users = tokens.users - amount]
    /\ UNCHANGED <<epoch, total_lamports, pool_token_supply, last_update_epoch,
                   preferred, fees, accounts, fee_account>>

CloseFeeAccount ==
    /\ fee_account /\ tokens.manager = 0
    /\ fee_account' = FALSE
    /\ UNCHANGED <<epoch, price, last_update_epoch, preferred, fees, accounts>>

Donate(lamports) ==
    /\ reserve' = reserve + lamports
    /\ UNCHANGED <<poolVars, preferred, list, stake, transient>>

\* Stake that was active until now may earn.
Active(a) == \/ a.kind \in {"Stake", "Activating"} /\ a.since < epoch
             \/ a.kind = "Deactivating" /\ a.since = epoch
WithReward(a, earned) == IF Active(a) THEN [a EXCEPT !.amount = a.amount + earned] ELSE a

NextEpoch(earned, transient_earned) ==
    /\ epoch < MaxEpoch
    /\ epoch' = epoch + 1
    /\ stake' = [v \in Validators |-> WithReward(stake[v], earned[v])]
    /\ transient' = [v \in Validators |-> [s \in Seeds |->
           WithReward(transient[v][s], transient_earned[v])]]
    /\ UNCHANGED <<price, last_update_epoch, preferred, fees, list, reserve, fee_account>>

\* When the cluster restarts, the delegations to a validator may be removed.
Destaked(a) == IF a.kind = "None" THEN a ELSE [a EXCEPT !.kind = "Initialized"]

Destake(v) ==
    /\ stake[v].kind = "Stake"
    /\ stake' = [stake EXCEPT ![v] = Destaked(stake[v])]
    /\ transient' = [transient EXCEPT ![v] = [s \in Seeds |-> Destaked(transient[v][s])]]
    /\ UNCHANGED <<poolVars, preferred, list, reserve>>

-----------------------------------------------------------------------------
(* The program *)

TradeNext ==
    \/ \E d \in Deposits :
          \/ d.stake > 0 /\ \E v \in Validators : DepositStake(v, d)
          \/ d.stake = 0 /\ DepositSol(d.sol)
    \/ \E from \in {"users", "manager"}, amount \in Withdrawals :
          \/ WithdrawReserveStake(from, amount)
          \/ \E v \in Validators : WithdrawStake(v, from, amount)
          \/ \E v \in Validators : WithdrawTransientStake(v, from, amount)
          \/ WithdrawSol(from, amount)

StakerNext ==
    \E v \in Validators :
        \/ AddValidatorToPool(v)
        \/ RemoveValidatorFromPool(v)
        \/ \E lamports \in Increases, seed \in Seeds :
              DecreaseValidatorStake(v, lamports, seed)
        \/ \E lamports \in Increases, seed \in Seeds :
              IncreaseValidatorStake(v, lamports, seed)
        \/ \E kind \in {"deposit", "withdraw"}, to \in {v, None} :
              SetPreferredValidator(kind, to)

UpdateNext ==
    \/ \E v \in Validators, no_merge \in BOOLEAN :
          UpdateValidatorListBalance(v, no_merge)
    \/ UpdateStakePoolBalance
    \/ CleanupRemovedValidatorEntries

ManagerNext ==
    \/ \E change \in FeeChanges : SetFee(change.kind, change.to)
    \/ \E held \in Withdrawals : SetManager(held)

HolderNext ==
    \/ \E amount \in Withdrawals : BurnPoolTokens(amount)
    \/ CloseFeeAccount
    \/ \E lamports \in Rewards : Donate(lamports)

ClusterNext ==
    \/ \E earned, transient_earned \in [Validators -> Rewards] :
          NextEpoch(earned, transient_earned)
    \/ \E v \in Validators : Destake(v)

Next == TradeNext \/ StakerNext \/ UpdateNext \/ ManagerNext \/ HolderNext \/ ClusterNext

Spec == Init /\ [][Next]_vars
=============================================================================
