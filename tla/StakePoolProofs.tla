-------------------------- MODULE StakePoolProofs ---------------------------
(* Proofs about StakePool for every set of validators and every amount. *)
EXTENDS StakePoolProperties, Sums

-----------------------------------------------------------------------------
(* Tokens and lamports *)

\* A quotient of natural numbers, by what it has to be multiplied with.
LEMMA Quotient ==
  ASSUME NEW n \in Nat, NEW d \in Nat \ {0}
  PROVE  /\ n \div d \in Nat /\ n % d \in Nat /\ n % d < d
         /\ n = d * (n \div d) + (n % d)
  BY Z3

\* A product is a natural number and grows with its factors.
LEMMA Products ==
  ASSUME NEW a \in Nat, NEW b \in Nat, NEW c \in Nat
  PROVE  /\ a * b \in Nat /\ a * b = b * a
         /\ b <= c => a * b <= a * c
         /\ a * b < a * c => b < c
         /\ a * (b + c) = a * b + a * c
  BY Z3

LEMMA Successor ==
  ASSUME NEW a \in Nat, NEW b \in Nat
  PROVE  a * (b + 1) = a * b + a
  BY Z3

\* Quotients grow with the dividend.
LEMMA QuotientGrows ==
  ASSUME NEW n \in Nat, NEW m \in Nat, n <= m, NEW d \in Nat \ {0}
  PROVE  n \div d <= m \div d
<1> DEFINE p == n \div d
           q == m \div d
<1>1. /\ p \in Nat /\ q \in Nat /\ n % d \in Nat /\ m % d \in Nat /\ m % d < d
      /\ n = d * p + (n % d) /\ m = d * q + (m % d)
  BY Zenon, Quotient
<1> HIDE DEF p, q
<1>2. d * p \in Nat /\ d * q \in Nat /\ d * (q + 1) = d * q + d
  BY <1>1, Products
<1>3. d * p < d * (q + 1)
  BY <1>1, <1>2
<1>4. p < q + 1
  BY <1>1, <1>3, Products
<1> QED
  BY <1>1, <1>4 DEF p, q

\* A fee of at most the whole takes at most the whole (Fee::apply).
LEMMA ApplyBound ==
  ASSUME NEW f \in Ratio, NEW amount \in Nat
  PROVE  /\ Apply(f, amount) \in Nat
         /\ f.num <= f.den => Apply(f, amount) <= amount
<1> DEFINE n == amount * f.num
           q == n \div f.den
<1>1. f.num \in Nat /\ f.den \in Nat
  BY Zenon DEF Ratio
<1>2. CASE f.den = 0
  BY <1>2 DEF Apply
<1>3. CASE f.den # 0
  <2>1. n \in Nat
    BY Zenon, <1>1, Products
  <2>2. Apply(f, amount) = q
    BY Zenon, <1>3 DEF Apply
  <2> HIDE DEF n
  <2>3. q \in Nat /\ f.den * q <= n
    <3>1. q \in Nat /\ n % f.den \in Nat /\ n = f.den * q + (n % f.den)
      BY Zenon, <1>1, <1>3, <2>1, Quotient
    <3>2. f.den * q \in Nat
      BY Zenon, <1>1, <3>1, Products
    <3> QED
      BY <3>1, <3>2
  <2> HIDE DEF q
  <2>4. ASSUME f.num <= f.den PROVE q <= amount
    <3>1. n <= f.den * amount
      BY Zenon, <1>1, <2>4, Products DEF n
    <3>2. CASE q = amount
      BY <3>2
    <3>3. CASE amount < q
      <4>1. f.den * (amount + 1) <= f.den * q
        BY <1>1, <2>3, <3>3, Products
      <4>2. f.den * (amount + 1) = f.den * amount + f.den
        BY Zenon, <1>1, Successor
      <4>3. f.den * amount \in Nat /\ f.den * q \in Nat
        BY Zenon, <1>1, <2>3, Products
      <4> QED
        BY <1>1, <1>3, <2>1, <2>3, <3>1, <4>1, <4>2, <4>3
    <3> QED
      BY <2>3, <3>2, <3>3
  <2> QED
    BY Zenon, <2>2, <2>3, <2>4
<1> QED
  BY Zenon, <1>1, <1>2, <1>3

\* The tokens of a deposit are never worth more than the deposit
\* (calc_pool_tokens_for_deposit rounds down).
LEMMA DepositTokens ==
  ASSUME NEW total \in Nat, NEW supply \in Nat, NEW lamports \in Nat
  PROVE  /\ TokensForDeposit(total, supply, lamports) \in Nat
         /\ supply > 0 => total * TokensForDeposit(total, supply, lamports) <= lamports * supply
<1>1. CASE total = 0 \/ supply = 0
  <2>1. TokensForDeposit(total, supply, lamports) = lamports
    BY Zenon, <1>1 DEF TokensForDeposit
  <2> QED
    BY <1>1, <2>1, Products
<1>2. CASE ~(total = 0 \/ supply = 0)
  <2> DEFINE n == lamports * supply
  <2>1. n \in Nat
    BY Zenon, Products
  <2>2. TokensForDeposit(total, supply, lamports) = n \div total
    BY Zenon, <1>2 DEF TokensForDeposit
  <2> HIDE DEF n
  <2>3. n \div total \in Nat /\ total * (n \div total) <= n
    BY <1>2, <2>1, Quotient, Products
  <2> QED
    BY Zenon, <2>2, <2>3 DEF n
<1> QED
  BY Zenon, <1>1, <1>2

\* What a withdrawal pays is the value of the tokens, rounded up to a lamport
\* (calc_lamports_withdraw_amount).
LEMMA WithdrawnLamports ==
  ASSUME NEW total \in Nat, NEW supply \in Nat, NEW amount \in Nat
  PROVE  LET paid == LamportsWithdrawn(total, supply, amount)
         IN  /\ paid \in Nat
             /\ supply > 0 => supply * paid < amount * total + supply
<1> DEFINE n == amount * total
<1>1. n \in Nat
  BY Zenon, Products
<1>2. CASE n < supply \/ supply = 0
  <2>1. LamportsWithdrawn(total, supply, amount) = 0
    BY Zenon, <1>2 DEF LamportsWithdrawn
  <2> QED
    BY <1>1, <2>1
<1>3. CASE ~(n < supply \/ supply = 0)
  <2>1. LamportsWithdrawn(total, supply, amount) = CeilDiv(n, supply)
    BY Zenon, <1>3 DEF LamportsWithdrawn
  <2> HIDE DEF n
  <2>2. /\ n \div supply \in Nat /\ n % supply \in Nat
        /\ n = supply * (n \div supply) + (n % supply)
    BY Zenon, <1>1, <1>3, Quotient
  <2> DEFINE q == n \div supply
  <2>3. supply * (q + 1) = supply * q + supply /\ supply * q \in Nat
    BY <2>2, Products
  <2> QED
    BY <1>1, <1>3, <2>1, <2>2, <2>3 DEF CeilDiv, n
<1> QED
  BY Zenon, <1>2, <1>3

\* Withdrawing what a deposit paid for returns at most the deposit.
THEOREM RoundTrip ==
  ASSUME NEW total \in Nat \ {0}, NEW supply \in Nat \ {0}, NEW lamports \in Nat
  PROVE  LET amount == TokensForDeposit(total, supply, lamports)
         IN  LamportsWithdrawn(total + lamports, supply + amount, amount) <= lamports
<1> DEFINE amount == TokensForDeposit(total, supply, lamports)
           paid == LamportsWithdrawn(total + lamports, supply + amount, amount)
<1>1. amount \in Nat /\ total * amount <= lamports * supply
  BY DepositTokens
<1> HIDE DEF amount
<1> DEFINE more == supply + amount
           sum == total + lamports
<1>2. paid \in Nat /\ (supply + amount) * paid < amount * (total + lamports) + (supply + amount)
  <2>1. more \in Nat /\ sum \in Nat /\ more > 0
    BY <1>1
  <2> HIDE DEF more, sum
  <2>2. /\ LamportsWithdrawn(sum, more, amount) \in Nat
        /\ more * LamportsWithdrawn(sum, more, amount) < amount * sum + more
    BY Zenon, <1>1, <2>1, WithdrawnLamports
  <2> QED
    BY Zenon, <2>2 DEF more, sum
<1> HIDE DEF paid
<1>3. amount * (total + lamports) <= (supply + amount) * lamports
  BY <1>1
<1>4. (supply + amount) * paid < (supply + amount) * (lamports + 1)
  BY <1>1, <1>2, <1>3
<1>5. paid < lamports + 1
  BY <1>1, <1>2, <1>4, Products
<1> QED
  BY <1>2, <1>5 DEF amount, paid

\* A deposit lowers the value of no token, and a withdrawal by less than the
\* lamport it is rounded up by.
THEOREM TradesKeepPrice ==
  ASSUME NEW total \in Nat, NEW supply \in Nat \ {0}, NEW lamports \in Nat,
         NEW amount \in Nat
  PROVE  /\ total * (supply + TokensForDeposit(total, supply, lamports))
                <= (total + lamports) * supply
         /\ total * (supply - amount)
                < (total - LamportsWithdrawn(total, supply, amount)) * supply + supply
<1> DEFINE tokens_for == TokensForDeposit(total, supply, lamports)
           paid == LamportsWithdrawn(total, supply, amount)
<1>1. tokens_for \in Nat /\ total * tokens_for <= lamports * supply
  BY DepositTokens
<1>2. paid \in Nat /\ supply * paid < amount * total + supply
  BY WithdrawnLamports
<1> HIDE DEF tokens_for, paid
<1>3. total * (supply + tokens_for) <= (total + lamports) * supply
  BY <1>1
<1>4. total * (supply - amount) < (total - paid) * supply + supply
  BY <1>2
<1> QED
  BY Zenon, <1>3, <1>4 DEF tokens_for, paid

\* The epoch fee is paid from the growth alone: the tokens minted for it leave
\* the others at least their share of what the pool had before.
THEOREM EpochFeeKeepsPrice ==
  ASSUME NEW total \in Nat, NEW supply \in Nat \ {0}, NEW reward \in Nat,
         NEW f \in Ratio, f.num <= f.den
  PROVE  /\ EpochFee(total, supply, f, reward) \in Nat
         /\ total * (supply + EpochFee(total, supply, f, reward))
                <= (total + reward) * supply
<1> DEFINE fl == Apply(f, reward)
           minted == EpochFee(total, supply, f, reward)
<1>1. fl \in Nat /\ fl <= reward
  BY Zenon, ApplyBound
<1> HIDE DEF fl
<1>2. CASE reward = 0
  <2>1. minted = 0
    BY Zenon, <1>2 DEF EpochFee
  <2> QED
    BY <1>2, <2>1
<1>3. CASE reward # 0 /\ total + reward = fl
  <2>1. minted = reward /\ total = 0
    BY <1>1, <1>3 DEF EpochFee, fl
  <2> QED
    BY <2>1
<1>4. CASE reward # 0 /\ total + reward # fl
  <2> DEFINE n == supply * fl
             d == total + reward - fl
             q == n \div d
  <2>1. minted = q
    BY Zenon, <1>1, <1>4 DEF EpochFee, fl
  <2>2. n \in Nat /\ d \in Nat \ {0} /\ total <= d
    BY <1>1, <1>4, Products
  <2>3. n = supply * fl /\ d + fl = total + reward
    BY <1>1
  <2> HIDE DEF n, d
  <2>4. q \in Nat /\ d * q <= n
    BY <2>2, Quotient, Products
  <2> HIDE DEF q
  <2>5. q * total <= q * d
    BY Zenon, <2>2, <2>4, Products
  <2>6. supply * total <= supply * d
    BY Zenon, <2>2, Products
  <2>7. total * (supply + q) <= supply * d + supply * fl
    BY <1>1, <2>2, <2>3, <2>4, <2>5, <2>6
  <2>8. supply * d + supply * fl = (total + reward) * supply
    BY <1>1, <2>2, <2>3
  <2> HIDE DEF minted
  <2>9. total * (supply + minted) <= (total + reward) * supply
    BY Zenon, <2>1, <2>7, <2>8
  <2> QED
    BY Zenon, <2>1, <2>4, <2>9 DEF minted
<1> QED
  BY Zenon, <1>2, <1>3, <1>4

-----------------------------------------------------------------------------
(* Types *)

\* No fee is more than the whole.
FeesInRange ==
    /\ \A k \in FeeKinds : fee[k].num <= fee[k].den
    /\ \A k \in NextEpochKinds : next_fee[k] # None => next_fee[k].num <= next_fee[k].den

Inv == TypeOK /\ FeesInRange

\* The constants as numbers.
LEMMA Numbers ==
  /\ MaxU64 \in Nat /\ MaxEpoch \in Nat /\ Rent \in Nat /\ MinimumReserve \in Nat
  /\ MinimumActive \in Nat /\ MinimumActive > 0
  /\ MinimumReserveLamports \in Nat /\ MinimumReserveLamports >= Rent
  /\ 0 \in Seeds /\ 0 \in Epochs /\ 0 \in Amounts
  /\ \A x : x \in Amounts <=> x \in Nat /\ x <= MaxU64
  /\ \A x : x \in Epochs <=> x \in Nat /\ x <= MaxEpoch
<1>1. /\ MaxU64 \in Nat /\ MaxEpoch \in Nat /\ Rent \in Nat /\ MinimumReserve \in Nat
      /\ MinimumActive \in Nat /\ MinimumActive > 0 /\ 0 \in Seeds
  BY StakePoolAssumption
<1> QED
  BY <1>1 DEF MinimumReserveLamports, Amounts, Epochs

\* What the inputs are.
LEMMA Inputs ==
  /\ \A d \in Deposits : d.stake \in Nat /\ d.sol \in Nat
  /\ \A n \in Increases \cup Withdrawals \cup Rewards : n \in Nat
  /\ \A c \in FeeChanges : c.kind \in FeeKinds /\ c.to \in Ratio
  /\ \A n \in Reserves : n \in Nat /\ n >= MinimumReserveLamports /\ n <= MaxU64
  BY Zenon, StakePoolAssumption, Numbers DEF MinimumReserveLamports

\* Records with some fields written.
LEMMA Records ==
  /\ NoEntry \in Entries /\ NoStake \in StakeAccounts /\ NoStake \in TransientAccounts
  /\ \A r \in Entries, n \in Nat :
        /\ [r EXCEPT !.active = n] \in Entries
        /\ [r EXCEPT !.transient = n] \in Entries
        /\ \A s \in Seeds : [r EXCEPT !.transient = n, !.seed = s] \in Entries
        /\ \A m \in Nat, s \in Seeds :
              [r EXCEPT !.active = m, !.transient = n, !.seed = s] \in Entries
  /\ \A r \in Entries, st \in StakeStatuses : [r EXCEPT !.status = st] \in Entries
  /\ \A a \in StakeAccounts, n \in Nat : [a EXCEPT !.amount = n] \in StakeAccounts
  /\ \A a \in TransientAccounts, n \in Nat : [a EXCEPT !.amount = n] \in TransientAccounts
  /\ \A a \in StakeAccounts : [a EXCEPT !.kind = "Initialized"] \in StakeAccounts
  /\ \A a \in TransientAccounts : [a EXCEPT !.kind = "Initialized"] \in TransientAccounts
<1>1. 0 \in Epochs /\ 0 \in Seeds
  BY Zenon, Numbers
<1> QED
  BY Zenon, <1>1 DEF NoEntry, NoStake, Entries, StakeStatuses, StakeAccounts, TransientAccounts

\* The parts of a state that a proof looks at.
LEMMA Parts ==
  ASSUME TypeOK, NEW v \in Validators
  PROVE  /\ list[v] \in Entries /\ stake[v] \in StakeAccounts
         /\ list[v].active \in Nat /\ list[v].transient \in Nat /\ list[v].seed \in Seeds
         /\ list[v].last_update \in Epochs /\ list[v].status \in StakeStatuses
         /\ stake[v].amount \in Nat /\ stake[v].since \in Epochs
         /\ Transient(v) \in TransientAccounts /\ Transient(v).amount \in Nat
         /\ \A s \in Seeds : transient[v][s] \in TransientAccounts
<1>1. list[v] \in Entries /\ stake[v] \in StakeAccounts
      /\ \A s \in Seeds : transient[v][s] \in TransientAccounts
  BY DEF TypeOK
<1>2. list[v].seed \in Seeds
  BY Zenon, <1>1 DEF Entries
<1>3. Transient(v) \in TransientAccounts
  BY Zenon, <1>1, <1>2 DEF Transient
<1> QED
  BY Zenon, <1>1, <1>2, <1>3 DEF Entries, StakeAccounts, TransientAccounts

\* Fees of the pool are ratios of at most the whole.
LEMMA FeeBound ==
  ASSUME Inv, NEW k \in FeeKinds, NEW amount \in Nat
  PROVE  /\ fee[k] \in Ratio /\ Apply(fee[k], amount) \in Nat
         /\ Apply(fee[k], amount) <= amount
<1>1. fee[k] \in Ratio /\ fee[k].num <= fee[k].den
  BY Zenon DEF Inv, TypeOK, FeesInRange
<1> QED
  BY Zenon, <1>1, ApplyBound

\* Minting adds the whole amount to the tokens and to the supply.
LEMMA Minting ==
  ASSUME Inv, NEW amount \in Nat, NEW paid \in Nat, NEW k \in FeeKinds,
         MintTokens(amount, paid, fee[k])
  PROVE  /\ tokens' \in [users : Nat, manager : Nat]
         /\ pool_token_supply' \in Amounts
         /\ pool_token_supply' = pool_token_supply + amount
         /\ PoolMintSupply' = PoolMintSupply + amount
<1> DEFINE share == Apply(fee[k], paid)
<1>1. share \in Nat /\ share <= paid
  BY Zenon, FeeBound
<1>2. tokens \in [users : Nat, manager : Nat]
  BY Zenon DEF Inv, TypeOK
<1>3. /\ amount > paid
      /\ tokens' = [users   |-> tokens.users + (amount - paid) + share,
                    manager |-> tokens.manager + (paid - share)]
      /\ pool_token_supply' \in Amounts
      /\ pool_token_supply' = pool_token_supply + amount
  BY Zenon DEF MintTokens
<1> HIDE DEF share
<1>4. tokens.users \in Nat /\ tokens.manager \in Nat
  BY Zenon, <1>2
<1>5. /\ tokens.users + (amount - paid) + share \in Nat
      /\ tokens.manager + (paid - share) \in Nat
  BY <1>1, <1>3, <1>4
<1>6. tokens' \in [users : Nat, manager : Nat]
  BY Zenon, <1>3, <1>5
<1>7. PoolMintSupply' = PoolMintSupply + amount
  BY <1>1, <1>3, <1>4, <1>5 DEF PoolMintSupply
<1> QED
  BY Zenon, <1>3, <1>6, <1>7

\* A withdrawal takes what it burns from the tokens and from the supply.
LEMMA Burning ==
  ASSUME Inv, NEW k \in WithdrawalKinds, NEW from \in {"users", "manager"},
         NEW amount \in Nat, BurnTokens(k, from, amount)
  PROVE  /\ Burnt(k, from, amount) \in Nat /\ Withdrawn(k, from, amount) \in Nat
         /\ tokens' \in [users : Nat, manager : Nat]
         /\ pool_token_supply' \in Amounts /\ total_lamports' \in Amounts
         /\ pool_token_supply' = pool_token_supply - Burnt(k, from, amount)
         /\ PoolMintSupply' = PoolMintSupply - Burnt(k, from, amount)
<1> DEFINE paid == WithdrawalFee(k, from, amount)
           burnt == Burnt(k, from, amount)
           lamports == Withdrawn(k, from, amount)
<1>1. k \in FeeKinds
  BY Zenon DEF WithdrawalKinds, FeeKinds
<1>2. paid \in Nat /\ paid <= amount
  BY <1>1, FeeBound DEF WithdrawalFee
<1>3. from = "manager" => paid = 0
  BY Zenon DEF WithdrawalFee
<1>4. burnt = amount - paid
  BY Zenon DEF Burnt
<1> HIDE DEF paid
<1>5. burnt \in Nat
  BY <1>2, <1>4
<1>6. total_lamports \in Nat /\ pool_token_supply \in Nat
      /\ total_lamports <= MaxU64 /\ pool_token_supply <= MaxU64
  BY Zenon, Numbers DEF Inv, TypeOK
<1>7. lamports \in Nat
  <2>1. lamports = LamportsWithdrawn(total_lamports, pool_token_supply, burnt)
    BY Zenon DEF Withdrawn
  <2> HIDE DEF burnt
  <2> QED
    BY <1>5, <1>6, <2>1, WithdrawnLamports
<1>8. /\ tokens[from] >= amount /\ pool_token_supply >= burnt /\ total_lamports >= lamports
      /\ tokens' = IF from = "users"
                   THEN [users |-> tokens.users - amount, manager |-> tokens.manager + paid]
                   ELSE [tokens EXCEPT !.manager = tokens.manager - amount]
      /\ pool_token_supply' = pool_token_supply - burnt
      /\ total_lamports' = total_lamports - lamports
  BY Zenon DEF BurnTokens, paid
<1> HIDE DEF burnt, lamports
<1>9. pool_token_supply' \in Amounts /\ total_lamports' \in Amounts
  BY <1>5, <1>6, <1>7, <1>8, Numbers
<1>10. tokens \in [users : Nat, manager : Nat]
  BY Zenon DEF Inv, TypeOK
<1>11. tokens.users \in Nat /\ tokens.manager \in Nat
  BY Zenon, <1>10
<1>12. CASE from = "users"
  <2>1. tokens' = [users |-> tokens.users - amount, manager |-> tokens.manager + paid]
    BY Zenon, <1>8, <1>12
  <2>2. tokens.users >= amount
    BY Zenon, <1>8, <1>12
  <2>3. tokens.users - amount \in Nat /\ tokens.manager + paid \in Nat
    BY <1>2, <1>11, <2>2
  <2>4. tokens' \in [users : Nat, manager : Nat]
    BY Zenon, <2>1, <2>3
  <2>5. PoolMintSupply' = PoolMintSupply - burnt
    BY <1>2, <1>4, <1>11, <2>1, <2>3 DEF PoolMintSupply
  <2> QED
    BY Zenon, <1>5, <1>7, <1>8, <1>9, <2>4, <2>5 DEF burnt, lamports
<1>13. CASE from = "manager"
  <2>1. tokens' = [tokens EXCEPT !.manager = tokens.manager - amount]
    BY Zenon, <1>8, <1>13
  <2>2. tokens.manager >= amount
    BY Zenon, <1>8, <1>13
  <2>3. tokens.manager - amount \in Nat
    BY <1>11, <2>2
  <2>4. tokens' \in [users : Nat, manager : Nat]
    BY Zenon, <1>10, <2>1, <2>3
  <2>5. tokens'.users = tokens.users /\ tokens'.manager = tokens.manager - amount
    BY Zenon, <1>10, <2>1
  <2>6. PoolMintSupply' = PoolMintSupply - burnt
    BY <1>2, <1>3, <1>4, <1>11, <1>13, <2>3, <2>5 DEF PoolMintSupply
  <2> QED
    BY Zenon, <1>5, <1>7, <1>8, <1>9, <2>4, <2>6 DEF burnt, lamports
<1> QED
  BY Zenon, <1>12, <1>13

\* Tokens and supply change by the same amount in a deposit and in a withdrawal.
LEMMA MintingCovers ==
  ASSUME Inv, NEW amount \in Nat, NEW paid \in Nat, NEW k \in FeeKinds,
         MintTokens(amount, paid, fee[k])
  PROVE  /\ tokens' \in [users : Nat, manager : Nat]
         /\ pool_token_supply' \in Amounts
         /\ SupplyCovers => SupplyCovers'
<1>1. tokens \in [users : Nat, manager : Nat] /\ pool_token_supply \in Nat
  BY Zenon, Numbers DEF Inv, TypeOK
<1>2. PoolMintSupply \in Nat
  BY <1>1 DEF PoolMintSupply
<1>3. /\ tokens' \in [users : Nat, manager : Nat] /\ pool_token_supply' \in Amounts
      /\ pool_token_supply' = pool_token_supply + amount
      /\ PoolMintSupply' = PoolMintSupply + amount
  BY Zenon, Minting
<1>4. SupplyCovers => SupplyCovers'
  BY <1>1, <1>2, <1>3 DEF SupplyCovers
<1> QED
  BY Zenon, <1>3, <1>4

LEMMA BurningCovers ==
  ASSUME Inv, NEW k \in WithdrawalKinds, NEW from \in {"users", "manager"},
         NEW amount \in Nat, BurnTokens(k, from, amount)
  PROVE  /\ Withdrawn(k, from, amount) \in Nat
         /\ tokens' \in [users : Nat, manager : Nat]
         /\ pool_token_supply' \in Amounts /\ total_lamports' \in Amounts
         /\ SupplyCovers => SupplyCovers'
<1>1. tokens \in [users : Nat, manager : Nat] /\ pool_token_supply \in Nat
  BY Zenon, Numbers DEF Inv, TypeOK
<1>2. PoolMintSupply \in Nat
  BY <1>1 DEF PoolMintSupply
<1>3. /\ Burnt(k, from, amount) \in Nat /\ Withdrawn(k, from, amount) \in Nat
      /\ tokens' \in [users : Nat, manager : Nat]
      /\ pool_token_supply' \in Amounts /\ total_lamports' \in Amounts
      /\ pool_token_supply' = pool_token_supply - Burnt(k, from, amount)
      /\ PoolMintSupply' = PoolMintSupply - Burnt(k, from, amount)
  BY Zenon, Burning
<1>4. SupplyCovers => SupplyCovers'
  BY <1>1, <1>2, <1>3 DEF SupplyCovers
<1> QED
  BY Zenon, <1>3, <1>4

\* Deposits and withdrawals keep the types.
LEMMA TradeTypes ==
  ASSUME Inv, TradeNext
  PROVE  Inv' /\ (SupplyCovers => SupplyCovers')
<1>1. TypeOK
  BY Zenon DEF Inv
<1>2. total_lamports \in Nat /\ pool_token_supply \in Nat /\ reserve \in Nat
  BY Zenon, <1>1, Numbers DEF TypeOK
<1>3. ASSUME NEW d \in Deposits, NEW v \in Validators, DepositStake(v, d)
      PROVE  Inv' /\ (SupplyCovers => SupplyCovers')
  <2> DEFINE amount == TokensForDeposit(total_lamports, pool_token_supply, d.stake + d.sol)
             from_stake == TokensForDeposit(total_lamports, pool_token_supply, d.stake)
             paid == Apply(fee["stake_deposit"], from_stake)
                     + Apply(fee["sol_deposit"], amount - from_stake)
  <2>1. d.stake \in Nat /\ d.sol \in Nat /\ d.stake + d.sol \in Nat
    BY Inputs
  <2>2. amount \in Nat /\ from_stake \in Nat
    BY Zenon, <1>2, <2>1, DepositTokens
  <2>3. MintTokens(amount, paid, fee["stake_referral"])
    BY Zenon, <1>3 DEF DepositStake
  <2>4. from_stake <= amount
    <3>1. CASE total_lamports = 0 \/ pool_token_supply = 0
      BY <2>1, <3>1 DEF TokensForDeposit
    <3>2. CASE ~(total_lamports = 0 \/ pool_token_supply = 0)
      <4> DEFINE n == d.stake * pool_token_supply
                 m == (d.stake + d.sol) * pool_token_supply
      <4>1. n \in Nat /\ m \in Nat /\ n <= m
        BY <1>2, <2>1, Products
      <4>2. from_stake = n \div total_lamports /\ amount = m \div total_lamports
        BY Zenon, <3>2 DEF TokensForDeposit
      <4> HIDE DEF n, m, amount, from_stake
      <4>3. n \div total_lamports <= m \div total_lamports
        BY Zenon, <1>2, <3>2, <4>1, QuotientGrows
      <4> QED
        BY Zenon, <4>2, <4>3
    <3> QED
      BY Zenon, <3>1, <3>2
  <2> HIDE DEF amount, from_stake
  <2>5. paid \in Nat
    <3>1. amount - from_stake \in Nat
      BY <2>2, <2>4
    <3>2. "stake_deposit" \in FeeKinds /\ "sol_deposit" \in FeeKinds
      BY Zenon DEF FeeKinds
    <3> QED
      BY <2>2, <3>1, <3>2, FeeBound
  <2> HIDE DEF paid
  <2>6. tokens' \in [users : Nat, manager : Nat] /\ pool_token_supply' \in Amounts
        /\ (SupplyCovers => SupplyCovers')
    BY Zenon, <2>2, <2>3, <2>5, MintingCovers DEF FeeKinds
  <2>7. /\ total_lamports' \in Amounts /\ reserve' \in Nat
        /\ stake' = [stake EXCEPT ![v].amount = stake[v].amount + d.stake]
        /\ list' = [list EXCEPT ![v].active = stake[v].amount + d.stake - MinimumActive]
        /\ stake[v].amount + d.stake >= MinimumActive
        /\ UNCHANGED <<epoch, last_update_epoch, preferred, fees, transient, fee_account>>
    BY <1>2, <1>3, <2>1 DEF DepositStake
  <2>8. /\ stake[v].amount + d.stake \in Nat
        /\ stake[v].amount + d.stake - MinimumActive \in Nat
    BY <1>1, <2>1, <2>7, Parts, Numbers
  <2>9. /\ [stake[v] EXCEPT !.amount = stake[v].amount + d.stake] \in StakeAccounts
        /\ [list[v] EXCEPT !.active = stake[v].amount + d.stake - MinimumActive] \in Entries
    BY Zenon, <1>1, <2>8, Parts, Records
  <2>10. stake' \in [Validators -> StakeAccounts] /\ list' \in [Validators -> Entries]
    BY Zenon, <1>1, <2>7, <2>9 DEF TypeOK
  <2> QED
    BY Zenon, <2>6, <2>7, <2>10 DEF Inv, TypeOK, FeesInRange, fees
<1>4. ASSUME NEW d \in Deposits, DepositSol(d.sol)
      PROVE  Inv' /\ (SupplyCovers => SupplyCovers')
  <2> DEFINE amount == TokensForDeposit(total_lamports, pool_token_supply, d.sol)
             paid == Apply(fee["sol_deposit"], amount)
  <2>1. d.sol \in Nat
    BY Zenon, Inputs
  <2>2. amount \in Nat
    BY Zenon, <1>2, <2>1, DepositTokens
  <2>3. MintTokens(amount, paid, fee["sol_referral"])
    BY Zenon, <1>4 DEF DepositSol
  <2> HIDE DEF amount
  <2>4. paid \in Nat
    BY Zenon, <2>2, FeeBound DEF FeeKinds
  <2> HIDE DEF paid
  <2>5. tokens' \in [users : Nat, manager : Nat] /\ pool_token_supply' \in Amounts
        /\ (SupplyCovers => SupplyCovers')
    BY Zenon, <2>2, <2>3, <2>4, MintingCovers DEF FeeKinds
  <2>6. /\ total_lamports' \in Amounts /\ reserve' \in Nat
        /\ UNCHANGED <<epoch, last_update_epoch, preferred, fees, list, stake, transient, fee_account>>
    BY <1>2, <1>4, <2>1 DEF DepositSol
  <2> QED
    BY Zenon, <2>5, <2>6 DEF Inv, TypeOK, FeesInRange, fees
<1>5. ASSUME NEW k \in WithdrawalKinds, NEW from \in {"users", "manager"},
             NEW amount \in Withdrawals, BurnTokens(k, from, amount)
      PROVE  /\ Withdrawn(k, from, amount) \in Nat
             /\ list' \in [Validators -> Entries] /\ stake' \in [Validators -> StakeAccounts]
                /\ transient' \in [Validators -> [Seeds -> TransientAccounts]]
                /\ reserve' \in Nat
                => Inv' /\ (SupplyCovers => SupplyCovers')
  <2>1. amount \in Nat
    BY Zenon, Inputs
  <2>2. /\ Withdrawn(k, from, amount) \in Nat
        /\ tokens' \in [users : Nat, manager : Nat]
        /\ pool_token_supply' \in Amounts /\ total_lamports' \in Amounts
        /\ (SupplyCovers => SupplyCovers')
    BY Zenon, <1>5, <2>1, BurningCovers
  <2>3. UNCHANGED <<epoch, last_update_epoch, preferred, fees, fee_account>>
    BY Zenon, <1>5 DEF BurnTokens
  <2> QED
    BY Zenon, <2>2, <2>3 DEF Inv, TypeOK, FeesInRange, fees
<1>6. ASSUME NEW from \in {"users", "manager"}, NEW amount \in Withdrawals,
             WithdrawReserveStake(from, amount)
      PROVE  Inv' /\ (SupplyCovers => SupplyCovers')
  <2>1. BurnTokens("stake_withdrawal", from, amount) /\ "stake_withdrawal" \in WithdrawalKinds
    BY Zenon, <1>6 DEF WithdrawReserveStake, WithdrawalKinds
  <2> DEFINE lamports == Withdrawn("stake_withdrawal", from, amount)
  <2>2. lamports \in Nat
    BY Zenon, <1>5, <2>1
  <2>3. reserve - lamports >= Rent /\ reserve' = reserve - lamports
        /\ UNCHANGED <<list, stake, transient>>
    BY Zenon, <1>6 DEF WithdrawReserveStake
  <2> HIDE DEF lamports
  <2>4. reserve' \in Nat
    BY <1>2, <2>2, <2>3, Numbers
  <2> QED
    BY Zenon, <1>1, <1>5, <2>1, <2>3, <2>4 DEF TypeOK
<1>7. ASSUME NEW from \in {"users", "manager"}, NEW amount \in Withdrawals,
             WithdrawSol(from, amount)
      PROVE  Inv' /\ (SupplyCovers => SupplyCovers')
  <2>1. BurnTokens("sol_withdrawal", from, amount) /\ "sol_withdrawal" \in WithdrawalKinds
    BY Zenon, <1>7 DEF WithdrawSol, WithdrawalKinds
  <2> DEFINE lamports == Withdrawn("sol_withdrawal", from, amount)
  <2>2. lamports \in Nat
    BY Zenon, <1>5, <2>1
  <2>3. reserve - lamports >= MinimumReserveLamports /\ reserve' = reserve - lamports
        /\ UNCHANGED <<list, stake, transient>>
    BY Zenon, <1>7 DEF WithdrawSol
  <2> HIDE DEF lamports
  <2>4. reserve' \in Nat
    BY <1>2, <2>2, <2>3, Numbers
  <2> QED
    BY Zenon, <1>1, <1>5, <2>1, <2>3, <2>4 DEF TypeOK
<1>8. ASSUME NEW v \in Validators, NEW from \in {"users", "manager"},
             NEW amount \in Withdrawals, WithdrawStake(v, from, amount)
      PROVE  Inv' /\ (SupplyCovers => SupplyCovers')
  <2>1. BurnTokens("stake_withdrawal", from, amount) /\ "stake_withdrawal" \in WithdrawalKinds
    BY Zenon, <1>8 DEF WithdrawStake, WithdrawalKinds
  <2> DEFINE lamports == Withdrawn("stake_withdrawal", from, amount)
  <2>2. lamports \in Nat
    BY Zenon, <1>5, <2>1
  <2>3. /\ stake[v].amount - lamports >= MinimumActive /\ list[v].active >= lamports
        /\ stake' = [stake EXCEPT ![v].amount = stake[v].amount - lamports]
        /\ list' = [list EXCEPT ![v].active = list[v].active - lamports]
        /\ UNCHANGED <<transient, reserve>>
    BY Zenon, <1>8 DEF WithdrawStake
  <2> HIDE DEF lamports
  <2>4. stake[v].amount - lamports \in Nat /\ list[v].active - lamports \in Nat
    BY <1>1, <2>2, <2>3, Parts, Numbers
  <2>5. /\ [stake[v] EXCEPT !.amount = stake[v].amount - lamports] \in StakeAccounts
        /\ [list[v] EXCEPT !.active = list[v].active - lamports] \in Entries
    BY Zenon, <1>1, <2>4, Parts, Records
  <2>6. stake' \in [Validators -> StakeAccounts] /\ list' \in [Validators -> Entries]
    BY Zenon, <1>1, <2>3, <2>5 DEF TypeOK
  <2> QED
    BY Zenon, <1>1, <1>5, <2>1, <2>3, <2>6 DEF TypeOK
<1>9. ASSUME NEW v \in Validators, NEW from \in {"users", "manager"},
             NEW amount \in Withdrawals, WithdrawTransientStake(v, from, amount)
      PROVE  Inv' /\ (SupplyCovers => SupplyCovers')
  <2>1. BurnTokens("stake_withdrawal", from, amount) /\ "stake_withdrawal" \in WithdrawalKinds
    BY Zenon, <1>9 DEF WithdrawTransientStake, WithdrawalKinds
  <2> DEFINE lamports == Withdrawn("stake_withdrawal", from, amount)
             rest == [Transient(v) EXCEPT !.amount = Transient(v).amount - lamports]
  <2>2. lamports \in Nat
    BY Zenon, <1>5, <2>1
  <2>3. /\ Transient(v).amount - lamports >= MinimumActive /\ list[v].transient >= lamports
        /\ transient' = [transient EXCEPT ![v][list[v].seed] = rest]
        /\ list' = [list EXCEPT ![v].transient = list[v].transient - lamports]
        /\ UNCHANGED <<stake, reserve>>
    BY Zenon, <1>9 DEF WithdrawTransientStake
  <2> HIDE DEF lamports
  <2>4. Transient(v).amount - lamports \in Nat /\ list[v].transient - lamports \in Nat
    BY <1>1, <2>2, <2>3, Parts, Numbers
  <2>5. rest \in TransientAccounts
        /\ [list[v] EXCEPT !.transient = list[v].transient - lamports] \in Entries
    BY Zenon, <1>1, <2>4, Parts, Records
  <2> HIDE DEF rest
  <2>6. /\ transient' \in [Validators -> [Seeds -> TransientAccounts]]
        /\ list' \in [Validators -> Entries]
    BY Zenon, <1>1, <2>3, <2>5 DEF TypeOK
  <2> QED
    BY Zenon, <1>1, <1>5, <2>1, <2>3, <2>6 DEF TypeOK
<1> QED
  BY Zenon, <1>3, <1>4, <1>6, <1>7, <1>8, <1>9 DEF TradeNext

\* The staker's instructions keep the types.
LEMMA StakerTypes ==
  ASSUME Inv, StakerNext
  PROVE  Inv'
<1>1. TypeOK
  BY Zenon DEF Inv
<1>2. PICK v \in Validators :
        \/ AddValidatorToPool(v)
        \/ RemoveValidatorFromPool(v)
        \/ \E lamports \in Increases, seed \in Seeds : DecreaseValidatorStake(v, lamports, seed)
        \/ \E lamports \in Increases, seed \in Seeds : IncreaseValidatorStake(v, lamports, seed)
        \/ \E kind \in {"deposit", "withdraw"}, to \in {v, None} : SetPreferredValidator(kind, to)
  BY Zenon DEF StakerNext
<1>3. ASSUME UNCHANGED poolVars,
             list' \in [Validators -> Entries], stake' \in [Validators -> StakeAccounts],
             transient' \in [Validators -> [Seeds -> TransientAccounts]], reserve' \in Nat,
             preferred' \in [deposit : Validators \cup {None}, withdraw : Validators \cup {None}]
      PROVE  Inv'
  BY Zenon, <1>3 DEF Inv, TypeOK, FeesInRange, poolVars, price, fees
<1>4. CASE AddValidatorToPool(v)
  <2> DEFINE a == [kind |-> "Stake", amount |-> MinimumActive, since |-> epoch]
             e == [status |-> "Active", active |-> 0, transient |-> 0,
                   last_update |-> epoch, seed |-> 0]
  <2>1. a \in StakeAccounts /\ e \in Entries
    BY Zenon, <1>1, Numbers DEF TypeOK, StakeAccounts, Entries, StakeStatuses
  <2>2. /\ stake' = [stake EXCEPT ![v] = a] /\ list' = [list EXCEPT ![v] = e]
        /\ UNCHANGED <<poolVars, preferred, transient, reserve>>
    BY Zenon, <1>4 DEF AddValidatorToPool
  <2> HIDE DEF a, e
  <2> QED
    BY Zenon, <1>1, <1>3, <2>1, <2>2 DEF TypeOK
<1>5. CASE RemoveValidatorFromPool(v)
  <2>1. RemovedStatus(v) \in StakeStatuses
    BY Zenon DEF RemovedStatus, StakeStatuses
  <2>2. [list[v] EXCEPT !.status = RemovedStatus(v)] \in Entries
    BY Zenon, <1>1, <2>1, Parts, Records
  <2>3. /\ stake' = [stake EXCEPT ![v] = NoStake]
        /\ list' = [list EXCEPT ![v].status = RemovedStatus(v)]
        /\ preferred' = [k \in {"deposit", "withdraw"} |->
               IF preferred[k] = v THEN None ELSE preferred[k]]
        /\ UNCHANGED <<poolVars, transient, reserve>>
    BY Zenon, <1>5 DEF RemoveValidatorFromPool
  <2>4. preferred' \in [deposit : Validators \cup {None}, withdraw : Validators \cup {None}]
    BY Zenon, <1>1, <2>3 DEF TypeOK
  <2>5. stake' \in [Validators -> StakeAccounts] /\ list' \in [Validators -> Entries]
    BY Zenon, <1>1, <2>2, <2>3, Records DEF TypeOK
  <2> QED
    BY Zenon, <1>1, <1>3, <2>3, <2>4, <2>5 DEF TypeOK
<1>6. ASSUME NEW lamports \in Increases, NEW seed \in Seeds,
             DecreaseValidatorStake(v, lamports, seed)
      PROVE  Inv'
  <2> DEFINE t == [kind |-> "Deactivating", amount |-> lamports - Rent, since |-> epoch]
             e == [list[v] EXCEPT !.active = list[v].active - lamports,
                                  !.transient = lamports, !.seed = seed]
             a == [stake[v] EXCEPT !.amount = stake[v].amount - lamports]
  <2>1. /\ lamports > Rent /\ stake[v].amount - lamports >= MinimumActive
        /\ list[v].active >= lamports
        /\ stake' = [stake EXCEPT ![v].amount = stake[v].amount - lamports]
        /\ transient' = [transient EXCEPT ![v][seed] = t]
        /\ list' = [list EXCEPT ![v] = e]
        /\ UNCHANGED <<poolVars, preferred, reserve>>
    BY Zenon, <1>6 DEF DecreaseValidatorStake
  <2>2. lamports \in Nat
    BY Zenon, Inputs
  <2>3. /\ lamports - Rent \in Nat /\ stake[v].amount - lamports \in Nat
        /\ list[v].active - lamports \in Nat
    BY <1>1, <2>1, <2>2, Numbers, Parts
  <2>4. t \in TransientAccounts
    BY Zenon, <1>1, <2>3 DEF TypeOK, TransientAccounts
  <2>5. e \in Entries /\ a \in StakeAccounts
    BY Zenon, <1>1, <2>2, <2>3, Parts, Records
  <2>6. stake' = [stake EXCEPT ![v] = a]
    BY Zenon, <2>1
  <2> HIDE DEF t, e, a
  <2> QED
    BY Zenon, <1>1, <1>3, <2>1, <2>4, <2>5, <2>6 DEF TypeOK
<1>7. ASSUME NEW lamports \in Increases, NEW seed \in Seeds,
             IncreaseValidatorStake(v, lamports, seed)
      PROVE  Inv'
  <2> DEFINE t == [kind |-> "Activating", amount |-> lamports, since |-> epoch]
             e == [list[v] EXCEPT !.transient = lamports + Rent, !.seed = seed]
  <2>1. /\ reserve - (lamports + Rent) > Rent
        /\ reserve' = reserve - (lamports + Rent)
        /\ transient' = [transient EXCEPT ![v][seed] = t]
        /\ list' = [list EXCEPT ![v] = e]
        /\ UNCHANGED <<poolVars, preferred, stake>>
    BY Zenon, <1>7 DEF IncreaseValidatorStake
  <2>2. lamports \in Nat /\ lamports + Rent \in Nat
    BY Inputs, Numbers
  <2>3. t \in TransientAccounts
    BY Zenon, <1>1, <2>2 DEF TypeOK, TransientAccounts
  <2>4. e \in Entries
    BY Zenon, <1>1, <2>2, Parts, Records
  <2>5. reserve' \in Nat
    BY <1>1, <2>1, <2>2, Numbers DEF TypeOK
  <2> HIDE DEF t, e
  <2> QED
    BY Zenon, <1>1, <1>3, <2>1, <2>3, <2>4, <2>5 DEF TypeOK
<1>8. ASSUME NEW kind \in {"deposit", "withdraw"}, NEW to \in {v, None},
             SetPreferredValidator(kind, to)
      PROVE  Inv'
  <2>1. /\ preferred' = [preferred EXCEPT ![kind] = to]
        /\ UNCHANGED <<poolVars, list, stake, transient, reserve>>
    BY Zenon, <1>8 DEF SetPreferredValidator, accounts
  <2>2. preferred' \in [deposit : Validators \cup {None}, withdraw : Validators \cup {None}]
    BY Zenon, <1>1, <2>1 DEF TypeOK
  <2> QED
    BY Zenon, <1>1, <1>3, <2>1, <2>2 DEF TypeOK
<1> QED
  BY Zenon, <1>2, <1>4, <1>5, <1>6, <1>7, <1>8

\* The fees in effect after an update, and those that are still to come.
LEMMA UpdatedFees ==
  ASSUME Inv, UpdateStakePoolBalance
  PROVE  /\ fee' \in [FeeKinds -> Ratio] /\ next_fee' \in [NextEpochKinds -> Ratio \cup {None}]
         /\ last_update_epoch' \in Epochs /\ FeesInRange'
<1>1. CASE UpToDate
  BY Zenon, <1>1 DEF UpdateStakePoolBalance, Inv, TypeOK, FeesInRange, fees
<1>2. CASE ~UpToDate
  <2>1. /\ fee' = [k \in FeeKinds |->
               IF k \in NextEpochKinds /\ next_fee[k] # None THEN next_fee[k] ELSE fee[k]]
        /\ next_fee' = [k \in NextEpochKinds |-> None]
        /\ last_update_epoch' = epoch
    BY Zenon, <1>2 DEF UpdateStakePoolBalance
  <2>2. /\ fee \in [FeeKinds -> Ratio] /\ next_fee \in [NextEpochKinds -> Ratio \cup {None}]
        /\ epoch \in Epochs
    BY Zenon DEF Inv, TypeOK
  <2>3. \A k \in FeeKinds : fee'[k] \in Ratio /\ fee'[k].num <= fee'[k].den
    BY Zenon, <2>1, <2>2 DEF Inv, FeesInRange
  <2>4. fee' \in [FeeKinds -> Ratio]
    BY Zenon, <2>1, <2>3
  <2>5. next_fee' \in [NextEpochKinds -> Ratio \cup {None}] /\ \A k \in NextEpochKinds : next_fee'[k] = None
    BY Zenon, <2>1
  <2> QED
    BY Zenon, <2>1, <2>2, <2>3, <2>4, <2>5 DEF FeesInRange
<1> QED
  BY Zenon, <1>1, <1>2

\* The balances of a list entry after its update.
UpdatedEntry(v, no_merge) ==
    LET to_reserve == ~no_merge /\ MergesIntoReserve(v)
        to_stake   == ~no_merge /\ MergesIntoStake(v)
        amount     == stake[v].amount + IF to_stake THEN Transient(v).amount ELSE 0
        counted    == stake[v].kind = "Stake" /\ list[v].status = "Active"
    IN  [status      |-> IF Absorbed(v) \/ (to_reserve /\ list[v].status = "DeactivatingTransient")
                         THEN "ReadyForRemoval" ELSE list[v].status,
         active      |-> IF counted THEN amount - MinimumActive ELSE 0,
         transient   |-> IF to_reserve \/ to_stake \/ Transient(v).kind = "None"
                         THEN 0 ELSE Rent + Transient(v).amount,
         last_update |-> epoch,
         seed        |-> list[v].seed]

\* The stake account of a validator after its update.
UpdatedStake(v, no_merge) ==
    IF Absorbed(v) THEN NoStake
    ELSE [stake[v] EXCEPT !.amount =
             stake[v].amount + IF ~no_merge /\ MergesIntoStake(v)
                               THEN Transient(v).amount ELSE 0]

\* The transient account of an entry after its update.
UpdatedTransient(v, no_merge) ==
    IF ~no_merge /\ (MergesIntoReserve(v) \/ MergesIntoStake(v))
    THEN NoStake ELSE Transient(v)

\* What UpdateValidatorListBalance writes, in these terms.
LEMMA UpdateWrites ==
  ASSUME TypeOK, NEW v \in Validators, NEW no_merge \in BOOLEAN,
         UpdateValidatorListBalance(v, no_merge)
  PROVE  /\ v \in Listed
         /\ list' = [list EXCEPT ![v] = UpdatedEntry(v, no_merge)]
         /\ stake' = [stake EXCEPT ![v] = UpdatedStake(v, no_merge)]
         /\ transient' = [transient EXCEPT ![v][list[v].seed] = UpdatedTransient(v, no_merge)]
         /\ reserve' \in Nat
         /\ UpdatedEntry(v, no_merge) \in Entries
         /\ UpdatedStake(v, no_merge) \in StakeAccounts
         /\ UpdatedTransient(v, no_merge) \in TransientAccounts
         /\ UNCHANGED <<poolVars, preferred>>
<1> DEFINE to_reserve == ~no_merge /\ MergesIntoReserve(v)
           to_stake   == ~no_merge /\ MergesIntoStake(v)
           amount     == stake[v].amount + IF to_stake THEN Transient(v).amount ELSE 0
           counted    == stake[v].kind = "Stake" /\ list[v].status = "Active"
<1>1. v \in Listed /\ UNCHANGED <<poolVars, preferred>>
  BY Zenon DEF UpdateValidatorListBalance
<1>2. list' = [list EXCEPT ![v] = UpdatedEntry(v, no_merge)]
  BY Zenon DEF UpdateValidatorListBalance, UpdatedEntry
<1>3. stake' = [stake EXCEPT ![v] = UpdatedStake(v, no_merge)]
  BY Zenon DEF UpdateValidatorListBalance, UpdatedStake
<1>4. transient' = [transient EXCEPT ![v][list[v].seed] = UpdatedTransient(v, no_merge)]
  <2>1. transient' = [transient EXCEPT ![v][list[v].seed] =
             IF to_reserve \/ to_stake THEN NoStake ELSE Transient(v)]
    BY Zenon DEF UpdateValidatorListBalance
  <2>2. UpdatedTransient(v, no_merge) = IF to_reserve \/ to_stake THEN NoStake ELSE Transient(v)
    BY Zenon DEF UpdatedTransient
  <2> QED
    BY Zenon, <2>1, <2>2
<1>5. amount \in Nat
  BY Parts
<1>6. counted => amount - MinimumActive \in Nat
  BY <1>5, Numbers DEF UpdateValidatorListBalance
<1>7. reserve' \in Nat
  <2>1. reserve' = reserve + (IF to_reserve THEN Rent + Transient(v).amount ELSE 0)
                   + (IF to_stake THEN Rent ELSE 0)
                   + (IF Absorbed(v) THEN Rent + stake[v].amount ELSE 0)
    BY Zenon DEF UpdateValidatorListBalance
  <2>2. reserve \in Nat
    BY Zenon DEF TypeOK
  <2> HIDE DEF to_reserve, to_stake
  <2> QED
    BY <2>1, <2>2, Parts, Numbers
<1>8. UpdatedEntry(v, no_merge) \in Entries
  <2>1. UpdatedEntry(v, no_merge) =
           [status      |-> IF Absorbed(v) \/ (to_reserve /\ list[v].status = "DeactivatingTransient")
                            THEN "ReadyForRemoval" ELSE list[v].status,
            active      |-> IF counted THEN amount - MinimumActive ELSE 0,
            transient   |-> IF to_reserve \/ to_stake \/ Transient(v).kind = "None"
                            THEN 0 ELSE Rent + Transient(v).amount,
            last_update |-> epoch,
            seed        |-> list[v].seed]
    BY Zenon DEF UpdatedEntry
  <2> HIDE DEF to_reserve, to_stake, amount, counted
  <2>2. Rent + Transient(v).amount \in Nat /\ epoch \in Epochs /\ list[v].seed \in Seeds
        /\ list[v].status \in StakeStatuses /\ "ReadyForRemoval" \in StakeStatuses
    BY Parts, Numbers DEF TypeOK, StakeStatuses
  <2> QED
    BY <1>6, <2>1, <2>2 DEF Entries
<1>9. UpdatedStake(v, no_merge) \in StakeAccounts
  <2>1. UpdatedStake(v, no_merge) =
           IF Absorbed(v) THEN NoStake ELSE [stake[v] EXCEPT !.amount = amount]
    BY Zenon DEF UpdatedStake
  <2> HIDE DEF amount
  <2>2. [stake[v] EXCEPT !.amount = amount] \in StakeAccounts
    BY Zenon, <1>5, Parts, Records
  <2> QED
    BY Zenon, <2>1, <2>2, Records
<1>10. UpdatedTransient(v, no_merge) \in TransientAccounts
  BY Zenon, Parts, Records DEF UpdatedTransient
<1> QED
  BY Zenon, <1>1, <1>2, <1>3, <1>4, <1>7, <1>8, <1>9, <1>10

\* An update of the pool mints a natural number of tokens.
LEMMA PoolUpdate ==
  ASSUME Inv, UpdateStakePoolBalance
  PROVE  /\ \E minted \in Nat :
               /\ tokens' = [tokens EXCEPT !.manager = tokens.manager + minted]
               /\ pool_token_supply' = PoolMintSupply + minted
         /\ total_lamports' \in Amounts /\ pool_token_supply' \in Amounts
         /\ UNCHANGED <<epoch, preferred, accounts, fee_account>>
<1> DEFINE total == reserve - MinimumReserveLamports + SumFunctionOnSet(StakeLamports, Listed)
           reward == IF total > total_lamports THEN total - total_lamports ELSE 0
           minted == IF fee_account
                     THEN EpochFee(total_lamports, pool_token_supply, fee["epoch"], reward)
                     ELSE 0
<1>1. /\ total \in Amounts /\ PoolMintSupply + minted \in Amounts
      /\ tokens' = [tokens EXCEPT !.manager = tokens.manager + minted]
      /\ total_lamports' = total /\ pool_token_supply' = PoolMintSupply + minted
      /\ UNCHANGED <<epoch, preferred, accounts, fee_account>>
  BY Zenon DEF UpdateStakePoolBalance
<1> HIDE DEF total
<1>2. total_lamports \in Nat /\ pool_token_supply \in Nat /\ total \in Nat
  BY Zenon, <1>1, Numbers DEF Inv, TypeOK
<1>3. reward \in Nat
  BY <1>2
<1> HIDE DEF reward
<1>4. minted \in Nat
  <2>1. fee["epoch"] \in Ratio /\ fee["epoch"].num <= fee["epoch"].den
    BY Zenon DEF Inv, TypeOK, FeesInRange, FeeKinds
  <2>2. EpochFee(total_lamports, pool_token_supply, fee["epoch"], reward) \in Nat
    <3>1. CASE pool_token_supply = 0
      BY Zenon, <1>3, <3>1 DEF EpochFee
    <3>2. CASE pool_token_supply # 0
      BY Zenon, <1>2, <1>3, <2>1, <3>2, EpochFeeKeepsPrice
    <3> QED
      BY Zenon, <3>1, <3>2
  <2> QED
    BY Zenon, <2>2
<1> HIDE DEF minted
<1> QED
  BY Zenon, <1>1, <1>4

\* Updates keep the types.
LEMMA UpdateTypes ==
  ASSUME Inv, UpdateNext
  PROVE  Inv'
<1>1. TypeOK
  BY Zenon DEF Inv
<1>2. ASSUME NEW v \in Validators, NEW no_merge \in BOOLEAN,
             UpdateValidatorListBalance(v, no_merge)
      PROVE  Inv'
  <2> DEFINE e == UpdatedEntry(v, no_merge)
             a == UpdatedStake(v, no_merge)
             t == UpdatedTransient(v, no_merge)
  <2>1. /\ list' = [list EXCEPT ![v] = e] /\ stake' = [stake EXCEPT ![v] = a]
        /\ transient' = [transient EXCEPT ![v][list[v].seed] = t]
        /\ reserve' \in Nat /\ e \in Entries /\ a \in StakeAccounts /\ t \in TransientAccounts
        /\ UNCHANGED <<poolVars, preferred>>
    BY Zenon, <1>1, <1>2, UpdateWrites
  <2> HIDE DEF e, a, t
  <2>2. /\ list' \in [Validators -> Entries] /\ stake' \in [Validators -> StakeAccounts]
        /\ transient' \in [Validators -> [Seeds -> TransientAccounts]]
    BY Zenon, <1>1, <2>1 DEF TypeOK
  <2> QED
    BY Zenon, <2>1, <2>2 DEF Inv, TypeOK, FeesInRange, poolVars, price, fees
<1>3. CASE UpdateStakePoolBalance
  <2>1. PICK minted \in Nat : tokens' = [tokens EXCEPT !.manager = tokens.manager + minted]
    BY Zenon, <1>3, PoolUpdate
  <2>2. /\ total_lamports' \in Amounts /\ pool_token_supply' \in Amounts
        /\ UNCHANGED <<epoch, preferred, list, stake, transient, reserve, fee_account>>
    BY Zenon, <1>3, PoolUpdate DEF accounts
  <2>3. tokens' \in [users : Nat, manager : Nat]
    <3>1. tokens \in [users : Nat, manager : Nat]
      BY Zenon, <1>1 DEF TypeOK
    <3>2. tokens.manager + minted \in Nat
      BY <3>1
    <3> QED
      BY Zenon, <2>1, <3>1, <3>2
  <2>4. /\ fee' \in [FeeKinds -> Ratio] /\ next_fee' \in [NextEpochKinds -> Ratio \cup {None}]
        /\ last_update_epoch' \in Epochs /\ FeesInRange'
    BY Zenon, <1>3, UpdatedFees
  <2> QED
    BY Zenon, <1>1, <2>2, <2>3, <2>4 DEF Inv, TypeOK
<1>4. CASE CleanupRemovedValidatorEntries
  <2>1. list' \in [Validators -> Entries] /\ UNCHANGED <<poolVars, preferred, stake, transient, reserve>>
    BY Zenon, <1>1, <1>4, Records DEF CleanupRemovedValidatorEntries, TypeOK
  <2> QED
    BY Zenon, <2>1 DEF Inv, TypeOK, FeesInRange, poolVars, price, fees
<1> QED
  BY Zenon, <1>2, <1>3, <1>4 DEF UpdateNext

\* The manager's instructions keep the types.
LEMMA ManagerTypes ==
  ASSUME Inv, ManagerNext
  PROVE  Inv'
<1>1. ASSUME NEW c \in FeeChanges, SetFee(c.kind, c.to)
      PROVE  Inv'
  <2> DEFINE kind == c.kind
             to == c.to
  <2>1. kind \in FeeKinds /\ to \in Ratio
    BY Zenon, Inputs
  <2>2. /\ to.num <= to.den
        /\ IF kind \in NextEpochKinds
           THEN next_fee' = [next_fee EXCEPT ![kind] = to] /\ UNCHANGED fee
           ELSE fee' = [fee EXCEPT ![kind] = to] /\ UNCHANGED next_fee
        /\ UNCHANGED <<epoch, price, last_update_epoch, preferred, accounts, fee_account>>
    BY Zenon, <1>1 DEF SetFee
  <2> HIDE DEF kind, to
  <2>3. /\ fee \in [FeeKinds -> Ratio] /\ next_fee \in [NextEpochKinds -> Ratio \cup {None}]
        /\ FeesInRange
    BY Zenon DEF Inv, TypeOK
  <2>4. /\ fee' \in [FeeKinds -> Ratio] /\ next_fee' \in [NextEpochKinds -> Ratio \cup {None}]
    BY Zenon, <2>1, <2>2, <2>3
  <2>5. FeesInRange'
    BY Zenon, <2>1, <2>2, <2>3 DEF FeesInRange
  <2> QED
    BY Zenon, <2>2, <2>4, <2>5 DEF Inv, TypeOK, price, accounts
<1>2. ASSUME NEW held \in Withdrawals, SetManager(held)
      PROVE  Inv'
  <2>1. held \in Nat
    BY Zenon, Inputs
  <2>2. /\ held <= PoolMintSupply
        /\ tokens' = [users |-> PoolMintSupply - held, manager |-> held] /\ fee_account' = TRUE
        /\ UNCHANGED <<epoch, total_lamports, pool_token_supply, last_update_epoch,
                       preferred, fees, accounts>>
    BY Zenon, <1>2 DEF SetManager
  <2>3. tokens \in [users : Nat, manager : Nat]
    BY Zenon DEF Inv, TypeOK
  <2>4. PoolMintSupply \in Nat
    BY <2>3 DEF PoolMintSupply
  <2>5. PoolMintSupply - held \in Nat
    BY <2>1, <2>2, <2>4
  <2>6. tokens' \in [users : Nat, manager : Nat]
    BY Zenon, <2>1, <2>2, <2>5
  <2> QED
    BY Zenon, <2>2, <2>6 DEF Inv, TypeOK, FeesInRange, fees, accounts
<1> QED
  BY Zenon, <1>1, <1>2 DEF ManagerNext

\* What holders and strangers do keeps the types.
LEMMA HolderTypes ==
  ASSUME Inv, HolderNext
  PROVE  Inv'
<1>1. ASSUME NEW amount \in Withdrawals, BurnPoolTokens(amount)
      PROVE  Inv'
  <2>1. amount \in Nat
    BY Zenon, Inputs
  <2>2. /\ tokens.users >= amount
        /\ tokens' = [tokens EXCEPT !.users = tokens.users - amount]
        /\ UNCHANGED <<epoch, total_lamports, pool_token_supply, last_update_epoch,
                       preferred, fees, accounts, fee_account>>
    BY Zenon, <1>1 DEF BurnPoolTokens
  <2>3. tokens \in [users : Nat, manager : Nat]
    BY Zenon DEF Inv, TypeOK
  <2>4. tokens.users - amount \in Nat
    BY <2>1, <2>2, <2>3
  <2>5. tokens' \in [users : Nat, manager : Nat]
    BY Zenon, <2>2, <2>3, <2>4
  <2> QED
    BY Zenon, <2>2, <2>5 DEF Inv, TypeOK, FeesInRange, fees, accounts
<1>2. CASE CloseFeeAccount
  BY Zenon, <1>2 DEF CloseFeeAccount, Inv, TypeOK, FeesInRange, price, fees, accounts
<1>3. ASSUME NEW lamports \in Rewards, Donate(lamports)
      PROVE  Inv'
  <2>1. lamports \in Nat
    BY Zenon, Inputs
  <2>2. reserve' = reserve + lamports /\ UNCHANGED <<poolVars, preferred, list, stake, transient>>
    BY Zenon, <1>3 DEF Donate
  <2>3. reserve' \in Nat
    BY <2>1, <2>2 DEF Inv, TypeOK
  <2> QED
    BY Zenon, <2>2, <2>3 DEF Inv, TypeOK, FeesInRange, poolVars, price, fees
<1> QED
  BY Zenon, <1>1, <1>2, <1>3 DEF HolderNext

\* The cluster keeps the types.
LEMMA ClusterTypes ==
  ASSUME Inv, ClusterNext
  PROVE  Inv'
<1>1. TypeOK
  BY Zenon DEF Inv
<1>2. ASSUME NEW earned \in [Validators -> Rewards], NEW more \in [Validators -> Rewards],
             NextEpoch(earned, more)
      PROVE  Inv'
  <2>1. \A v \in Validators : earned[v] \in Nat /\ more[v] \in Nat
    BY Zenon, Inputs
  <2>2. ASSUME NEW v \in Validators
        PROVE  WithReward(stake[v], earned[v]) \in StakeAccounts
    <3>1. stake[v].amount + earned[v] \in Nat
      BY <1>1, <2>1, Parts
    <3> QED
      BY Zenon, <1>1, <3>1, Parts, Records DEF WithReward
  <2>3. ASSUME NEW v \in Validators, NEW s \in Seeds
        PROVE  WithReward(transient[v][s], more[v]) \in TransientAccounts
    <3>1. transient[v][s] \in TransientAccounts
      BY Zenon, <1>1, Parts
    <3>2. transient[v][s].amount + more[v] \in Nat
      BY <2>1, <3>1 DEF TransientAccounts
    <3> QED
      BY Zenon, <3>1, <3>2, Records DEF WithReward
  <2>4. /\ epoch < MaxEpoch /\ epoch' = epoch + 1
        /\ stake' = [v \in Validators |-> WithReward(stake[v], earned[v])]
        /\ transient' = [v \in Validators |-> [s \in Seeds |->
               WithReward(transient[v][s], more[v])]]
        /\ UNCHANGED <<price, last_update_epoch, preferred, fees, list, reserve, fee_account>>
    BY Zenon, <1>2 DEF NextEpoch
  <2>5. /\ stake' \in [Validators -> StakeAccounts]
        /\ transient' \in [Validators -> [Seeds -> TransientAccounts]]
    BY Zenon, <2>2, <2>3, <2>4
  <2>6. epoch' \in Epochs
    <3>1. epoch \in Nat /\ MaxEpoch \in Nat
      BY Zenon, <1>1, Numbers DEF TypeOK
    <3>2. epoch + 1 \in Nat /\ epoch + 1 <= MaxEpoch
      BY <2>4, <3>1
    <3> QED
      BY Zenon, <2>4, <3>2, Numbers
  <2> QED
    BY Zenon, <2>4, <2>5, <2>6 DEF Inv, TypeOK, FeesInRange, price, fees
<1>3. ASSUME NEW v \in Validators, Destake(v)
      PROVE  Inv'
  <2>1. Destaked(stake[v]) \in StakeAccounts
    BY Zenon, <1>1, Parts, Records DEF Destaked
  <2>2. \A s \in Seeds : Destaked(transient[v][s]) \in TransientAccounts
    BY Zenon, <1>1, Parts, Records DEF Destaked
  <2>3. /\ stake' = [stake EXCEPT ![v] = Destaked(stake[v])]
        /\ transient' = [transient EXCEPT ![v] = [s \in Seeds |-> Destaked(transient[v][s])]]
        /\ UNCHANGED <<poolVars, preferred, list, reserve>>
    BY Zenon, <1>3 DEF Destake
  <2>4. /\ stake' \in [Validators -> StakeAccounts]
        /\ transient' \in [Validators -> [Seeds -> TransientAccounts]]
    BY Zenon, <1>1, <2>1, <2>2, <2>3 DEF TypeOK
  <2> QED
    BY Zenon, <2>3, <2>4 DEF Inv, TypeOK, FeesInRange, poolVars, price, fees
<1> QED
  BY Zenon, <1>2, <1>3 DEF ClusterNext

\* A new pool has its types.
LEMMA InitTypes ==
  ASSUME Init
  PROVE  Inv
<1>1. reserve \in Nat /\ reserve >= MinimumReserveLamports /\ reserve <= MaxU64
  BY Zenon, Inputs DEF Init
<1>2. total_lamports \in Nat /\ total_lamports <= MaxU64
  BY <1>1, Numbers DEF Init
<1>3. /\ total_lamports \in Amounts /\ pool_token_supply \in Amounts
      /\ tokens \in [users : Nat, manager : Nat] /\ epoch \in Epochs /\ last_update_epoch \in Epochs
  BY Zenon, <1>2, Numbers DEF Init
<1>4. fee \in [FeeKinds -> Ratio]
  BY Zenon, StakePoolAssumption DEF Init
<1> QED
  BY Zenon, <1>1, <1>3, <1>4, Records DEF Init, Inv, TypeOK, FeesInRange

\* Every step keeps the types and no fee exceeds the whole.
LEMMA NextTypes ==
  ASSUME Inv, [Next]_vars
  PROVE  Inv'
<1>1. CASE UNCHANGED vars
  BY Zenon, <1>1 DEF vars, price, fees, accounts, Inv, TypeOK, FeesInRange
<1> QED
  BY Zenon, <1>1, TradeTypes, StakerTypes, UpdateTypes, ManagerTypes, HolderTypes, ClusterTypes DEF Next

LEMMA InvAlways == Spec => []Inv
  BY InitTypes, NextTypes, PTL DEF Spec

\* Every account and field keeps its type: the pool's amounts stay in u64 and no
\* balance becomes negative, in any order of instructions, epochs and restarts.
THEOREM TypeCorrect == Spec => []TypeOK
<1>1. Inv => TypeOK
  BY DEF Inv
<1> QED
  BY <1>1, InvAlways, PTL

-----------------------------------------------------------------------------
(* The supply of the pool *)

\* Every step keeps the supply of the pool at or above the tokens that exist.
LEMMA SupplyStep ==
  ASSUME Inv, SupplyCovers, [Next]_vars
  PROVE  SupplyCovers'
<1>1. tokens \in [users : Nat, manager : Nat] /\ pool_token_supply \in Nat
  BY Zenon, Numbers DEF Inv, TypeOK
<1>2. PoolMintSupply \in Nat /\ PoolMintSupply <= pool_token_supply
  BY <1>1 DEF PoolMintSupply, SupplyCovers
<1>3. CASE UNCHANGED price
  BY Zenon, <1>3 DEF price, SupplyCovers, PoolMintSupply
<1>4. CASE TradeNext
  BY Zenon, <1>4, TradeTypes
<1>5. CASE StakerNext
  <2>1. UNCHANGED price
    BY Zenon, <1>5, ZenonT(60)
       DEF StakerNext, AddValidatorToPool, RemoveValidatorFromPool,
           DecreaseValidatorStake, IncreaseValidatorStake, SetPreferredValidator, poolVars
  <2> QED
    BY Zenon, <1>3, <2>1
<1>6. CASE UpdateNext
  <2>1. ASSUME NEW v \in Validators, NEW no_merge \in BOOLEAN,
               UpdateValidatorListBalance(v, no_merge)
        PROVE  UNCHANGED price
    BY Zenon, <2>1 DEF UpdateValidatorListBalance, poolVars
  <2>2. CASE CleanupRemovedValidatorEntries
    BY Zenon, <1>3, <2>2 DEF CleanupRemovedValidatorEntries, poolVars
  <2>3. CASE UpdateStakePoolBalance
    <3>1. PICK minted \in Nat :
             /\ tokens' = [tokens EXCEPT !.manager = tokens.manager + minted]
             /\ pool_token_supply' = PoolMintSupply + minted
      BY Zenon, <2>3, PoolUpdate
    <3>2. tokens'.users = tokens.users /\ tokens'.manager = tokens.manager + minted
      BY Zenon, <1>1, <3>1
    <3> QED
      BY <1>1, <3>1, <3>2 DEF SupplyCovers, PoolMintSupply
  <2> QED
    BY Zenon, <1>3, <1>6, <2>1, <2>2, <2>3 DEF UpdateNext
<1>7. CASE ManagerNext
  <2>1. ASSUME NEW c \in FeeChanges, SetFee(c.kind, c.to)
        PROVE  UNCHANGED price
    BY Zenon, <2>1 DEF SetFee
  <2>2. ASSUME NEW held \in Withdrawals, SetManager(held)
        PROVE  SupplyCovers'
    <3>1. held \in Nat /\ pool_token_supply' = pool_token_supply
          /\ tokens' = [users |-> PoolMintSupply - held, manager |-> held]
      BY Zenon, <2>2, Inputs DEF SetManager
    <3>2. tokens'.users + tokens'.manager = PoolMintSupply
      BY <1>2, <3>1
    <3> QED
      BY Zenon, <1>2, <3>1, <3>2 DEF SupplyCovers, PoolMintSupply
  <2> QED
    BY Zenon, <1>3, <1>7, <2>1, <2>2 DEF ManagerNext
<1>8. CASE HolderNext
  <2>1. ASSUME NEW amount \in Withdrawals, BurnPoolTokens(amount)
        PROVE  SupplyCovers'
    <3>1. /\ amount \in Nat /\ pool_token_supply' = pool_token_supply
          /\ tokens' = [tokens EXCEPT !.users = tokens.users - amount]
      BY Zenon, <2>1, Inputs DEF BurnPoolTokens
    <3>2. tokens'.users = tokens.users - amount /\ tokens'.manager = tokens.manager
      BY Zenon, <1>1, <3>1
    <3> QED
      BY <1>1, <1>2, <3>1, <3>2 DEF SupplyCovers, PoolMintSupply
  <2>2. CASE CloseFeeAccount
    BY Zenon, <1>3, <2>2 DEF CloseFeeAccount
  <2>3. ASSUME NEW lamports \in Rewards, Donate(lamports)
        PROVE  UNCHANGED price
    BY Zenon, <2>3 DEF Donate, poolVars
  <2> QED
    BY Zenon, <1>3, <1>8, <2>1, <2>2, <2>3 DEF HolderNext
<1>9. CASE ClusterNext
  <2>1. UNCHANGED price
    BY Zenon, <1>9 DEF ClusterNext, NextEpoch, Destake, poolVars
  <2> QED
    BY Zenon, <1>3, <2>1
<1>10. CASE UNCHANGED vars
  BY Zenon, <1>3, <1>10 DEF vars
<1> QED
  BY Zenon, <1>4, <1>5, <1>6, <1>7, <1>8, <1>9, <1>10 DEF Next

\* The supply prices are computed with is never below the tokens that exist, so
\* that no withdrawal pays more than its share, although anybody may burn tokens
\* without the pool knowing.
THEOREM SupplyAlwaysCovers == Spec => []SupplyCovers
<1>1. Init => SupplyCovers
  <2>1. ASSUME Init PROVE SupplyCovers
    <3>1. total_lamports \in Nat /\ tokens = [users |-> 0, manager |-> total_lamports]
          /\ pool_token_supply = total_lamports
      BY Zenon, <2>1, InitTypes, Numbers DEF Init, Inv, TypeOK
    <3> QED
      BY <3>1 DEF SupplyCovers, PoolMintSupply
  <2> QED
    BY Zenon, <2>1
<1>2. Inv /\ SupplyCovers /\ [Next]_vars => SupplyCovers'
  BY SupplyStep
<1> QED
  BY <1>1, <1>2, InvAlways, PTL DEF Spec

-----------------------------------------------------------------------------
(* Fees on withdrawals *)

\* At most 3/2 of the old fee, or of 1/1000 if there was none.
Within(old, new) ==
    IF old.num = 0 \/ old.den = 0
    THEN 2000 * new.num <= 3 * new.den
    ELSE 2 * new.num * old.den <= 3 * old.num * new.den

\* A fee that waits for the next epoch is within the limit of the present one.
WaitingWithin ==
    \A k \in WithdrawalKinds : next_fee[k] # None => Within(fee[k], next_fee[k])

LEMMA CheckedIsWithin ==
  ASSUME NEW old \in Ratio, NEW new \in Ratio, CheckWithdrawal(new, old)
  PROVE  Within(old, new)
<1>1. old.num \in Nat /\ old.den \in Nat /\ new.num \in Nat /\ new.den \in Nat
  BY Zenon DEF Ratio
<1>2. CASE old.num = 0 \/ old.den = 0
  <2>1. 1 * new.den * 3 >= new.num * 1000 * 2
    BY <1>2 DEF CheckWithdrawal
  <2> QED
    BY <1>1, <1>2, <2>1 DEF Within
<1>3. CASE ~(old.num = 0 \/ old.den = 0)
  <2>1. old.num * new.den * 3 >= new.num * old.den * 2
    BY Zenon, <1>3 DEF CheckWithdrawal
  <2>2. 2 * new.num * old.den <= 3 * old.num * new.den
    BY <1>1, <2>1
  <2> QED
    BY <1>3, <2>2 DEF Within
<1> QED
  BY Zenon, <1>2, <1>3

\* Only SetFee and UpdateStakePoolBalance write fees.
LEMMA FeesWritten ==
  ASSUME [Next]_vars
  PROVE  \/ UNCHANGED fees
         \/ UpdateStakePoolBalance
         \/ \E c \in FeeChanges : SetFee(c.kind, c.to)
<1>1. CASE TradeNext
  <2>1. ASSUME NEW d \in Deposits, NEW v \in Validators, DepositStake(v, d)
        PROVE  UNCHANGED fees
    BY Zenon, <2>1 DEF DepositStake
  <2>2. ASSUME NEW d \in Deposits, DepositSol(d.sol)
        PROVE  UNCHANGED fees
    BY Zenon, <2>2 DEF DepositSol
  <2>3. ASSUME NEW k \in WithdrawalKinds, NEW from \in {"users", "manager"},
               NEW amount \in Withdrawals, BurnTokens(k, from, amount)
        PROVE  UNCHANGED fees
    BY Zenon, <2>3 DEF BurnTokens
  <2>4. ASSUME NEW from \in {"users", "manager"}, NEW amount \in Withdrawals,
               \/ WithdrawReserveStake(from, amount)
               \/ \E v \in Validators : WithdrawStake(v, from, amount)
               \/ \E v \in Validators : WithdrawTransientStake(v, from, amount)
               \/ WithdrawSol(from, amount)
        PROVE  UNCHANGED fees
    <3>1. \E k \in WithdrawalKinds : BurnTokens(k, from, amount)
      BY Zenon, <2>4 DEF WithdrawReserveStake, WithdrawStake, WithdrawTransientStake, WithdrawSol,
                  WithdrawalKinds
    <3> QED
      BY Zenon, <2>3, <3>1
  <2> QED
    BY Zenon, <1>1, <2>1, <2>2, <2>4 DEF TradeNext
<1>2. CASE StakerNext
  BY Zenon, <1>2, ZenonT(60)
     DEF StakerNext, AddValidatorToPool, RemoveValidatorFromPool,
         DecreaseValidatorStake, IncreaseValidatorStake, SetPreferredValidator, poolVars
<1>3. CASE UpdateNext
  <2>1. ASSUME NEW v \in Validators, NEW no_merge \in BOOLEAN,
               UpdateValidatorListBalance(v, no_merge)
        PROVE  UNCHANGED fees
    BY Zenon, <2>1 DEF UpdateValidatorListBalance, poolVars
  <2>2. CASE CleanupRemovedValidatorEntries
    BY Zenon, <2>2 DEF CleanupRemovedValidatorEntries, poolVars
  <2> QED
    BY Zenon, <1>3, <2>1, <2>2 DEF UpdateNext
<1>4. CASE ManagerNext
  BY Zenon, <1>4 DEF ManagerNext, SetManager
<1>5. CASE HolderNext
  BY Zenon, <1>5 DEF HolderNext, BurnPoolTokens, CloseFeeAccount, Donate, poolVars
<1>6. CASE ClusterNext
  BY Zenon, <1>6 DEF ClusterNext, NextEpoch, Destake, poolVars
<1>7. CASE UNCHANGED vars
  BY Zenon, <1>7 DEF vars
<1> QED
  BY Zenon, <1>1, <1>2, <1>3, <1>4, <1>5, <1>6, <1>7 DEF Next

\* What a step may do to the fee on a kind of withdrawal.
FeeStep(k) ==
    /\ next_fee'[k] \notin {None, next_fee[k]} => last_update_epoch >= epoch
    /\ fee'[k] # fee[k] =>
          last_update_epoch < last_update_epoch' /\ Within(fee[k], fee'[k])

LEMMA WithdrawalFeeStep ==
  ASSUME Inv, WaitingWithin, [Next]_vars
  PROVE  WaitingWithin' /\ \A k \in WithdrawalKinds : FeeStep(k)
<1>1. /\ fee \in [FeeKinds -> Ratio] /\ next_fee \in [NextEpochKinds -> Ratio \cup {None}]
      /\ epoch \in Nat /\ last_update_epoch \in Nat
  BY Zenon, Numbers DEF Inv, TypeOK
<1>2. WithdrawalKinds \subseteq NextEpochKinds /\ NextEpochKinds \subseteq FeeKinds
  BY Zenon DEF WithdrawalKinds, NextEpochKinds, FeeKinds
<1>3. CASE UNCHANGED fees
  BY Zenon, <1>3 DEF fees, WaitingWithin, FeeStep
<1>4. CASE UpdateStakePoolBalance /\ UpToDate
  BY Zenon, <1>3, <1>4 DEF UpdateStakePoolBalance
<1>5. CASE UpdateStakePoolBalance /\ ~UpToDate
  <2>1. /\ fee' = [k \in FeeKinds |->
               IF k \in NextEpochKinds /\ next_fee[k] # None THEN next_fee[k] ELSE fee[k]]
        /\ next_fee' = [k \in NextEpochKinds |-> None]
        /\ last_update_epoch' = epoch
    BY Zenon, <1>5 DEF UpdateStakePoolBalance
  <2>2. last_update_epoch < last_update_epoch'
    BY <1>1, <1>5, <2>1 DEF UpToDate
  <2>3. \A k \in WithdrawalKinds : next_fee'[k] = None
    BY Zenon, <1>2, <2>1
  <2>4. ASSUME NEW k \in WithdrawalKinds, fee'[k] # fee[k]
        PROVE  Within(fee[k], fee'[k])
    BY Zenon, <1>2, <2>1, <2>4 DEF WaitingWithin
  <2> QED
    BY Zenon, <2>2, <2>3, <2>4 DEF WaitingWithin, FeeStep
<1>6. ASSUME NEW c \in FeeChanges, SetFee(c.kind, c.to)
      PROVE  WaitingWithin' /\ \A k \in WithdrawalKinds : FeeStep(k)
  <2> DEFINE kind == c.kind
             to == c.to
  <2>1. kind \in FeeKinds /\ to \in Ratio
    BY Zenon, Inputs
  <2>2. /\ kind \in NextEpochKinds => UpToDate
        /\ kind \in WithdrawalKinds => CheckWithdrawal(to, fee[kind])
        /\ IF kind \in NextEpochKinds
           THEN next_fee' = [next_fee EXCEPT ![kind] = to] /\ UNCHANGED fee
           ELSE fee' = [fee EXCEPT ![kind] = to] /\ UNCHANGED next_fee
    BY Zenon, <1>6 DEF SetFee
  <2> HIDE DEF kind, to
  <2>3. kind \in WithdrawalKinds => Within(fee[kind], to)
    BY Zenon, <1>1, <2>1, <2>2, CheckedIsWithin
  <2>4. CASE kind \in NextEpochKinds
    <3>1. next_fee' = [next_fee EXCEPT ![kind] = to] /\ fee' = fee /\ last_update_epoch >= epoch
      BY Zenon, <2>2, <2>4 DEF UpToDate
    <3>2. WaitingWithin'
      BY Zenon, <1>1, <1>2, <2>3, <2>4, <3>1 DEF WaitingWithin
    <3> QED
      BY Zenon, <3>1, <3>2 DEF FeeStep
  <2>5. CASE kind \notin NextEpochKinds
    <3>1. next_fee' = next_fee /\ \A k \in WithdrawalKinds : fee'[k] = fee[k]
      BY Zenon, <1>1, <1>2, <2>2, <2>5
    <3> QED
      BY Zenon, <3>1 DEF WaitingWithin, FeeStep
  <2> QED
    BY Zenon, <2>4, <2>5
<1> QED
  BY Zenon, <1>3, <1>4, <1>5, <1>6, FeesWritten

\* A fee on withdrawals is announced while the pool is up to date, waits for the
\* first update of a later epoch, and rises by at most one half.
THEOREM WithdrawalFeesAlwaysRiseSlowly == Spec => WithdrawalFeesRiseSlowly
<1>1. Init => WaitingWithin
  BY Zenon DEF Init, WaitingWithin, WithdrawalKinds, NextEpochKinds
<1>2. Inv /\ WaitingWithin /\ [Next]_vars => WaitingWithin'
  BY Zenon, WithdrawalFeeStep
<1>3. Inv /\ WaitingWithin /\ [Next]_vars =>
        [\A k \in WithdrawalKinds :
           /\ next_fee'[k] \notin {None, next_fee[k]} => last_update_epoch >= epoch
           /\ fee'[k] # fee[k] =>
                 /\ last_update_epoch < last_update_epoch'
                 /\ IF fee[k].num = 0 \/ fee[k].den = 0
                    THEN 2000 * fee'[k].num <= 3 * fee'[k].den
                    ELSE 2 * fee'[k].num * fee[k].den <= 3 * fee[k].num * fee'[k].den]_vars
  BY WithdrawalFeeStep DEF FeeStep, Within
<1> QED
  BY <1>1, <1>2, <1>3, InvAlways, PTL DEF Spec, WithdrawalFeesRiseSlowly
-----------------------------------------------------------------------------
(* The validator list and the accounts *)

Delegated == {"Activating", "Deactivating"}

\* The entry states what is in the stake account and in the transient account.
Matches(e, a, t) ==
    /\ e.active = Withdrawable(a)
    /\ e.transient = Lamports(t) \/ (e.transient = 0 /\ t.kind = "Initialized")

\* The inductive invariant of one validator, with its entry e, its stake account
\* a and its transient accounts t, in epoch now, when the pool was updated last
\* in epoch updated.
Kept(e, a, t, now, updated) ==
    /\ a.kind # "None" <=> e.status = "Active"
    /\ \A s \in Seeds : t[s].kind \in Delegated =>
          /\ e.status \in {"Active", "DeactivatingTransient"}
          /\ e.seed = s /\ e.transient > 0
    /\ \A s \in Seeds : t[s].kind # "None" => t[s].amount > 0
    /\ a.kind = "Initialized" => \A s \in Seeds : t[s].kind \notin Delegated
    /\ e.status # "None" =>
          /\ e.last_update <= now
          /\ updated >= now => e.last_update = now
          /\ e.last_update = now => Matches(e, a, t[e.seed])

ListKept ==
    /\ last_update_epoch <= epoch
    /\ \A v \in Validators : Kept(list[v], stake[v], transient[v], epoch, last_update_epoch)

\* A step that concerns one validator has to be looked at for that one only.
LEMMA OneValidator ==
  ASSUME ListKept, NEW v \in Validators,
         UNCHANGED <<epoch, last_update_epoch>>,
         \A w \in Validators \ {v} :
            list'[w] = list[w] /\ stake'[w] = stake[w] /\ transient'[w] = transient[w],
         Kept(list'[v], stake'[v], transient'[v], epoch, last_update_epoch)
  PROVE  ListKept'
  BY Zenon DEF ListKept

\* While the pool is up to date, the entries match the accounts.
LEMMA UpToDateMatches ==
  ASSUME ListKept, UpToDate, NEW v \in Listed
  PROVE  list[v].last_update = epoch /\ Matches(list[v], stake[v], Transient(v))
<1>1. v \in Validators /\ list[v].status # "None"
  BY Zenon DEF Listed
<1>2. Kept(list[v], stake[v], transient[v], epoch, last_update_epoch)
  BY Zenon, <1>1 DEF ListKept
<1> QED
  BY Zenon, <1>1, <1>2 DEF Kept, UpToDate, Transient

\* An entry matches its accounts still when as much is taken from both.
LEMMA LessInBoth ==
  ASSUME NEW e, NEW f, NEW a, NEW b, NEW t, NEW n \in Nat,
         a.kind = "Stake", b.kind = "Stake", a.amount \in Nat, e.active \in Nat,
         b.amount = a.amount - n, f.active = e.active - n,
         f.transient = e.transient, Matches(e, a, t)
  PROVE  Matches(f, b, t)
<1>1. e.active = a.amount - MinimumActive
  BY Zenon DEF Matches, Withdrawable
<1>2. f.active = b.amount - MinimumActive
  BY <1>1, Numbers
<1>3. f.active = Withdrawable(b)
  BY Zenon, <1>2 DEF Withdrawable
<1> QED
  BY Zenon, <1>3 DEF Matches

\* Deposits and withdrawals keep the list.
LEMMA TradeKept ==
  ASSUME Inv, ListKept, TradeNext
  PROVE  ListKept'
<1>1. TypeOK
  BY Zenon DEF Inv
<1>2. ASSUME UNCHANGED <<epoch, last_update_epoch, list, stake, transient>>
      PROVE  ListKept'
  BY Zenon, <1>2 DEF ListKept
<1>3. ASSUME NEW v \in Validators
      PROVE  /\ list[v] \in Entries /\ stake[v] \in StakeAccounts
             /\ transient[v] \in [Seeds -> TransientAccounts]
             /\ Kept(list[v], stake[v], transient[v], epoch, last_update_epoch)
             /\ list[v].status = "Active" /\ UpToDate
                => v \in Listed /\ Matches(list[v], stake[v], Transient(v))
  BY Zenon, <1>1, UpToDateMatches DEF TypeOK, ListKept, Listed
<1>4. ASSUME NEW d \in Deposits, NEW v \in Validators, DepositStake(v, d)
      PROVE  ListKept'
  <2> DEFINE e == [list[v] EXCEPT !.active = stake[v].amount + d.stake - MinimumActive]
             a == [stake[v] EXCEPT !.amount = stake[v].amount + d.stake]
  <2>1. /\ UpToDate /\ stake[v].kind = "Stake" /\ list[v].status = "Active"
        /\ stake' = [stake EXCEPT ![v] = a] /\ list' = [list EXCEPT ![v] = e]
        /\ UNCHANGED <<epoch, last_update_epoch, transient>>
    <3>1. /\ UpToDate /\ stake[v].kind = "Stake" /\ list[v].status = "Active"
          /\ stake' = [stake EXCEPT ![v].amount = stake[v].amount + d.stake]
          /\ list' = [list EXCEPT ![v].active = stake[v].amount + d.stake - MinimumActive]
      BY Zenon, <1>4 DEF DepositStake
    <3>2. UNCHANGED <<epoch, last_update_epoch, transient>>
      BY Zenon, <1>4 DEF DepositStake
    <3> QED
      BY Zenon, <3>1, <3>2
  <2>2. Matches(list[v], stake[v], Transient(v))
    BY Zenon, <1>3, <2>1
  <2>3. Kept(e, a, transient[v], epoch, last_update_epoch)
    <3>1. /\ e.status = list[v].status /\ e.transient = list[v].transient
          /\ e.seed = list[v].seed /\ e.last_update = list[v].last_update
          /\ e.active = stake[v].amount + d.stake - MinimumActive
          /\ a.kind = stake[v].kind /\ a.amount = stake[v].amount + d.stake
      BY Zenon, <1>3 DEF Entries, StakeAccounts
    <3> HIDE DEF e, a
    <3>2. e.active = Withdrawable(a)
      <4>1. stake[v].amount \in Nat /\ d.stake \in Nat /\ MinimumActive \in Nat
        BY Zenon, <1>1, Parts, Inputs, Numbers
      <4>2. a.kind # "None" /\ e.active = a.amount - MinimumActive
        BY <2>1, <3>1, <4>1
      <4> QED
        BY Zenon, <4>2 DEF Withdrawable
    <3>3. Matches(e, a, transient[v][e.seed])
      BY Zenon, <2>2, <3>1, <3>2 DEF Matches, Transient
    <3> QED
      BY Zenon, <1>3, <2>1, <3>1, <3>3 DEF Kept
  <2> HIDE DEF e, a
  <2>4. /\ list'[v] = e /\ stake'[v] = a /\ transient'[v] = transient[v]
        /\ \A w \in Validators \ {v} :
              list'[w] = list[w] /\ stake'[w] = stake[w] /\ transient'[w] = transient[w]
    BY Zenon, <1>1, <2>1 DEF TypeOK
  <2> QED
    BY Zenon, <2>1, <2>3, <2>4, OneValidator
<1>5. ASSUME NEW lamports, DepositSol(lamports)
      PROVE  ListKept'
  BY Zenon, <1>2, <1>5 DEF DepositSol
<1>6. ASSUME NEW from \in {"users", "manager"}, NEW amount \in Withdrawals,
             WithdrawReserveStake(from, amount)
      PROVE  ListKept'
  BY Zenon, <1>2, <1>6 DEF WithdrawReserveStake, BurnTokens
<1>7. ASSUME NEW from \in {"users", "manager"}, NEW amount \in Withdrawals,
             WithdrawSol(from, amount)
      PROVE  ListKept'
  BY Zenon, <1>2, <1>7 DEF WithdrawSol, BurnTokens
<1>8. ASSUME NEW from \in {"users", "manager"}, NEW amount \in Withdrawals,
             BurnTokens("stake_withdrawal", from, amount)
      PROVE  Withdrawn("stake_withdrawal", from, amount) \in Nat /\ UpToDate
             /\ UNCHANGED <<epoch, last_update_epoch>>
  <2>1. "stake_withdrawal" \in WithdrawalKinds /\ amount \in Nat
    BY Zenon, Inputs DEF WithdrawalKinds
  <2> QED
    BY Zenon, <1>8, <2>1, BurningCovers DEF BurnTokens
<1>9. ASSUME NEW v \in Validators, NEW from \in {"users", "manager"},
             NEW amount \in Withdrawals, WithdrawStake(v, from, amount)
      PROVE  ListKept'
  <2> DEFINE lamports == Withdrawn("stake_withdrawal", from, amount)
             e == [list[v] EXCEPT !.active = list[v].active - lamports]
             a == [stake[v] EXCEPT !.amount = stake[v].amount - lamports]
  <2>1. /\ stake[v].kind = "Stake" /\ list[v].status = "Active"
        /\ stake' = [stake EXCEPT ![v] = a] /\ list' = [list EXCEPT ![v] = e]
        /\ UNCHANGED transient /\ BurnTokens("stake_withdrawal", from, amount)
    BY Zenon, <1>9 DEF WithdrawStake
  <2>2. lamports \in Nat /\ UpToDate /\ UNCHANGED <<epoch, last_update_epoch>>
    BY Zenon, <1>8, <2>1
  <2>3. Matches(list[v], stake[v], Transient(v))
    BY Zenon, <1>3, <2>1, <2>2
  <2>4. Kept(e, a, transient[v], epoch, last_update_epoch)
    <3> HIDE DEF lamports
    <3>1. /\ e.status = list[v].status /\ e.transient = list[v].transient
          /\ e.seed = list[v].seed /\ e.last_update = list[v].last_update
          /\ e.active = list[v].active - lamports
          /\ a.kind = stake[v].kind /\ a.amount = stake[v].amount - lamports
          /\ stake[v].amount \in Nat /\ list[v].active \in Nat
      BY Zenon, <1>3 DEF Entries, StakeAccounts
    <3> HIDE DEF e, a
    <3>2. Matches(e, a, transient[v][e.seed])
      <4>1. Matches(list[v], stake[v], transient[v][list[v].seed])
        BY Zenon, <2>3 DEF Transient
      <4>2. a.kind = "Stake" /\ stake[v].kind = "Stake" /\ lamports \in Nat
        BY Zenon, <2>1, <2>2, <3>1
      <4>3. Matches(e, a, transient[v][list[v].seed])
        BY Zenon, <3>1, <4>1, <4>2, LessInBoth
      <4> QED
        BY Zenon, <3>1, <4>3
    <3> QED
      BY Zenon, <1>3, <2>1, <3>1, <3>2 DEF Kept
  <2> HIDE DEF e, a
  <2>5. /\ list'[v] = e /\ stake'[v] = a /\ transient'[v] = transient[v]
        /\ \A w \in Validators \ {v} :
              list'[w] = list[w] /\ stake'[w] = stake[w] /\ transient'[w] = transient[w]
    BY Zenon, <1>1, <2>1 DEF TypeOK
  <2> QED
    BY Zenon, <2>2, <2>4, <2>5, OneValidator
<1>10. ASSUME NEW v \in Validators, NEW from \in {"users", "manager"},
             NEW amount \in Withdrawals, WithdrawTransientStake(v, from, amount)
      PROVE  ListKept'
  <2> DEFINE lamports == Withdrawn("stake_withdrawal", from, amount)
             e == [list[v] EXCEPT !.transient = list[v].transient - lamports]
             x == [Transient(v) EXCEPT !.amount = Transient(v).amount - lamports]
             t == [transient[v] EXCEPT ![list[v].seed] = x]
  <2>1. /\ Transient(v).kind \in Delegated /\ list[v].status = "Active"
        /\ Transient(v).amount - lamports >= MinimumActive
        /\ transient' = [transient EXCEPT ![v] = t] /\ list' = [list EXCEPT ![v] = e]
        /\ UNCHANGED stake /\ BurnTokens("stake_withdrawal", from, amount)
    BY Zenon, <1>10 DEF WithdrawTransientStake, Delegated
  <2>2. lamports \in Nat /\ UpToDate /\ UNCHANGED <<epoch, last_update_epoch>>
    BY Zenon, <1>8, <2>1
  <2>3. Matches(list[v], stake[v], Transient(v))
    BY Zenon, <1>3, <2>1, <2>2
  <2> HIDE DEF lamports
  <2>4. Transient(v) \in TransientAccounts /\ list[v].seed \in Seeds
        /\ Transient(v).amount \in Nat /\ list[v].transient \in Nat
    BY Zenon, <1>1, Parts
  <2>5. /\ e.status = list[v].status /\ e.active = list[v].active
        /\ e.seed = list[v].seed /\ e.last_update = list[v].last_update
        /\ e.transient = list[v].transient - lamports
        /\ x.kind = Transient(v).kind /\ x.amount = Transient(v).amount - lamports
    BY Zenon, <1>3, <2>4 DEF Entries, TransientAccounts
  <2> HIDE DEF e, x
  <2>6. t[list[v].seed] = x /\ \A s \in Seeds : s # list[v].seed => t[s] = transient[v][s]
    BY Zenon, <1>3, <2>4
  <2>7. list[v].transient = Rent + Transient(v).amount
    BY Zenon, <2>1, <2>3 DEF Matches, Lamports, Delegated
  <2>8. x.amount > 0 /\ e.transient = Rent + x.amount /\ e.transient > 0
    BY <2>1, <2>2, <2>4, <2>5, <2>7, Numbers
  <2>9. Matches(e, stake[v], t[e.seed])
    BY Zenon, <2>1, <2>3, <2>5, <2>6, <2>8 DEF Matches, Lamports, Delegated
  <2> HIDE DEF t
  <2>10. Kept(e, stake[v], t, epoch, last_update_epoch)
    BY Zenon, <1>3, <2>1, <2>5, <2>6, <2>8, <2>9 DEF Kept, Transient
  <2>11. /\ list'[v] = e /\ transient'[v] = t /\ stake'[v] = stake[v]
        /\ \A w \in Validators \ {v} :
              list'[w] = list[w] /\ stake'[w] = stake[w] /\ transient'[w] = transient[w]
    BY Zenon, <1>1, <2>1 DEF TypeOK
  <2> QED
    BY Zenon, <2>2, <2>10, <2>11, OneValidator
<1> QED
  BY Zenon, <1>4, <1>5, <1>6, <1>7, <1>9, <1>10 DEF TradeNext

\* The staker's instructions keep the list.
LEMMA StakerKept ==
  ASSUME Inv, ListKept, StakerNext
  PROVE  ListKept'
<1>1. TypeOK
  BY Zenon DEF Inv
<1>2. PICK v \in Validators :
        \/ AddValidatorToPool(v)
        \/ RemoveValidatorFromPool(v)
        \/ \E lamports \in Increases, seed \in Seeds : DecreaseValidatorStake(v, lamports, seed)
        \/ \E lamports \in Increases, seed \in Seeds : IncreaseValidatorStake(v, lamports, seed)
        \/ \E kind \in {"deposit", "withdraw"}, to \in {v, None} : SetPreferredValidator(kind, to)
  BY Zenon DEF StakerNext
<1>3. /\ list[v] \in Entries /\ stake[v] \in StakeAccounts
      /\ transient[v] \in [Seeds -> TransientAccounts]
      /\ Kept(list[v], stake[v], transient[v], epoch, last_update_epoch)
      /\ v \in Listed /\ UpToDate => /\ Matches(list[v], stake[v], Transient(v))
                                     /\ list[v].last_update = epoch
  BY Zenon, <1>1, UpToDateMatches DEF TypeOK, ListKept
<1>4. epoch \in Nat /\ last_update_epoch \in Nat /\ last_update_epoch <= epoch
  BY Zenon, <1>1, Numbers DEF TypeOK, ListKept
<1>5. list[v].seed \in Seeds /\ Transient(v) = transient[v][list[v].seed]
      /\ list[v].active \in Nat /\ list[v].transient \in Nat /\ stake[v].amount \in Nat
  BY Zenon, <1>1, Parts DEF Transient
<1>6. CASE AddValidatorToPool(v)
  <2> DEFINE a == [kind |-> "Stake", amount |-> MinimumActive, since |-> epoch]
             e == [status |-> "Active", active |-> 0, transient |-> 0,
                   last_update |-> epoch, seed |-> 0]
  <2>1. /\ v \notin Listed /\ stake' = [stake EXCEPT ![v] = a] /\ list' = [list EXCEPT ![v] = e]
        /\ UNCHANGED <<epoch, last_update_epoch, transient>>
    BY Zenon, <1>6 DEF AddValidatorToPool, poolVars
  <2>2. list[v].status = "None"
    BY Zenon, <2>1 DEF Listed
  <2>3. \A s \in Seeds : transient[v][s].kind \in {"None", "Initialized"}
    BY Zenon, <1>3, <2>2 DEF Kept, Delegated, TransientAccounts
  <2>4. 0 \in Seeds /\ Withdrawable(a) = 0
    BY Numbers DEF Withdrawable
  <2>5. Matches(e, a, transient[v][0])
    BY Zenon, <2>3, <2>4 DEF Matches, Lamports
  <2>6. Kept(e, a, transient[v], epoch, last_update_epoch)
    <3>1. \A s \in Seeds : transient[v][s].kind \notin Delegated
      BY Zenon, <2>3 DEF Delegated
    <3>2. \A s \in Seeds : transient[v][s].kind # "None" => transient[v][s].amount > 0
      BY Zenon, <1>3 DEF Kept
    <3>3. /\ e.status = "Active" /\ e.last_update = epoch /\ e.seed = 0
          /\ a.kind = "Stake"
      BY Zenon
    <3>4. epoch <= epoch
      BY <1>4
    <3> HIDE DEF e, a
    <3> QED
      BY Zenon, <2>5, <3>1, <3>2, <3>3, <3>4 DEF Kept
  <2> HIDE DEF e, a
  <2>7. /\ list'[v] = e /\ stake'[v] = a /\ transient'[v] = transient[v]
        /\ \A w \in Validators \ {v} :
              list'[w] = list[w] /\ stake'[w] = stake[w] /\ transient'[w] = transient[w]
    BY Zenon, <1>1, <2>1 DEF TypeOK
  <2> QED
    BY Zenon, <2>1, <2>6, <2>7, OneValidator
<1>7. CASE RemoveValidatorFromPool(v)
  <2> DEFINE e == [list[v] EXCEPT !.status = RemovedStatus(v)]
  <2>1. /\ UpToDate /\ v \in Listed /\ stake[v].kind = "Stake" /\ stake[v].amount = MinimumActive
        /\ list[v].transient > 0 => Transient(v).kind # "Activating"
        /\ stake' = [stake EXCEPT ![v] = NoStake] /\ list' = [list EXCEPT ![v] = e]
        /\ UNCHANGED <<epoch, last_update_epoch, transient>>
    BY Zenon, <1>7 DEF RemoveValidatorFromPool, poolVars
  <2>2. /\ e.status = RemovedStatus(v) /\ e.transient = list[v].transient
        /\ e.seed = list[v].seed /\ e.last_update = list[v].last_update
        /\ e.active = list[v].active
    BY Zenon, <1>3 DEF Entries
  <2> HIDE DEF e
  <2>3. e.active = 0
    <3>1. Matches(list[v], stake[v], Transient(v))
      BY Zenon, <1>3, <2>1
    <3>2. list[v].active = Withdrawable(stake[v])
      BY Zenon, <3>1 DEF Matches
    <3>3. Withdrawable(stake[v]) = MinimumActive - MinimumActive
      BY Zenon, <2>1 DEF Withdrawable
    <3> QED
      BY <2>2, <3>2, <3>3, Numbers
  <2>4. Matches(e, NoStake, transient[v][e.seed])
    BY Zenon, <1>3, <1>5, <2>1, <2>2, <2>3 DEF Matches, Withdrawable, NoStake
  <2>5. e.status \in {"DeactivatingTransient", "ReadyForRemoval"}
    BY Zenon, <2>2 DEF RemovedStatus
  <2>6. ASSUME NEW s \in Seeds, transient[v][s].kind \in Delegated
        PROVE  /\ e.status = "DeactivatingTransient" /\ e.seed = s /\ e.transient > 0
    <3>1. list[v].seed = s /\ list[v].transient > 0
      BY Zenon, <1>3, <2>6 DEF Kept
    <3>2. Transient(v).kind = "Deactivating"
      BY Zenon, <1>5, <2>1, <2>6, <3>1 DEF Delegated
    <3> QED
      BY Zenon, <2>2, <3>1, <3>2 DEF RemovedStatus
  <2>7. Kept(e, NoStake, transient[v], epoch, last_update_epoch)
    BY Zenon, <1>3, <1>4, <2>1, <2>2, <2>4, <2>5, <2>6 DEF Kept, NoStake
  <2>8. /\ list'[v] = e /\ stake'[v] = NoStake /\ transient'[v] = transient[v]
        /\ \A w \in Validators \ {v} :
              list'[w] = list[w] /\ stake'[w] = stake[w] /\ transient'[w] = transient[w]
    BY Zenon, <1>1, <2>1 DEF TypeOK
  <2> QED
    BY Zenon, <2>1, <2>7, <2>8, OneValidator
<1>8. ASSUME list[v].transient = 0
      PROVE  \A s \in Seeds : transient[v][s].kind \notin Delegated
  <2>1. \A s \in Seeds : transient[v][s].kind \in Delegated => list[v].transient > 0
    BY Zenon, <1>3 DEF Kept
  <2> QED
    BY <1>8, <2>1
<1>9. ASSUME NEW lamports \in Increases, NEW seed \in Seeds,
             DecreaseValidatorStake(v, lamports, seed)
      PROVE  ListKept'
  <2> DEFINE x == [kind |-> "Deactivating", amount |-> lamports - Rent, since |-> epoch]
             t == [transient[v] EXCEPT ![seed] = x]
             e == [list[v] EXCEPT !.active = list[v].active - lamports,
                                  !.transient = lamports, !.seed = seed]
             a == [stake[v] EXCEPT !.amount = stake[v].amount - lamports]
  <2>1. /\ UpToDate /\ stake[v].kind = "Stake" /\ v \in Listed /\ list[v].transient = 0
        /\ lamports > Rent
        /\ stake' = [stake EXCEPT ![v] = a]
        /\ transient' = [transient EXCEPT ![v] = t]
        /\ list' = [list EXCEPT ![v] = e]
        /\ UNCHANGED <<epoch, last_update_epoch>>
    BY Zenon, <1>9 DEF DecreaseValidatorStake, poolVars
  <2>2. lamports \in Nat /\ lamports > 0 /\ lamports - Rent > 0 /\ Rent + (lamports - Rent) = lamports
    BY <2>1, Inputs, Numbers
  <2>3. /\ e.status = list[v].status /\ e.transient = lamports /\ e.seed = seed
        /\ e.last_update = list[v].last_update /\ e.active = list[v].active - lamports
        /\ a.kind = stake[v].kind /\ a.amount = stake[v].amount - lamports
    BY Zenon, <1>3 DEF Entries, StakeAccounts
  <2>4. t[seed] = x /\ \A s \in Seeds : s # seed => t[s] = transient[v][s]
    BY Zenon, <1>3
  <2>5. x.kind = "Deactivating" /\ x.amount = lamports - Rent
    BY Zenon
  <2> HIDE DEF e, a, x, t
  <2>6. Matches(e, a, t[e.seed])
    BY <1>3, <1>5, <2>1, <2>2, <2>3, <2>4, <2>5, Numbers DEF Matches, Withdrawable, Lamports
  <2>7. list[v].status = "Active"
    BY Zenon, <1>3, <2>1 DEF Kept
  <2>8. Kept(e, a, t, epoch, last_update_epoch)
    BY Zenon, <1>3, <1>4, <1>8, <2>1, <2>2, <2>3, <2>4, <2>5, <2>6, <2>7 DEF Kept
  <2>9. /\ list'[v] = e /\ stake'[v] = a /\ transient'[v] = t
        /\ \A w \in Validators \ {v} :
              list'[w] = list[w] /\ stake'[w] = stake[w] /\ transient'[w] = transient[w]
    BY Zenon, <1>1, <2>1 DEF TypeOK
  <2> QED
    BY Zenon, <2>1, <2>8, <2>9, OneValidator
<1>10. ASSUME NEW lamports \in Increases, NEW seed \in Seeds,
              IncreaseValidatorStake(v, lamports, seed)
       PROVE  ListKept'
  <2> DEFINE x == [kind |-> "Activating", amount |-> lamports, since |-> epoch]
             t == [transient[v] EXCEPT ![seed] = x]
             e == [list[v] EXCEPT !.transient = lamports + Rent, !.seed = seed]
  <2>1. /\ UpToDate /\ stake[v].kind = "Stake" /\ list[v].status = "Active"
        /\ list[v].transient = 0 /\ lamports >= MinimumActive
        /\ transient' = [transient EXCEPT ![v] = t]
        /\ list' = [list EXCEPT ![v] = e]
        /\ UNCHANGED <<epoch, last_update_epoch, stake>>
    BY Zenon, <1>10 DEF IncreaseValidatorStake, poolVars
  <2>2. lamports \in Nat /\ lamports > 0 /\ lamports + Rent > 0 /\ lamports + Rent = Rent + lamports
    BY <2>1, Inputs, Numbers
  <2>3. /\ e.status = list[v].status /\ e.transient = lamports + Rent /\ e.seed = seed
        /\ e.last_update = list[v].last_update /\ e.active = list[v].active
    BY Zenon, <1>3 DEF Entries
  <2>4. t[seed] = x /\ \A s \in Seeds : s # seed => t[s] = transient[v][s]
    BY Zenon, <1>3
  <2>5. x.kind = "Activating" /\ x.amount = lamports
    BY Zenon
  <2> HIDE DEF e, x, t
  <2>6. v \in Listed
    BY Zenon, <2>1 DEF Listed
  <2>7. Matches(e, stake[v], t[e.seed])
    BY Zenon, <1>3, <1>5, <2>1, <2>2, <2>3, <2>4, <2>5, <2>6 DEF Matches, Lamports
  <2>8. Kept(e, stake[v], t, epoch, last_update_epoch)
    BY Zenon, <1>3, <1>4, <1>8, <2>1, <2>2, <2>3, <2>4, <2>5, <2>6, <2>7 DEF Kept
  <2>9. /\ list'[v] = e /\ stake'[v] = stake[v] /\ transient'[v] = t
        /\ \A w \in Validators \ {v} :
              list'[w] = list[w] /\ stake'[w] = stake[w] /\ transient'[w] = transient[w]
    BY Zenon, <1>1, <2>1 DEF TypeOK
  <2> QED
    BY Zenon, <2>1, <2>8, <2>9, OneValidator
<1>11. ASSUME NEW kind, NEW to, SetPreferredValidator(kind, to)
       PROVE  ListKept'
  BY Zenon, <1>11 DEF SetPreferredValidator, poolVars, accounts, ListKept
<1> QED
  BY Zenon, <1>2, <1>6, <1>7, <1>9, <1>10, <1>11

\* The update of one entry, on the values it reads.
LEMMA EntryUpdateKept ==
  ASSUME Inv, ListKept, NEW v \in Listed, NEW no_merge \in BOOLEAN,
         UpdateValidatorListBalance(v, no_merge)
  PROVE  Kept(UpdatedEntry(v, no_merge), UpdatedStake(v, no_merge),
              [transient[v] EXCEPT ![list[v].seed] = UpdatedTransient(v, no_merge)],
              epoch, last_update_epoch)
<1> DEFINE e == UpdatedEntry(v, no_merge)
           a == UpdatedStake(v, no_merge)
           x == UpdatedTransient(v, no_merge)
           t == [transient[v] EXCEPT ![list[v].seed] = x]
           merged == ~no_merge /\ (MergesIntoReserve(v) \/ MergesIntoStake(v))
           to_stake == ~no_merge /\ MergesIntoStake(v)
           amount == stake[v].amount + IF to_stake THEN Transient(v).amount ELSE 0
<1>1. TypeOK /\ v \in Validators /\ list[v].status # "None"
  BY Zenon DEF Inv, Listed
<1>2. /\ list[v] \in Entries /\ stake[v] \in StakeAccounts
      /\ transient[v] \in [Seeds -> TransientAccounts]
      /\ Kept(list[v], stake[v], transient[v], epoch, last_update_epoch)
      /\ list[v].seed \in Seeds /\ Transient(v) \in TransientAccounts
      /\ Transient(v) = transient[v][list[v].seed]
      /\ Transient(v).amount \in Nat /\ stake[v].amount \in Nat
      /\ epoch \in Nat /\ last_update_epoch \in Nat
  BY Zenon, <1>1, Parts, Numbers DEF TypeOK, ListKept, Transient
<1>3. t[list[v].seed] = x /\ \A s \in Seeds : s # list[v].seed => t[s] = transient[v][s]
  BY Zenon, <1>2
<1>4. /\ e.active = IF stake[v].kind = "Stake" /\ list[v].status = "Active"
                    THEN amount - MinimumActive ELSE 0
      /\ e.transient = IF merged \/ Transient(v).kind = "None"
                       THEN 0 ELSE Rent + Transient(v).amount
      /\ e.last_update = epoch /\ e.seed = list[v].seed
      /\ e.status = IF Absorbed(v) \/ (~no_merge /\ MergesIntoReserve(v)
                                       /\ list[v].status = "DeactivatingTransient")
                    THEN "ReadyForRemoval" ELSE list[v].status
  BY Zenon DEF UpdatedEntry
<1>5. x = IF merged THEN NoStake ELSE Transient(v)
  BY Zenon DEF UpdatedTransient
<1>6. a = IF Absorbed(v) THEN NoStake ELSE [stake[v] EXCEPT !.amount = amount]
  BY Zenon DEF UpdatedStake
<1> HIDE DEF e, a, x, t, amount, to_stake
<1>7. /\ Absorbed(v) => a.kind = "None"
      /\ ~Absorbed(v) => a.kind = stake[v].kind /\ a.amount = amount
  BY Zenon, <1>2, <1>6 DEF NoStake, StakeAccounts
<1>8. stake[v].kind # "None" <=> list[v].status = "Active"
  BY Zenon, <1>2 DEF Kept
<1>9. e.active = Withdrawable(a)
  <2>1. CASE Absorbed(v)
    BY Zenon, <1>4, <1>7, <2>1 DEF Withdrawable, Absorbed
  <2>2. CASE ~Absorbed(v) /\ stake[v].kind = "Stake"
    BY Zenon, <1>4, <1>7, <1>8, <2>2 DEF Withdrawable
  <2>3. CASE stake[v].kind = "None"
    BY Zenon, <1>4, <1>7, <2>3 DEF Withdrawable, Absorbed
  <2> QED
    <3>1. stake[v].kind \in {"None", "Stake", "Initialized"}
      BY Zenon, <1>2 DEF StakeAccounts
    <3> QED
      BY Zenon, <2>1, <2>2, <2>3, <3>1 DEF Absorbed
<1>10. e.transient = Lamports(x)
  BY Zenon, <1>4, <1>5 DEF Lamports, NoStake
<1>11. Matches(e, a, t[e.seed])
  BY Zenon, <1>3, <1>4, <1>9, <1>10 DEF Matches
<1>12. a.kind # "None" <=> e.status = "Active"
  <2>1. CASE Absorbed(v)
    BY Zenon, <1>4, <1>7, <2>1
  <2>2. CASE ~Absorbed(v)
    BY Zenon, <1>4, <1>7, <1>8, <2>2
  <2> QED
    BY Zenon, <2>1, <2>2
<1>13. a.kind # "Initialized"
  BY Zenon, <1>7 DEF Absorbed
<1>14. ASSUME NEW s \in Seeds
       PROVE  /\ t[s].kind # "None" => t[s].amount > 0
              /\ t[s].kind \in Delegated =>
                    /\ e.status \in {"Active", "DeactivatingTransient"}
                    /\ e.seed = s /\ e.transient > 0
  <2>1. transient[v][s].kind \in Delegated =>
           /\ list[v].status \in {"Active", "DeactivatingTransient"}
           /\ list[v].seed = s /\ ~Absorbed(v)
    BY Zenon, <1>2 DEF Kept, Absorbed
  <2>2. transient[v][s].kind # "None" => transient[v][s].amount > 0
    BY Zenon, <1>2 DEF Kept
  <2>3. CASE s # list[v].seed
    BY Zenon, <1>3, <2>1, <2>2, <2>3
  <2>4. CASE s = list[v].seed /\ merged
    <3>1. t[s] = NoStake
      BY Zenon, <1>3, <1>5, <2>4
    <3> QED
      BY <3>1 DEF NoStake, Delegated
  <2>5. CASE s = list[v].seed /\ ~merged
    <3>1. t[s] = Transient(v) /\ transient[v][s] = Transient(v)
      BY Zenon, <1>2, <1>3, <1>5, <2>5
    <3>2. Transient(v).kind \in Delegated => Transient(v).kind # "None"
      BY Zenon DEF Delegated
    <3>3. Transient(v).kind \in Delegated => e.transient = Rent + Transient(v).amount
      BY Zenon, <1>4, <2>5, <3>2
    <3>4. Transient(v).kind \in Delegated => e.transient > 0
      <4>1. Transient(v).kind \in Delegated => Transient(v).amount > 0
        BY Zenon, <2>2, <3>1, <3>2
      <4>2. Transient(v).amount \in Nat /\ Rent \in Nat
        BY Zenon, <1>2, Numbers
      <4> QED
        BY <3>3, <4>1, <4>2
    <3> QED
      BY Zenon, <1>4, <2>1, <2>2, <2>5, <3>1, <3>4
  <2> QED
    BY Zenon, <2>3, <2>4, <2>5
<1> HIDE DEF merged
<1>15. e.last_update = epoch /\ epoch <= epoch
  <2>1. e.last_update = epoch /\ epoch \in Nat
    BY Zenon, <1>2, <1>4
  <2> QED
    BY <2>1
<1>16. Kept(e, a, t, epoch, last_update_epoch)
  BY Zenon, <1>11, <1>12, <1>13, <1>14, <1>15 DEF Kept
<1> QED
  BY Zenon, <1>16 DEF e, a, x, t

\* Updates keep the list.
LEMMA UpdateKept ==
  ASSUME Inv, ListKept, UpdateNext
  PROVE  ListKept'
<1>1. TypeOK /\ epoch \in Nat /\ last_update_epoch \in Nat
  BY Zenon, Numbers DEF Inv, TypeOK
<1>2. ASSUME NEW v \in Validators, NEW no_merge \in BOOLEAN,
             UpdateValidatorListBalance(v, no_merge)
      PROVE  ListKept'
  <2> DEFINE e == UpdatedEntry(v, no_merge)
             a == UpdatedStake(v, no_merge)
             x == UpdatedTransient(v, no_merge)
             t == [transient[v] EXCEPT ![list[v].seed] = x]
  <2>1. /\ v \in Listed
        /\ list' = [list EXCEPT ![v] = e] /\ stake' = [stake EXCEPT ![v] = a]
        /\ transient' = [transient EXCEPT ![v][list[v].seed] = x]
        /\ UNCHANGED poolVars
    BY Zenon, <1>1, <1>2, UpdateWrites
  <2>2. Kept(e, a, t, epoch, last_update_epoch)
    BY Zenon, <1>2, <2>1, EntryUpdateKept
  <2> HIDE DEF e, a, x
  <2>3. /\ list'[v] = e /\ stake'[v] = a /\ transient'[v] = t
        /\ \A w \in Validators \ {v} :
              list'[w] = list[w] /\ stake'[w] = stake[w] /\ transient'[w] = transient[w]
    BY Zenon, <1>1, <2>1 DEF TypeOK
  <2>4. UNCHANGED <<epoch, last_update_epoch>>
    BY Zenon, <2>1 DEF poolVars
  <2> HIDE DEF t
  <2> QED
    BY Zenon, <2>2, <2>3, <2>4, OneValidator
<1>3. CASE UpdateStakePoolBalance
  <2>1. /\ \A v \in Listed : list[v].last_update >= epoch
        /\ last_update_epoch' = IF UpToDate THEN last_update_epoch ELSE epoch
    BY Zenon, <1>3 DEF UpdateStakePoolBalance
  <2>2. UNCHANGED <<epoch, list, stake, transient>>
    BY Zenon, <1>3, PoolUpdate DEF accounts
  <2>3. last_update_epoch' <= epoch
    BY <1>1, <2>1 DEF ListKept
  <2>4. ASSUME NEW v \in Validators
        PROVE  Kept(list[v], stake[v], transient[v], epoch, last_update_epoch')
    <3>1. Kept(list[v], stake[v], transient[v], epoch, last_update_epoch)
      BY Zenon DEF ListKept
    <3>2. list[v].status # "None" => list[v].last_update >= epoch
      BY Zenon, <2>1 DEF Listed
    <3>3. list[v].last_update \in Nat
      BY Zenon, <1>1, Parts, Numbers
    <3>4. list[v].status # "None" => list[v].last_update = epoch
      BY <1>1, <3>1, <3>2, <3>3 DEF Kept
    <3> QED
      BY Zenon, <3>1, <3>4 DEF Kept
  <2> QED
    BY Zenon, <2>2, <2>3, <2>4 DEF ListKept
<1>4. CASE CleanupRemovedValidatorEntries
  <2>1. /\ list' = [v \in Validators |->
               IF list[v].status = "ReadyForRemoval" THEN NoEntry ELSE list[v]]
        /\ UNCHANGED <<epoch, last_update_epoch, stake, transient>>
    BY Zenon, <1>4 DEF CleanupRemovedValidatorEntries, poolVars
  <2>2. ASSUME NEW v \in Validators
        PROVE  Kept(list'[v], stake[v], transient[v], epoch, last_update_epoch)
    <3>1. Kept(list[v], stake[v], transient[v], epoch, last_update_epoch)
      BY Zenon DEF ListKept
    <3>2. CASE list[v].status = "ReadyForRemoval"
      <4>1. list'[v] = NoEntry
        BY Zenon, <2>1, <3>2
      <4> QED
        <5>1. list'[v].status = "None"
          BY <4>1 DEF NoEntry
        <5>2. stake[v].kind = "None" /\ \A s \in Seeds : transient[v][s].kind \notin Delegated
          BY Zenon, <3>1, <3>2 DEF Kept
        <5>3. \A s \in Seeds : transient[v][s].kind # "None" => transient[v][s].amount > 0
          BY Zenon, <3>1 DEF Kept
        <5> QED
          BY Zenon, <5>1, <5>2, <5>3 DEF Kept
    <3>3. CASE list[v].status # "ReadyForRemoval"
      BY Zenon, <2>1, <3>1, <3>3
    <3> QED
      BY Zenon, <3>2, <3>3
  <2> QED
    BY Zenon, <2>1, <2>2 DEF ListKept
<1> QED
  BY Zenon, <1>2, <1>3, <1>4 DEF UpdateNext

\* Epochs and restarts keep the list.
LEMMA ClusterKept ==
  ASSUME Inv, ListKept, ClusterNext
  PROVE  ListKept'
<1>1. TypeOK /\ epoch \in Nat /\ last_update_epoch \in Nat
  BY Zenon, Numbers DEF Inv, TypeOK
<1>2. ASSUME NEW earned \in [Validators -> Rewards], NEW more \in [Validators -> Rewards],
             NextEpoch(earned, more)
      PROVE  ListKept'
  <2>1. /\ epoch' = epoch + 1 /\ UNCHANGED <<last_update_epoch, list>>
        /\ stake' = [v \in Validators |-> WithReward(stake[v], earned[v])]
        /\ transient' = [v \in Validators |-> [s \in Seeds |->
               WithReward(transient[v][s], more[v])]]
    BY Zenon, <1>2 DEF NextEpoch
  <2>2. last_update_epoch <= epoch + 1 /\ ~(last_update_epoch >= epoch + 1)
    BY <1>1 DEF ListKept
  <2>3. ASSUME NEW v \in Validators
        PROVE  Kept(list[v], stake'[v], transient'[v], epoch + 1, last_update_epoch)
    <3>1. Kept(list[v], stake[v], transient[v], epoch, last_update_epoch)
      BY Zenon DEF ListKept
    <3>2. stake'[v].kind = stake[v].kind
      BY Zenon, <1>1, <2>1, Parts DEF WithReward, StakeAccounts
    <3>3. ASSUME NEW s \in Seeds
          PROVE  /\ transient'[v][s].kind = transient[v][s].kind
                 /\ transient[v][s].amount > 0 => transient'[v][s].amount > 0
      <4>1. transient[v][s] \in TransientAccounts /\ more[v] \in Nat
        BY Zenon, <1>1, Parts, Inputs
      <4>2. transient'[v][s] = WithReward(transient[v][s], more[v])
        BY Zenon, <2>1
      <4>3. transient[v][s].amount \in Nat
        BY Zenon, <4>1 DEF TransientAccounts
      <4> QED
        BY <4>1, <4>2, <4>3 DEF WithReward, TransientAccounts
    <3>4. list[v].last_update \in Nat
      BY Zenon, <1>1, Parts, Numbers
    <3>5. list[v].status # "None" =>
             list[v].last_update <= epoch + 1 /\ list[v].last_update # epoch + 1
      <4>1. list[v].status # "None" => list[v].last_update <= epoch
        BY Zenon, <3>1 DEF Kept
      <4>2. epoch \in Nat
        BY Zenon, <1>1
      <4> QED
        BY <3>4, <4>1, <4>2
    <3> QED
      BY Zenon, <2>2, <3>1, <3>2, <3>3, <3>5 DEF Kept
  <2> QED
    BY Zenon, <2>1, <2>2, <2>3 DEF ListKept
<1>3. ASSUME NEW v \in Validators, Destake(v)
      PROVE  ListKept'
  <2> DEFINE t == [s \in Seeds |-> Destaked(transient[v][s])]
  <2>1. /\ stake[v].kind = "Stake"
        /\ stake' = [stake EXCEPT ![v] = Destaked(stake[v])]
        /\ transient' = [transient EXCEPT ![v] = t]
        /\ UNCHANGED <<epoch, last_update_epoch, list>>
    BY Zenon, <1>3 DEF Destake, poolVars
  <2>2. /\ Kept(list[v], stake[v], transient[v], epoch, last_update_epoch)
        /\ list[v].seed \in Seeds /\ stake[v] \in StakeAccounts
    BY Zenon, <1>1, Parts DEF ListKept
  <2>3. ASSUME NEW s \in Seeds
        PROVE  /\ t[s].kind \in {"None", "Initialized"} /\ t[s].amount = transient[v][s].amount
               /\ t[s].kind = "None" <=> transient[v][s].kind = "None"
    <3>1. transient[v][s] \in TransientAccounts
      BY Zenon, <1>1, Parts
    <3> QED
      BY Zenon, <3>1 DEF Destaked, TransientAccounts
  <2>4. Destaked(stake[v]).kind = "Initialized" /\ Destaked(stake[v]).amount = stake[v].amount
    BY Zenon, <2>1, <2>2 DEF Destaked, StakeAccounts
  <2> HIDE DEF t
  <2>5. ASSUME Matches(list[v], stake[v], transient[v][list[v].seed])
        PROVE  Matches(list[v], Destaked(stake[v]), t[list[v].seed])
    BY Zenon, <2>1, <2>2, <2>3, <2>4, <2>5 DEF Matches, Withdrawable, Lamports
  <2>6. Kept(list[v], Destaked(stake[v]), t, epoch, last_update_epoch)
    BY Zenon, <2>1, <2>2, <2>3, <2>4, <2>5 DEF Kept, Delegated
  <2>7. /\ list'[v] = list[v] /\ stake'[v] = Destaked(stake[v]) /\ transient'[v] = t
        /\ \A w \in Validators \ {v} :
              list'[w] = list[w] /\ stake'[w] = stake[w] /\ transient'[w] = transient[w]
    BY Zenon, <1>1, <2>1 DEF TypeOK
  <2> QED
    BY Zenon, <2>1, <2>6, <2>7, OneValidator
<1> QED
  BY Zenon, <1>2, <1>3 DEF ClusterNext

\* Every step keeps the list in accordance with the accounts.
LEMMA KeptStep ==
  ASSUME Inv, ListKept, [Next]_vars
  PROVE  ListKept'
<1>1. CASE UNCHANGED <<epoch, last_update_epoch, list, stake, transient>>
  BY Zenon, <1>1 DEF ListKept
<1>2. CASE ManagerNext
  BY Zenon, <1>1, <1>2 DEF ManagerNext, SetFee, SetManager, accounts
<1>3. CASE HolderNext
  BY Zenon, <1>1, <1>3 DEF HolderNext, BurnPoolTokens, CloseFeeAccount, Donate, poolVars, accounts
<1>4. CASE UNCHANGED vars
  BY Zenon, <1>1, <1>4 DEF vars, accounts
<1> QED
  BY Zenon, <1>2, <1>3, <1>4, TradeKept, StakerKept, UpdateKept, ClusterKept DEF Next

LEMMA KeptAlways == Spec => []ListKept
<1>1. Init => ListKept
  <2> SUFFICES ASSUME Init
               PROVE  ListKept
    BY Zenon
  <2>1. epoch = last_update_epoch /\ last_update_epoch <= epoch
    BY Numbers DEF Init
  <2>2. ASSUME NEW v \in Validators
        PROVE  Kept(list[v], stake[v], transient[v], epoch, last_update_epoch)
    <3>1. /\ list[v].status = "None" /\ stake[v].kind = "None"
          /\ \A s \in Seeds : transient[v][s].kind = "None"
      BY Zenon DEF Init, NoEntry, NoStake
    <3>2. \A s \in Seeds : transient[v][s].kind \notin Delegated
      BY Zenon, <3>1 DEF Delegated
    <3> QED
      BY Zenon, <3>1, <3>2 DEF Kept
  <2> QED
    BY Zenon, <2>1, <2>2 DEF ListKept
<1>2. Inv /\ ListKept /\ [Next]_vars => ListKept'
  BY KeptStep
<1> QED
  BY <1>1, <1>2, InvAlways, PTL DEF Spec

\* While the pool counts as updated, every entry of the validator list states
\* what is in the accounts, whatever order validators are updated, added,
\* removed, moved or destaked in.
THEOREM AlwaysAccurate == Spec => []UpToDateIsAccurate
<1>1. ListKept => UpToDateIsAccurate
  <2>1. ASSUME ListKept, UpToDate, NEW v \in Listed
        PROVE  /\ list[v].last_update = epoch
               /\ list[v].active = Withdrawable(stake[v])
               /\ \/ list[v].transient = Lamports(Transient(v))
                  \/ list[v].transient = 0 /\ Transient(v).kind = "Initialized"
    BY Zenon, <2>1, UpToDateMatches DEF Matches
  <2> QED
    BY <2>1 DEF UpToDateIsAccurate
<1> QED
  BY <1>1, KeptAlways, PTL

\* No delegated stake is ever without an entry in the list that counts it.
THEOREM DelegatedStakeAlwaysListed == Spec => []DelegatedStakeListed
<1>1. ListKept => DelegatedStakeListed
  BY Zenon DEF ListKept, Kept, DelegatedStakeListed, Delegated
<1> QED
  BY <1>1, KeptAlways, PTL
-----------------------------------------------------------------------------
(* Solvency *)

\* What the accounts of a validator hold is a number.
LEMMA AccountNumbers ==
  ASSUME NEW a \in StakeAccounts, NEW t \in [Seeds -> TransientAccounts]
  PROVE  /\ Withdrawable(a) \in Int
         /\ \A s \in Seeds : Lamports(t[s]) \in Nat /\ Lent(t)[s] = Lamports(t[s])
         /\ Terms(Lent(t), Seeds)
         /\ SumFunctionOnSet(Lent(t), Seeds) \in Int /\ Worth(a, t) \in Int
<1>1. a.amount \in Nat /\ \A s \in Seeds : t[s].amount \in Nat
  BY Zenon DEF StakeAccounts, TransientAccounts
<1>2. Rent \in Nat /\ MinimumActive \in Nat
  BY Zenon, Numbers
<1>3. Withdrawable(a) \in Int
  BY <1>1, <1>2 DEF Withdrawable
<1>4. ASSUME NEW s \in Seeds PROVE Lamports(t[s]) \in Nat /\ Lent(t)[s] = Lamports(t[s])
  <2>1. Rent + t[s].amount \in Nat
    BY <1>1, <1>2
  <2>2. 0 \in Nat
    OBVIOUS
  <2> QED
    BY Zenon, <2>1, <2>2 DEF Lamports, Lent
<1>5. Finite(Seeds)
  <2>1. Seeds \in SUBSET Seeds
    BY Zenon
  <2> QED
    BY Zenon, <2>1, FiniteSubset, StakePoolAssumption
<1>6. Terms(Lent(t), Seeds)
  <2>1. \A n \in Nat : n \in Int
    OBVIOUS
  <2> QED
    BY Zenon, <1>4, <1>5, <2>1 DEF Terms
<1>7. SumFunctionOnSet(Lent(t), Seeds) \in Int
  BY Zenon, <1>6, SumIsInt
<1>8. Worth(a, t) \in Int
  <2> DEFINE x == Withdrawable(a)
             y == SumFunctionOnSet(Lent(t), Seeds)
  <2>1. x \in Int /\ y \in Int /\ Worth(a, t) = x + y
    BY Zenon, <1>3, <1>7 DEF Worth
  <2> HIDE DEF x, y
  <2> QED
    BY <2>1
<1> QED
  BY Zenon, <1>3, <1>4, <1>6, <1>7, <1>8

\* When the stake account and one transient account of a validator change.
LEMMA WorthChange ==
  ASSUME NEW a \in StakeAccounts, NEW t \in [Seeds -> TransientAccounts],
         NEW b \in StakeAccounts, NEW u \in [Seeds -> TransientAccounts],
         NEW s \in Seeds, \A r \in Seeds : r # s => u[r] = t[r]
  PROVE  Worth(b, u) - Worth(a, t) = (Withdrawable(b) - Withdrawable(a))
                                     + (Lamports(u[s]) - Lamports(t[s]))
<1> DEFINE x == SumFunctionOnSet(Lent(t), Seeds)
           y == SumFunctionOnSet(Lent(u), Seeds)
<1>1. \A r \in Seeds : r # s => Lent(u)[r] = Lent(t)[r]
  BY Zenon, AccountNumbers
<1>2. y = x - Lent(t)[s] + Lent(u)[s]
  <2> DEFINE f == Lent(t)
             g == Lent(u)
  <2>1. Terms(f, Seeds) /\ Terms(g, Seeds) /\ \A r \in Seeds : r # s => g[r] = f[r]
    BY Zenon, <1>1, AccountNumbers
  <2> HIDE DEF f, g
  <2>2. SumFunctionOnSet(g, Seeds) = SumFunctionOnSet(f, Seeds) - f[s] + g[s]
    BY <2>1, SumChange
  <2> QED
    BY Zenon, <2>2 DEF f, g
<1>3. /\ x \in Int /\ y \in Int
      /\ Withdrawable(a) \in Int /\ Withdrawable(b) \in Int
      /\ Lamports(t[s]) \in Nat /\ Lamports(u[s]) \in Nat
      /\ Lent(t)[s] = Lamports(t[s]) /\ Lent(u)[s] = Lamports(u[s])
  BY Zenon, AccountNumbers
<1>4. Worth(a, t) = Withdrawable(a) + x /\ Worth(b, u) = Withdrawable(b) + y
  BY Zenon DEF Worth
<1> HIDE DEF x, y
<1>5. y = x - Lamports(t[s]) + Lamports(u[s])
  BY Zenon, <1>2, <1>3
<1> QED
  BY <1>3, <1>4, <1>5

\* When none of the accounts of a validator has less.
LEMMA WorthGrows ==
  ASSUME NEW a \in StakeAccounts, NEW t \in [Seeds -> TransientAccounts],
         NEW b \in StakeAccounts, NEW u \in [Seeds -> TransientAccounts],
         Withdrawable(a) <= Withdrawable(b),
         \A s \in Seeds : Lamports(t[s]) <= Lamports(u[s])
  PROVE  Worth(a, t) <= Worth(b, u)
<1> DEFINE x == SumFunctionOnSet(Lent(t), Seeds)
           y == SumFunctionOnSet(Lent(u), Seeds)
<1>1. \A s \in Seeds : Lent(t)[s] <= Lent(u)[s]
  BY Zenon, AccountNumbers
<1>2. x <= y
  BY Zenon, <1>1, AccountNumbers, SumMonotonic
<1>3. /\ x \in Int /\ y \in Int
      /\ Withdrawable(a) \in Int /\ Withdrawable(b) \in Int
  BY Zenon, AccountNumbers
<1>4. Worth(a, t) = Withdrawable(a) + x /\ Worth(b, u) = Withdrawable(b) + y
  BY Zenon DEF Worth
<1> HIDE DEF x, y
<1> QED
  BY <1>2, <1>3, <1>4

\* One of its accounts has no more than all accounts of a validator.
LEMMA WorthIncludes ==
  ASSUME NEW a \in StakeAccounts, NEW t \in [Seeds -> TransientAccounts], NEW s \in Seeds
  PROVE  Withdrawable(a) + Lamports(t[s]) <= Worth(a, t)
<1> DEFINE u == [t EXCEPT ![s] = NoStake]
           y == SumFunctionOnSet(Lent(u), Seeds)
<1>1. u \in [Seeds -> TransientAccounts] /\ u[s] = NoStake
      /\ \A r \in Seeds : r # s => u[r] = t[r]
  BY Zenon, Records
<1> HIDE DEF u
<1>2. Worth(a, t) - Worth(a, u) = (Withdrawable(a) - Withdrawable(a))
                                  + (Lamports(t[s]) - Lamports(u[s]))
  BY Zenon, <1>1, WorthChange
<1>3. Lamports(u[s]) = 0
  <2>1. NoStake.kind = "None"
    BY DEF NoStake
  <2> QED
    BY Zenon, <1>1, <2>1 DEF Lamports
<1>4. y >= 0
  <2>1. \A r \in Seeds : Lent(u)[r] >= 0
    BY <1>1, AccountNumbers
  <2>2. Terms(Lent(u), Seeds)
    BY Zenon, <1>1, AccountNumbers
  <2> QED
    BY Zenon, <2>1, <2>2, SumSign
<1>5. Worth(a, u) = Withdrawable(a) + y
  BY Zenon DEF Worth
<1>6. /\ Withdrawable(a) \in Int /\ Lamports(t[s]) \in Nat /\ y \in Int
      /\ Worth(a, t) \in Int /\ Worth(a, u) \in Int
  BY Zenon, <1>1, AccountNumbers
<1> HIDE DEF y
<1> QED
  BY <1>2, <1>3, <1>4, <1>5, <1>6

\* The accounts of all validators.
LEMMA ValidatorTerms ==
  ASSUME TypeOK
  PROVE  /\ Terms(OfValidators, Validators)
         /\ \A v \in Validators : /\ OfValidators[v] = Worth(stake[v], transient[v])
                                  /\ OfValidators[v] \in Int
         /\ SumFunctionOnSet(OfValidators, Validators) \in Int
         /\ total_lamports \in Int /\ reserve \in Int /\ MinimumReserveLamports \in Int
<1>1. ASSUME NEW v \in Validators PROVE Worth(stake[v], transient[v]) \in Int
  <2>1. stake[v] \in StakeAccounts /\ transient[v] \in [Seeds -> TransientAccounts]
    BY Zenon DEF TypeOK
  <2> QED
    BY Zenon, <2>1, AccountNumbers
<1>2. Finite(Validators)
  <2>1. Validators \in SUBSET Validators
    BY Zenon
  <2> QED
    BY Zenon, <2>1, FiniteSubset, StakePoolAssumption
<1>3. \A v \in Validators : OfValidators[v] = Worth(stake[v], transient[v])
  BY Zenon DEF OfValidators
<1>4. Terms(OfValidators, Validators)
  BY Zenon, <1>1, <1>2, <1>3 DEF Terms
<1>5. total_lamports \in Nat /\ reserve \in Nat /\ MinimumReserveLamports \in Nat
  BY Zenon, Numbers DEF TypeOK
<1>6. total_lamports \in Int /\ reserve \in Int /\ MinimumReserveLamports \in Int
  BY <1>5
<1> QED
  BY Zenon, <1>1, <1>3, <1>4, <1>6, SumIsInt

\* The same after a step.
LEMMA ValidatorTermsAfter ==
  ASSUME TypeOK'
  PROVE  /\ Terms(OfValidators', Validators)
         /\ \A v \in Validators : /\ (OfValidators')[v] = Worth(stake'[v], transient'[v])
                                  /\ (OfValidators')[v] \in Int
         /\ SumFunctionOnSet(OfValidators', Validators) \in Int
         /\ total_lamports' \in Int /\ reserve' \in Int
<1>1. ASSUME NEW v \in Validators PROVE Worth(stake'[v], transient'[v]) \in Int
  <2>1. stake'[v] \in StakeAccounts /\ transient'[v] \in [Seeds -> TransientAccounts]
    BY Zenon DEF TypeOK
  <2> QED
    BY Zenon, <2>1, AccountNumbers
<1>2. Finite(Validators)
  <2>1. Validators \in SUBSET Validators
    BY Zenon
  <2> QED
    BY Zenon, <2>1, FiniteSubset, StakePoolAssumption
<1>3. \A v \in Validators : (OfValidators')[v] = Worth(stake'[v], transient'[v])
  BY Zenon DEF OfValidators
<1>4. Terms(OfValidators', Validators)
  BY Zenon, <1>1, <1>2, <1>3 DEF Terms
<1>5. total_lamports' \in Nat /\ reserve' \in Nat
  BY Zenon, Numbers DEF TypeOK
<1>6. total_lamports' \in Int /\ reserve' \in Int
  BY <1>5
<1> QED
  BY Zenon, <1>1, <1>3, <1>4, <1>6, SumIsInt

\* A step that concerns one validator, and what it does to the pool's total, to
\* the reserve and to what the validator's accounts hold.
LEMMA SolventOfOne ==
  ASSUME TypeOK, TypeOK', Solvent, NEW v \in Validators,
         \A w \in Validators \ {v} : stake'[w] = stake[w] /\ transient'[w] = transient[w],
         total_lamports' - total_lamports
            <= (reserve' - reserve)
               + (Worth(stake'[v], transient'[v]) - Worth(stake[v], transient[v]))
  PROVE  Solvent'
<1> DEFINE x == SumFunctionOnSet(OfValidators, Validators)
           y == SumFunctionOnSet(OfValidators', Validators)
           m == MinimumReserveLamports
           p == Worth(stake[v], transient[v])
           q == Worth(stake'[v], transient'[v])
<1>1. \A w \in Validators : w # v => (OfValidators')[w] = OfValidators[w]
  BY Zenon, ValidatorTerms, ValidatorTermsAfter
<1>2. y = x - OfValidators[v] + (OfValidators')[v]
  <2> DEFINE f == OfValidators
             g == OfValidators'
  <2>1. /\ Terms(f, Validators) /\ Terms(g, Validators)
        /\ \A w \in Validators : w # v => g[w] = f[w]
    BY Zenon, <1>1, ValidatorTerms, ValidatorTermsAfter
  <2> HIDE DEF f, g
  <2>2. SumFunctionOnSet(g, Validators) = SumFunctionOnSet(f, Validators) - f[v] + g[v]
    BY <2>1, SumChange
  <2> QED
    BY Zenon, <2>2 DEF f, g
<1>3. p = OfValidators[v] /\ q = (OfValidators')[v] /\ p \in Int /\ q \in Int
  BY Zenon, ValidatorTerms, ValidatorTermsAfter
<1>4. /\ x \in Int /\ y \in Int /\ m \in Int
      /\ total_lamports \in Int /\ reserve \in Int
      /\ total_lamports' \in Int /\ reserve' \in Int
  BY Zenon, ValidatorTerms, ValidatorTermsAfter
<1>5. total_lamports <= reserve - m + x
  BY Zenon DEF Solvent
<1>6. total_lamports' - total_lamports <= (reserve' - reserve) + (q - p)
  BY Zenon
<1>7. y = x - p + q
  BY Zenon, <1>2, <1>3
<1> HIDE DEF x, y, m, p, q
<1>8. total_lamports' <= reserve' - m + y
  BY <1>3, <1>4, <1>5, <1>6, <1>7
<1> QED
  BY Zenon, <1>8 DEF Solvent, y, m, MinimumReserveLamports

\* The same when only one of its transient accounts changes.
LEMMA SolventOfSeed ==
  ASSUME TypeOK, TypeOK', Solvent, NEW v \in Validators, NEW s \in Seeds,
         \A w \in Validators \ {v} : stake'[w] = stake[w] /\ transient'[w] = transient[w],
         \A r \in Seeds : r # s => transient'[v][r] = transient[v][r],
         total_lamports' - total_lamports
            <= (reserve' - reserve)
               + ((Withdrawable(stake'[v]) - Withdrawable(stake[v]))
                  + (Lamports(transient'[v][s]) - Lamports(transient[v][s])))
  PROVE  Solvent'
<1>1. /\ stake[v] \in StakeAccounts /\ transient[v] \in [Seeds -> TransientAccounts]
      /\ stake'[v] \in StakeAccounts /\ transient'[v] \in [Seeds -> TransientAccounts]
  BY Zenon DEF TypeOK
<1>2. Worth(stake'[v], transient'[v]) - Worth(stake[v], transient[v])
         = (Withdrawable(stake'[v]) - Withdrawable(stake[v]))
           + (Lamports(transient'[v][s]) - Lamports(transient[v][s]))
  BY Zenon, <1>1, WorthChange
<1>3. total_lamports' - total_lamports
         <= (reserve' - reserve)
            + (Worth(stake'[v], transient'[v]) - Worth(stake[v], transient[v]))
  BY Zenon, <1>2
<1> QED
  BY Zenon, <1>3, SolventOfOne

\* A total t that is covered by the reserve r above m and by x.
LEMMA StillCovered ==
  ASSUME NEW t \in Int, NEW u \in Int, NEW r \in Int, NEW q \in Int, NEW m \in Int,
         NEW x \in Int, NEW y \in Int, t <= r - m + x, x <= y, u - t <= q - r
  PROVE  u <= q - m + y
OBVIOUS

\* A step that leaves no validator with less.
LEMMA SolventOfAll ==
  ASSUME TypeOK, TypeOK', Solvent,
         \A v \in Validators :
            Worth(stake[v], transient[v]) <= Worth(stake'[v], transient'[v]),
         total_lamports' - total_lamports <= reserve' - reserve
  PROVE  Solvent'
<1> DEFINE x == SumFunctionOnSet(OfValidators, Validators)
           y == SumFunctionOnSet(OfValidators', Validators)
           m == MinimumReserveLamports
<1>1. \A v \in Validators : OfValidators[v] <= (OfValidators')[v]
  BY Zenon, ValidatorTerms, ValidatorTermsAfter
<1>2. x <= y
  BY Zenon, <1>1, ValidatorTerms, ValidatorTermsAfter, SumMonotonic
<1>3. /\ x \in Int /\ y \in Int /\ m \in Int
      /\ total_lamports \in Int /\ reserve \in Int
      /\ total_lamports' \in Int /\ reserve' \in Int
  BY Zenon, ValidatorTerms, ValidatorTermsAfter
<1>4. total_lamports <= reserve - m + x
  BY Zenon DEF Solvent
<1> HIDE DEF x, y, m
<1>5. total_lamports' <= reserve' - m + y
  <2> DEFINE t == total_lamports
             u == total_lamports'
             r == reserve
             q == reserve'
  <2>1. /\ t \in Int /\ u \in Int /\ r \in Int /\ q \in Int
        /\ t <= r - m + x /\ u - t <= q - r
    BY Zenon, <1>3, <1>4
  <2> HIDE DEF t, u, r, q
  <2>2. u <= q - m + y
    BY <1>2, <1>3, <2>1, StillCovered
  <2> QED
    BY Zenon, <2>2 DEF u, q
<1> QED
  BY Zenon, <1>5 DEF Solvent, y, m, MinimumReserveLamports

\* A step that leaves the stake accounts alone.
LEMMA SolventElsewhere ==
  ASSUME TypeOK, TypeOK', Solvent, UNCHANGED <<stake, transient>>,
         total_lamports' - total_lamports <= reserve' - reserve
  PROVE  Solvent'
<1>1. ASSUME NEW v \in Validators
      PROVE  Worth(stake[v], transient[v]) <= Worth(stake'[v], transient'[v])
  <2>1. stake[v] \in StakeAccounts /\ transient[v] \in [Seeds -> TransientAccounts]
    BY Zenon DEF TypeOK
  <2>2. Worth(stake[v], transient[v]) \in Int
    BY Zenon, <2>1, AccountNumbers
  <2>3. \A i \in Int : i <= i
    OBVIOUS
  <2>4. stake'[v] = stake[v] /\ transient'[v] = transient[v]
    BY Zenon
  <2> QED
    BY Zenon, <2>2, <2>3, <2>4
<1> QED
  BY Zenon, <1>1, SolventOfAll

\* A step that changes one stake account.
LEMMA SolventOfStake ==
  ASSUME TypeOK, TypeOK', Solvent, NEW v \in Validators, transient' = transient,
         \A w \in Validators \ {v} : stake'[w] = stake[w],
         total_lamports' - total_lamports
            <= (reserve' - reserve) + (Withdrawable(stake'[v]) - Withdrawable(stake[v]))
  PROVE  Solvent'
<1> DEFINE x == Withdrawable(stake[v])
           y == Withdrawable(stake'[v])
           k == Lamports(transient[v][0])
           l == Lamports(transient'[v][0])
<1>0. 0 \in Seeds
  BY Zenon, Numbers
<1>1. /\ stake[v] \in StakeAccounts /\ stake'[v] \in StakeAccounts
      /\ transient[v] \in [Seeds -> TransientAccounts]
  BY Zenon DEF TypeOK
<1>2. x \in Int /\ y \in Int /\ k \in Nat /\ l = k
  BY Zenon, <1>0, <1>1, AccountNumbers
<1>3. total_lamports' - total_lamports <= (reserve' - reserve) + (y - x)
  BY Zenon
<1> HIDE DEF x, y, k, l
<1>4. (y - x) + (l - k) = y - x
  BY <1>2
<1>5. total_lamports' - total_lamports <= (reserve' - reserve) + ((y - x) + (l - k))
  BY Zenon, <1>3, <1>4
<1>6. \A r \in Seeds : r # 0 => transient'[v][r] = transient[v][r]
  BY Zenon
<1>7. \A w \in Validators \ {v} : stake'[w] = stake[w] /\ transient'[w] = transient[w]
  BY Zenon
<1> QED
  BY Zenon, <1>0, <1>5, <1>6, <1>7, SolventOfSeed DEF x, y, k, l

\* What can be withdrawn from an account grows with its amount.
LEMMA WithdrawableChange ==
  ASSUME NEW a, NEW b, a.kind # "None", b.kind # "None", a.amount \in Int, b.amount \in Int
  PROVE  Withdrawable(b) - Withdrawable(a) = b.amount - a.amount
<1>1. Withdrawable(a) = a.amount - MinimumActive /\ Withdrawable(b) = b.amount - MinimumActive
  BY Zenon DEF Withdrawable
<1>2. MinimumActive \in Nat
  BY Zenon, Numbers
<1> QED
  BY <1>1, <1>2

\* Writing an amount into a stake account.
LEMMA AmountWritten ==
  ASSUME TypeOK, NEW v \in Validators, NEW n, stake' = [stake EXCEPT ![v].amount = n]
  PROVE  /\ stake'[v].kind = stake[v].kind /\ stake'[v].amount = n
         /\ \A w \in Validators \ {v} : stake'[w] = stake[w]
<1> DEFINE a == [stake[v] EXCEPT !.amount = n]
<1>1. stake[v] \in StakeAccounts /\ stake \in [Validators -> StakeAccounts]
  BY Zenon DEF TypeOK
<1>2. stake' = [stake EXCEPT ![v] = a]
  BY Zenon
<1>3. a.kind = stake[v].kind /\ a.amount = n
  BY Zenon, <1>1 DEF StakeAccounts
<1> HIDE DEF a
<1> QED
  BY Zenon, <1>1, <1>2, <1>3

\* Writing a transient account.
LEMMA TransientWritten ==
  ASSUME TypeOK, NEW v \in Validators, NEW s \in Seeds, NEW x,
         transient' = [transient EXCEPT ![v][s] = x]
  PROVE  /\ transient'[v][s] = x
         /\ \A r \in Seeds : r # s => transient'[v][r] = transient[v][r]
         /\ \A w \in Validators \ {v} : transient'[w] = transient[w]
<1> DEFINE t == [transient[v] EXCEPT ![s] = x]
<1>1. transient \in [Validators -> [Seeds -> TransientAccounts]]
  BY Zenon DEF TypeOK
<1>2. t[s] = x /\ \A r \in Seeds : r # s => t[r] = transient[v][r]
  BY Zenon, <1>1
<1>3. transient' = [transient EXCEPT ![v] = t]
  BY Zenon
<1> HIDE DEF t
<1> QED
  BY Zenon, <1>1, <1>2, <1>3

\* A withdrawal pays from one account what it takes off the total.
LEMMA BurningPays ==
  ASSUME Inv, NEW k \in WithdrawalKinds, NEW from \in {"users", "manager"},
         NEW amount \in Withdrawals, BurnTokens(k, from, amount)
  PROVE  /\ Withdrawn(k, from, amount) \in Nat
         /\ total_lamports' = total_lamports - Withdrawn(k, from, amount)
<1>1. amount \in Nat
  BY Zenon, Inputs
<1>2. Withdrawn(k, from, amount) \in Nat
  BY Zenon, <1>1, Burning
<1> QED
  BY Zenon, <1>2 DEF BurnTokens

\* Deposits and withdrawals keep the pool solvent.
LEMMA TradeSolvent ==
  ASSUME Inv, Inv', Solvent, TradeNext
  PROVE  Solvent'
<1>1. TypeOK /\ TypeOK'
  BY Zenon DEF Inv
<1>2. /\ total_lamports \in Int /\ reserve \in Int
      /\ \A v \in Validators : stake[v].amount \in Nat /\ Transient(v).amount \in Nat
      /\ \A v \in Validators : list[v].seed \in Seeds /\ Transient(v) \in TransientAccounts
  BY Zenon, <1>1, ValidatorTerms, Parts
<1>3. ASSUME NEW d \in Deposits, NEW v \in Validators, DepositStake(v, d)
      PROVE  Solvent'
  <2>1. /\ stake[v].kind = "Stake" /\ transient' = transient
        /\ stake' = [stake EXCEPT ![v].amount = stake[v].amount + d.stake]
        /\ total_lamports' = total_lamports + d.stake + d.sol /\ reserve' = reserve + d.sol
    BY Zenon, <1>3 DEF DepositStake
  <2>2. /\ stake'[v].kind = "Stake" /\ stake'[v].amount = stake[v].amount + d.stake
        /\ \A w \in Validators \ {v} : stake'[w] = stake[w]
    BY Zenon, <1>1, <2>1, AmountWritten
  <2>3. d.stake \in Nat /\ d.sol \in Nat /\ stake[v].amount \in Nat
    BY Zenon, <1>2, Inputs
  <2>4. stake[v].amount \in Int /\ stake'[v].amount \in Int
    BY <2>2, <2>3
  <2>5. Withdrawable(stake'[v]) - Withdrawable(stake[v]) = stake'[v].amount - stake[v].amount
    <3>1. stake[v].kind # "None" /\ stake'[v].kind # "None"
      BY <2>1, <2>2
    <3> QED
      BY Zenon, <2>4, <3>1, WithdrawableChange
  <2>6. total_lamports' - total_lamports
           <= (reserve' - reserve) + (stake'[v].amount - stake[v].amount)
    BY <1>2, <2>1, <2>2, <2>3
  <2>7. total_lamports' - total_lamports
           <= (reserve' - reserve) + (Withdrawable(stake'[v]) - Withdrawable(stake[v]))
    BY Zenon, <2>5, <2>6
  <2> QED
    BY Zenon, <1>1, <2>1, <2>2, <2>7, SolventOfStake
<1>4. ASSUME NEW d \in Deposits, DepositSol(d.sol)
      PROVE  Solvent'
  <2>1. /\ stake' = stake /\ transient' = transient
        /\ total_lamports' = total_lamports + d.sol /\ reserve' = reserve + d.sol
    BY Zenon, <1>4 DEF DepositSol
  <2>2. d.sol \in Nat
    BY Zenon, Inputs
  <2>3. total_lamports' - total_lamports <= reserve' - reserve
    BY <1>2, <2>1, <2>2
  <2> QED
    BY Zenon, <1>1, <2>1, <2>3, SolventElsewhere
<1>5. ASSUME NEW from \in {"users", "manager"}, NEW amount \in Withdrawals,
             WithdrawReserveStake(from, amount) \/ WithdrawSol(from, amount)
      PROVE  Solvent'
  <2>1. PICK k \in WithdrawalKinds :
           /\ BurnTokens(k, from, amount) /\ stake' = stake /\ transient' = transient
           /\ reserve' = reserve - Withdrawn(k, from, amount)
    BY Zenon, <1>5 DEF WithdrawReserveStake, WithdrawSol, WithdrawalKinds
  <2> DEFINE paid == Withdrawn(k, from, amount)
  <2>2. paid \in Nat /\ total_lamports' = total_lamports - paid /\ reserve' = reserve - paid
    BY Zenon, <2>1, BurningPays
  <2> HIDE DEF paid
  <2>3. total_lamports' - total_lamports <= reserve' - reserve
    BY <1>2, <2>2
  <2> QED
    BY Zenon, <1>1, <2>1, <2>3, SolventElsewhere
<1>6. ASSUME NEW v \in Validators, NEW from \in {"users", "manager"},
             NEW amount \in Withdrawals, WithdrawStake(v, from, amount)
      PROVE  Solvent'
  <2> DEFINE paid == Withdrawn("stake_withdrawal", from, amount)
  <2>1. /\ stake[v].kind = "Stake" /\ transient' = transient /\ reserve' = reserve
        /\ stake' = [stake EXCEPT ![v].amount = stake[v].amount - paid]
        /\ BurnTokens("stake_withdrawal", from, amount)
    BY Zenon, <1>6 DEF WithdrawStake
  <2>2. paid \in Nat /\ total_lamports' = total_lamports - paid
    BY Zenon, <2>1, BurningPays DEF WithdrawalKinds
  <2> HIDE DEF paid
  <2>3. /\ stake'[v].kind = "Stake" /\ stake'[v].amount = stake[v].amount - paid
        /\ \A w \in Validators \ {v} : stake'[w] = stake[w]
    BY Zenon, <1>1, <2>1, AmountWritten
  <2>4. stake[v].amount \in Int /\ stake'[v].amount \in Int
    BY <1>2, <2>2, <2>3
  <2>5. Withdrawable(stake'[v]) - Withdrawable(stake[v]) = stake'[v].amount - stake[v].amount
    <3>1. stake[v].kind # "None" /\ stake'[v].kind # "None"
      BY <2>1, <2>3
    <3> QED
      BY Zenon, <2>4, <3>1, WithdrawableChange
  <2>6. total_lamports' - total_lamports
           <= (reserve' - reserve) + (stake'[v].amount - stake[v].amount)
    BY <1>2, <2>1, <2>2, <2>3, <2>4
  <2>7. total_lamports' - total_lamports
           <= (reserve' - reserve) + (Withdrawable(stake'[v]) - Withdrawable(stake[v]))
    BY Zenon, <2>5, <2>6
  <2> QED
    BY Zenon, <1>1, <2>1, <2>3, <2>7, SolventOfStake
<1>7. ASSUME NEW v \in Validators, NEW from \in {"users", "manager"},
             NEW amount \in Withdrawals, WithdrawTransientStake(v, from, amount)
      PROVE  Solvent'
  <2> DEFINE paid == Withdrawn("stake_withdrawal", from, amount)
             x == [Transient(v) EXCEPT !.amount = Transient(v).amount - paid]
  <2>1. /\ Transient(v).kind \in {"Activating", "Deactivating"}
        /\ stake' = stake /\ reserve' = reserve
        /\ transient' = [transient EXCEPT ![v][list[v].seed] = x]
        /\ BurnTokens("stake_withdrawal", from, amount)
    BY Zenon, <1>7 DEF WithdrawTransientStake
  <2>2. paid \in Nat /\ total_lamports' = total_lamports - paid
    BY Zenon, <2>1, BurningPays DEF WithdrawalKinds
  <2> HIDE DEF paid
  <2>3. x.kind = Transient(v).kind /\ x.amount = Transient(v).amount - paid
    BY Zenon, <1>2 DEF TransientAccounts
  <2>4. Lamports(Transient(v)) = Rent + Transient(v).amount /\ Lamports(x) = Rent + x.amount
    BY Zenon, <2>1, <2>3 DEF Lamports
  <2> HIDE DEF x
  <2>5. /\ transient'[v][list[v].seed] = x
        /\ \A r \in Seeds : r # list[v].seed => transient'[v][r] = transient[v][r]
        /\ \A w \in Validators \ {v} : transient'[w] = transient[w]
    BY Zenon, <1>1, <1>2, <2>1, TransientWritten
  <2> DEFINE k == Lamports(transient[v][list[v].seed])
             l == Lamports(transient'[v][list[v].seed])
             w == Withdrawable(stake[v])
  <2>6. k = Rent + Transient(v).amount /\ l = Rent + (Transient(v).amount - paid)
    BY Zenon, <2>3, <2>4, <2>5 DEF Transient
  <2>7. Rent \in Nat /\ Transient(v).amount \in Nat /\ w \in Int
    <3>1. stake[v] \in StakeAccounts /\ transient[v] \in [Seeds -> TransientAccounts]
      BY Zenon, <1>1 DEF TypeOK
    <3> QED
      BY Zenon, <1>2, <3>1, AccountNumbers, Numbers
  <2> HIDE DEF k, l, w
  <2>8. total_lamports' - total_lamports <= (reserve' - reserve) + ((w - w) + (l - k))
    BY <1>2, <2>1, <2>2, <2>6, <2>7
  <2>9. w = Withdrawable(stake[v]) /\ w = Withdrawable(stake'[v])
    BY Zenon, <2>1 DEF w
  <2>10. total_lamports' - total_lamports
           <= (reserve' - reserve)
              + ((Withdrawable(stake'[v]) - Withdrawable(stake[v]))
                 + (Lamports(transient'[v][list[v].seed]) - Lamports(transient[v][list[v].seed])))
    BY Zenon, <2>8, <2>9 DEF k, l
  <2>11. \A u \in Validators \ {v} : stake'[u] = stake[u] /\ transient'[u] = transient[u]
    BY Zenon, <2>1, <2>5
  <2> QED
    BY Zenon, <1>1, <1>2, <2>5, <2>10, <2>11, SolventOfSeed
<1>8. CASE \E d \in Deposits :
             \/ d.stake > 0 /\ \E v \in Validators : DepositStake(v, d)
             \/ d.stake = 0 /\ DepositSol(d.sol)
  BY Zenon, <1>3, <1>4, <1>8
<1>9. CASE \E from \in {"users", "manager"}, amount \in Withdrawals :
             \/ WithdrawReserveStake(from, amount)
             \/ \E v \in Validators : WithdrawStake(v, from, amount)
             \/ \E v \in Validators : WithdrawTransientStake(v, from, amount)
             \/ WithdrawSol(from, amount)
  BY Zenon, <1>5, <1>6, <1>7, <1>9
<1> QED
  BY Zenon, <1>8, <1>9 DEF TradeNext

\* The staker moves lamports and keeps the pool solvent: an account that is added
\* or removed holds the minimum, which does not count.
LEMMA StakerSolvent ==
  ASSUME Inv, Inv', Solvent, StakerNext
  PROVE  Solvent'
<1>1. TypeOK /\ TypeOK'
  BY Zenon DEF Inv
<1>2. /\ total_lamports \in Int /\ reserve \in Int /\ Rent \in Nat /\ MinimumActive \in Nat
      /\ \A v \in Validators : stake[v].amount \in Nat
  BY Zenon, <1>1, ValidatorTerms, Parts, Numbers
<1>3. ASSUME NEW v \in Validators, AddValidatorToPool(v) \/ RemoveValidatorFromPool(v)
      PROVE  Solvent'
  <2>1. PICK a :
           /\ Withdrawable(a) = 0 /\ Withdrawable(stake[v]) = 0
           /\ stake' = [stake EXCEPT ![v] = a]
    <3>1. MinimumActive - MinimumActive = 0
      BY <1>2
    <3>2. CASE AddValidatorToPool(v)
      <4> DEFINE a == [kind |-> "Stake", amount |-> MinimumActive, since |-> epoch]
      <4>1. stake' = [stake EXCEPT ![v] = a] /\ stake[v].kind = "None"
        BY Zenon, <3>2 DEF AddValidatorToPool
      <4>2. Withdrawable(a) = 0 /\ Withdrawable(stake[v]) = 0
        BY Zenon, <3>1, <4>1 DEF Withdrawable
      <4> QED
        BY Zenon, <4>1, <4>2
    <3>3. CASE RemoveValidatorFromPool(v)
      <4>1. stake' = [stake EXCEPT ![v] = NoStake] /\ stake[v].amount = MinimumActive
        BY Zenon, <3>3 DEF RemoveValidatorFromPool
      <4>2. Withdrawable(NoStake) = 0
        BY Zenon DEF Withdrawable, NoStake
      <4>3. Withdrawable(stake[v]) = 0
        BY Zenon, <3>1, <4>1 DEF Withdrawable
      <4> QED
        BY Zenon, <4>1, <4>2, <4>3
    <3> QED
      BY Zenon, <1>3, <3>2, <3>3
  <2>2. total_lamports' = total_lamports /\ reserve' = reserve /\ transient' = transient
    BY Zenon, <1>3 DEF AddValidatorToPool, RemoveValidatorFromPool, poolVars, price
  <2>3. stake'[v] = a /\ \A w \in Validators \ {v} : stake'[w] = stake[w]
    BY Zenon, <1>1, <2>1 DEF TypeOK
  <2>4. total_lamports - total_lamports <= (reserve - reserve) + (0 - 0)
    BY <1>2
  <2>5. total_lamports' - total_lamports
           <= (reserve' - reserve) + (Withdrawable(stake'[v]) - Withdrawable(stake[v]))
    BY Zenon, <2>1, <2>2, <2>3, <2>4
  <2> QED
    BY Zenon, <1>1, <2>2, <2>3, <2>5, SolventOfStake
<1>4. ASSUME NEW v \in Validators, NEW n \in Increases, NEW s \in Seeds,
             DecreaseValidatorStake(v, n, s)
      PROVE  Solvent'
  <2> DEFINE x == [kind |-> "Deactivating", amount |-> n - Rent, since |-> epoch]
  <2>1. /\ stake[v].kind = "Stake" /\ transient[v][s].kind = "None"
        /\ stake' = [stake EXCEPT ![v].amount = stake[v].amount - n]
        /\ transient' = [transient EXCEPT ![v][s] = x]
        /\ total_lamports' = total_lamports /\ reserve' = reserve
    BY Zenon, <1>4 DEF DecreaseValidatorStake, poolVars, price
  <2>2. Lamports(x) = Rent + (n - Rent) /\ Lamports(transient[v][s]) = 0
    BY Zenon, <2>1 DEF Lamports
  <2> HIDE DEF x
  <2>3. /\ transient'[v][s] = x
        /\ \A r \in Seeds : r # s => transient'[v][r] = transient[v][r]
        /\ \A w \in Validators \ {v} : transient'[w] = transient[w]
    BY Zenon, <1>1, <2>1, TransientWritten
  <2>4. /\ stake'[v].kind = "Stake" /\ stake'[v].amount = stake[v].amount - n
        /\ \A w \in Validators \ {v} : stake'[w] = stake[w]
    BY Zenon, <1>1, <2>1, AmountWritten
  <2>5. n \in Nat /\ stake[v].amount \in Nat
    BY Zenon, <1>2, Inputs
  <2>6. stake[v].amount \in Int /\ stake'[v].amount \in Int
    BY <2>4, <2>5
  <2>7. Withdrawable(stake'[v]) - Withdrawable(stake[v]) = stake'[v].amount - stake[v].amount
    <3>1. stake[v].kind # "None" /\ stake'[v].kind # "None"
      BY <2>1, <2>4
    <3> QED
      BY Zenon, <2>6, <3>1, WithdrawableChange
  <2>8. total_lamports - total_lamports
           <= (reserve - reserve) + (((stake[v].amount - n) - stake[v].amount)
                                     + ((Rent + (n - Rent)) - 0))
    BY <1>2, <2>5
  <2>9. total_lamports' - total_lamports
           <= (reserve' - reserve)
              + ((Withdrawable(stake'[v]) - Withdrawable(stake[v]))
                 + (Lamports(transient'[v][s]) - Lamports(transient[v][s])))
    BY Zenon, <2>1, <2>2, <2>3, <2>4, <2>7, <2>8
  <2> QED
    BY Zenon, <1>1, <2>3, <2>4, <2>9, SolventOfSeed
<1>5. ASSUME NEW v \in Validators, NEW n \in Increases, NEW s \in Seeds,
             IncreaseValidatorStake(v, n, s)
      PROVE  Solvent'
  <2> DEFINE x == [kind |-> "Activating", amount |-> n, since |-> epoch]
  <2>1. /\ transient[v][s].kind = "None"
        /\ transient' = [transient EXCEPT ![v][s] = x]
        /\ total_lamports' = total_lamports /\ reserve' = reserve - (n + Rent)
        /\ stake' = stake
    BY Zenon, <1>5 DEF IncreaseValidatorStake, poolVars, price
  <2>2. Lamports(x) = Rent + n /\ Lamports(transient[v][s]) = 0
    BY Zenon, <2>1 DEF Lamports
  <2> HIDE DEF x
  <2>3. /\ transient'[v][s] = x
        /\ \A r \in Seeds : r # s => transient'[v][r] = transient[v][r]
        /\ \A w \in Validators \ {v} : transient'[w] = transient[w]
    BY Zenon, <1>1, <2>1, TransientWritten
  <2> DEFINE w == Withdrawable(stake[v])
  <2>4. n \in Nat /\ w \in Int
    <3>1. stake[v] \in StakeAccounts /\ transient[v] \in [Seeds -> TransientAccounts]
      BY Zenon, <1>1 DEF TypeOK
    <3> QED
      BY Zenon, <3>1, AccountNumbers, Inputs
  <2>5. w = Withdrawable(stake[v]) /\ w = Withdrawable(stake'[v])
    BY Zenon, <2>1
  <2> HIDE DEF w
  <2>6. total_lamports - total_lamports
           <= ((reserve - (n + Rent)) - reserve) + ((w - w) + ((Rent + n) - 0))
    BY <1>2, <2>4
  <2>7. total_lamports' - total_lamports
           <= (reserve' - reserve)
              + ((Withdrawable(stake'[v]) - Withdrawable(stake[v]))
                 + (Lamports(transient'[v][s]) - Lamports(transient[v][s])))
    BY Zenon, <2>1, <2>2, <2>3, <2>5, <2>6
  <2>8. \A u \in Validators \ {v} : stake'[u] = stake[u] /\ transient'[u] = transient[u]
    BY Zenon, <2>1, <2>3
  <2> QED
    BY Zenon, <1>1, <2>3, <2>7, <2>8, SolventOfSeed
<1>6. ASSUME NEW kind, NEW to, SetPreferredValidator(kind, to)
      PROVE  Solvent'
  <2>1. stake' = stake /\ transient' = transient /\ reserve' = reserve
        /\ total_lamports' = total_lamports
    BY Zenon, <1>6 DEF SetPreferredValidator, poolVars, price, accounts
  <2>2. total_lamports - total_lamports <= reserve - reserve
    BY <1>2
  <2>3. total_lamports' - total_lamports <= reserve' - reserve
    BY Zenon, <2>1, <2>2
  <2> QED
    BY Zenon, <1>1, <2>1, <2>3, SolventElsewhere
<1> QED
  BY Zenon, <1>3, <1>4, <1>5, <1>6 DEF StakerNext

\* The update of a validator moves lamports between its accounts and the
\* reserve; of an account that was destaked, the reserve gets the minimum too.
LEMMA EntryUpdateSolvent ==
  ASSUME Inv, Inv', Solvent, NEW v \in Validators, NEW no_merge \in BOOLEAN,
         UpdateValidatorListBalance(v, no_merge)
  PROVE  Solvent'
<1> DEFINE to_reserve == ~no_merge /\ MergesIntoReserve(v)
           to_stake   == ~no_merge /\ MergesIntoStake(v)
           s == list[v].seed
           moved == Transient(v).amount
           a == UpdatedStake(v, no_merge)
           x == UpdatedTransient(v, no_merge)
           r == (IF to_reserve THEN Rent + moved ELSE 0) + (IF to_stake THEN Rent ELSE 0)
                + (IF Absorbed(v) THEN Rent + stake[v].amount ELSE 0)
<1>1. TypeOK /\ TypeOK'
  BY Zenon DEF Inv
<1>2. /\ total_lamports \in Int /\ reserve \in Int /\ Rent \in Nat /\ MinimumActive \in Nat
      /\ stake[v].amount \in Nat /\ moved \in Nat /\ s \in Seeds
      /\ stake[v] \in StakeAccounts
  BY Zenon, <1>1, ValidatorTerms, Parts, Numbers
<1>3. /\ stake' = [stake EXCEPT ![v] = a]
      /\ transient' = [transient EXCEPT ![v][s] = x]
      /\ UNCHANGED <<poolVars, preferred>>
  BY Zenon, <1>1, UpdateWrites
<1>4. total_lamports' = total_lamports
  BY Zenon, <1>3 DEF poolVars, price
<1>5. reserve' = reserve + (IF to_reserve THEN Rent + moved ELSE 0)
                 + (IF to_stake THEN Rent ELSE 0)
                 + (IF Absorbed(v) THEN Rent + stake[v].amount ELSE 0)
  BY Zenon DEF UpdateValidatorListBalance
<1>6. /\ to_reserve => ~to_stake /\ Transient(v).kind # "None"
      /\ to_stake => Transient(v).kind # "None" /\ stake[v].kind = "Stake"
      /\ Absorbed(v) => stake[v].kind = "Initialized"
  BY DEF MergesIntoReserve, MergesIntoStake, Absorbed
<1>7. a = IF Absorbed(v) THEN NoStake
          ELSE [stake[v] EXCEPT !.amount = stake[v].amount + IF to_stake THEN moved ELSE 0]
  BY Zenon DEF UpdatedStake
<1>8. x = IF to_reserve \/ to_stake THEN NoStake ELSE Transient(v)
  BY Zenon DEF UpdatedTransient
<1>9. /\ stake'[v] = a /\ transient'[v][s] = x /\ transient[v][s] = Transient(v)
      /\ \A u \in Seeds : u # s => transient'[v][u] = transient[v][u]
      /\ \A w \in Validators \ {v} : stake'[w] = stake[w] /\ transient'[w] = transient[w]
  <2>1. /\ transient'[v][s] = x
        /\ \A u \in Seeds : u # s => transient'[v][u] = transient[v][u]
        /\ \A w \in Validators \ {v} : transient'[w] = transient[w]
    BY Zenon, <1>1, <1>2, <1>3, TransientWritten
  <2>2. stake'[v] = a /\ \A w \in Validators \ {v} : stake'[w] = stake[w]
    BY Zenon, <1>1, <1>3 DEF TypeOK
  <2> QED
    BY Zenon, <2>1, <2>2 DEF Transient
<1> HIDE DEF to_reserve, to_stake, s, moved, a, x
<1>10. Lamports(x) - Lamports(Transient(v))
          = 0 - ((IF to_reserve THEN Rent + moved ELSE 0)
                 + (IF to_stake THEN Rent + moved ELSE 0))
  <2>1. CASE to_reserve \/ to_stake
    <3>1. Lamports(x) = 0
      BY Zenon, <1>8, <2>1 DEF Lamports, NoStake
    <3>2. Lamports(Transient(v)) = Rent + moved
      BY Zenon, <1>6, <2>1 DEF Lamports, moved
    <3> QED
      BY <1>2, <1>6, <2>1, <3>1, <3>2
  <2>2. CASE ~(to_reserve \/ to_stake)
    <3>1. Lamports(x) = Lamports(Transient(v))
      BY Zenon, <1>8, <2>2
    <3>2. Lamports(Transient(v)) \in Nat
      BY <1>2 DEF Lamports, moved
    <3> QED
      BY <2>2, <3>1, <3>2
  <2> QED
    BY Zenon, <2>1, <2>2
<1>11. Withdrawable(a) - Withdrawable(stake[v])
          >= (IF to_stake THEN moved ELSE 0)
             - (IF Absorbed(v) THEN Rent + stake[v].amount ELSE 0)
  <2>1. CASE Absorbed(v)
    <3>1. Withdrawable(a) = 0
      BY Zenon, <1>7, <2>1 DEF Withdrawable, NoStake
    <3>2. Withdrawable(stake[v]) = stake[v].amount - MinimumActive
      BY Zenon, <1>6, <2>1 DEF Withdrawable
    <3>3. ~to_stake
      BY Zenon, <1>6, <2>1
    <3> QED
      BY <1>2, <2>1, <3>1, <3>2, <3>3
  <2>2. CASE ~Absorbed(v)
    <3> DEFINE gain == IF to_stake THEN moved ELSE 0
    <3>1. a.kind = stake[v].kind /\ a.amount = stake[v].amount + gain
      BY Zenon, <1>2, <1>7, <2>2 DEF StakeAccounts
    <3>2. gain \in Nat
      BY <1>2
    <3>3. CASE stake[v].kind = "None"
      <4>1. Withdrawable(a) = 0 /\ Withdrawable(stake[v]) = 0
        BY Zenon, <3>1, <3>3 DEF Withdrawable
      <4>2. ~to_stake
        BY Zenon, <1>6, <3>3
      <4> QED
        BY <2>2, <4>1, <4>2
    <3>4. CASE stake[v].kind # "None"
      <4>1. a.amount \in Int /\ stake[v].amount \in Int
        BY <1>2, <3>1, <3>2
      <4>2. Withdrawable(a) - Withdrawable(stake[v]) = a.amount - stake[v].amount
        BY Zenon, <3>1, <3>4, <4>1, WithdrawableChange
      <4>3. a.amount - stake[v].amount = gain
        BY <1>2, <3>1, <3>2
      <4> HIDE DEF gain
      <4>4. gain >= gain - 0
        BY <3>2
      <4> QED
        BY Zenon, <2>2, <4>2, <4>3, <4>4 DEF gain
    <3> QED
      BY Zenon, <3>3, <3>4
  <2> QED
    BY Zenon, <2>1, <2>2
<1>12. Withdrawable(a) - Withdrawable(stake[v]) \in Int
  <2>1. a \in StakeAccounts
    BY Zenon, <1>1, <1>9 DEF TypeOK
  <2>2. transient[v] \in [Seeds -> TransientAccounts]
    BY Zenon, <1>1 DEF TypeOK
  <2>3. Withdrawable(a) \in Int /\ Withdrawable(stake[v]) \in Int
    BY Zenon, <1>2, <2>1, <2>2, AccountNumbers
  <2> QED
    BY <2>3
<1> DEFINE p == Withdrawable(a) - Withdrawable(stake[v])
           q == Lamports(x) - Lamports(Transient(v))
           i == IF to_reserve THEN Rent + moved ELSE 0
           j == IF to_stake THEN Rent ELSE 0
           k == IF Absorbed(v) THEN Rent + stake[v].amount ELSE 0
           l == IF to_stake THEN moved ELSE 0
           m == IF to_stake THEN Rent + moved ELSE 0
<1>13. /\ i \in Nat /\ j \in Nat /\ k \in Nat /\ l \in Nat /\ m = j + l
       /\ p \in Int /\ p >= l - k /\ q = 0 - (i + m)
       /\ reserve' = reserve + i + j + k
  BY <1>2, <1>5, <1>10, <1>11, <1>12
<1> HIDE DEF p, q, i, j, k, l, m
<1>14. total_lamports - total_lamports <= (reserve' - reserve) + (p + q)
  BY <1>2, <1>13
<1>15. total_lamports' - total_lamports
          <= (reserve' - reserve)
             + ((Withdrawable(stake'[v]) - Withdrawable(stake[v]))
                + (Lamports(transient'[v][s]) - Lamports(transient[v][s])))
  BY Zenon, <1>4, <1>9, <1>14 DEF p, q
<1> QED
  BY Zenon, <1>1, <1>2, <1>9, <1>15, SolventOfSeed

\* What the list counts for a validator that was updated in this epoch is in its
\* accounts.
LEMMA CountedIsThere ==
  ASSUME TypeOK, ListKept, NEW v \in Validators,
         v \in Listed => list[v].last_update >= epoch
  PROVE  /\ v \in Listed => StakeLamports[v] <= OfValidators[v]
         /\ v \notin Listed => 0 <= OfValidators[v]
         /\ StakeLamports[v] \in Int
<1>1. /\ stake[v] \in StakeAccounts /\ transient[v] \in [Seeds -> TransientAccounts]
      /\ OfValidators[v] = Worth(stake[v], transient[v])
  BY Zenon, ValidatorTerms DEF TypeOK
<1>2. /\ list[v].active \in Nat /\ list[v].transient \in Nat /\ list[v].seed \in Seeds
      /\ list[v].last_update \in Nat /\ epoch \in Nat
  BY Zenon, Parts, Numbers DEF TypeOK
<1>3. Kept(list[v], stake[v], transient[v], epoch, last_update_epoch)
  BY Zenon DEF ListKept
<1>4. StakeLamports[v] = list[v].active + list[v].transient
  BY Zenon DEF StakeLamports
<1> DEFINE s == list[v].seed
           w == Withdrawable(stake[v])
           k == Lamports(transient[v][s])
           n == OfValidators[v]
<1>5. w + k <= n /\ w \in Int /\ k \in Nat /\ n \in Int
  BY Zenon, <1>1, <1>2, WorthIncludes, AccountNumbers
<1>6. CASE v \in Listed
  <2>1. list[v].status # "None" /\ list[v].last_update >= epoch
    BY Zenon, <1>6 DEF Listed
  <2>2. list[v].last_update <= epoch
    BY Zenon, <1>3, <2>1 DEF Kept
  <2>3. list[v].last_update = epoch
    BY <1>2, <2>1, <2>2
  <2>4. Matches(list[v], stake[v], transient[v][s])
    BY Zenon, <1>3, <2>1, <2>3 DEF Kept
  <2>5. list[v].active = w /\ (list[v].transient = k \/ list[v].transient = 0)
    BY Zenon, <2>4 DEF Matches
  <2> HIDE DEF w, k, n
  <2>6. list[v].active + list[v].transient <= n
    BY <1>2, <1>5, <2>5
  <2>7. list[v].active + list[v].transient \in Int
    BY <1>2
  <2> QED
    BY Zenon, <1>4, <1>6, <2>6, <2>7 DEF n
<1>7. CASE v \notin Listed
  <2>1. list[v].status = "None"
    BY Zenon, <1>7 DEF Listed
  <2>2. stake[v].kind = "None"
    BY <1>3, <2>1 DEF Kept
  <2>3. w = 0
    BY Zenon, <2>2 DEF Withdrawable
  <2> HIDE DEF w, k, n
  <2>4. 0 <= n
    BY <1>5, <2>3
  <2>5. list[v].active + list[v].transient \in Int
    BY <1>2
  <2> QED
    BY Zenon, <1>4, <1>7, <2>4, <2>5 DEF n
<1> QED
  BY Zenon, <1>6, <1>7

\* The total that UpdateStakePoolBalance computes from the list exists.
LEMMA PoolUpdateSolvent ==
  ASSUME Inv, Inv', ListKept, UpdateStakePoolBalance
  PROVE  Solvent'
<1> DEFINE f == [v \in Validators |-> IF v \in Listed THEN StakeLamports[v] ELSE 0]
           c == SumFunctionOnSet(StakeLamports, Listed)
           g == SumFunctionOnSet(f, Listed)
           h == SumFunctionOnSet(f, Validators)
           n == SumFunctionOnSet(OfValidators, Validators)
           m == MinimumReserveLamports
<1>1. TypeOK
  BY Zenon DEF Inv
<1>2. /\ \A v \in Listed : list[v].last_update >= epoch
      /\ total_lamports' = reserve - m + c
      /\ reserve' = reserve /\ stake' = stake /\ transient' = transient
  BY Zenon DEF UpdateStakePoolBalance, accounts
<1>3. Listed \in SUBSET Validators
  BY Zenon DEF Listed
<1>4. \A v \in Validators : /\ v \in Listed => StakeLamports[v] <= OfValidators[v]
                            /\ v \notin Listed => 0 <= OfValidators[v]
                            /\ StakeLamports[v] \in Int
  BY Zenon, <1>1, <1>2, CountedIsThere
<1>5. /\ Terms(OfValidators, Validators) /\ n \in Int
      /\ reserve \in Int /\ m \in Int
  BY Zenon, <1>1, ValidatorTerms
<1>6. /\ \A v \in Validators : f[v] \in Int /\ f[v] <= OfValidators[v]
      /\ \A v \in Listed : f[v] = StakeLamports[v]
      /\ \A v \in Validators \ Listed : f[v] = 0
  <2>1. 0 \in Int
    OBVIOUS
  <2> QED
    BY Zenon, <1>3, <1>4, <2>1
<1> HIDE DEF f
<1>7. Terms(f, Validators)
  BY Zenon, <1>5, <1>6 DEF Terms
<1>8. Terms(f, Listed) /\ g \in Int
  BY Zenon, <1>3, <1>7, SumOfTerms
<1>9. c = g
  BY Zenon, <1>6, <1>8, SumSame
<1>10. h = g
  BY Zenon, <1>3, <1>6, <1>7, SumSupport
<1>11. h <= n
  BY Zenon, <1>5, <1>6, <1>7, SumMonotonic
<1>12. OfValidators' = OfValidators
  BY Zenon, <1>2 DEF OfValidators
<1> HIDE DEF c, g, h, n, m
<1>13. reserve - m + c <= reserve - m + n
  BY <1>5, <1>8, <1>9, <1>10, <1>11
<1> QED
  BY Zenon, <1>2, <1>12, <1>13 DEF Solvent, n, m, MinimumReserveLamports

\* Rewards and restarts leave no account with less.
LEMMA ClusterSolvent ==
  ASSUME Inv, Inv', Solvent, ClusterNext
  PROVE  Solvent'
<1>1. /\ TypeOK /\ TypeOK' /\ total_lamports \in Int /\ reserve \in Int
      /\ Rent \in Nat /\ MinimumActive \in Nat
  BY Zenon, ValidatorTerms, Numbers DEF Inv
<1>2. ASSUME NEW v \in Validators
      PROVE  /\ stake[v] \in StakeAccounts /\ stake'[v] \in StakeAccounts
             /\ transient[v] \in [Seeds -> TransientAccounts]
             /\ transient'[v] \in [Seeds -> TransientAccounts]
  BY Zenon, <1>1 DEF TypeOK
<1>3. ASSUME NEW a, NEW b, a.kind = b.kind \/ (a.kind # "None" /\ b.kind # "None"),
             a.amount \in Nat, b.amount \in Nat, a.amount <= b.amount
      PROVE  Withdrawable(a) <= Withdrawable(b) /\ Lamports(a) <= Lamports(b)
  BY <1>1, <1>3 DEF Withdrawable, Lamports
<1>4. ASSUME UNCHANGED <<total_lamports, reserve>>,
             \A v \in Validators :
                /\ Withdrawable(stake[v]) <= Withdrawable(stake'[v])
                /\ \A s \in Seeds : Lamports(transient[v][s]) <= Lamports(transient'[v][s])
      PROVE  Solvent'
  <2>1. total_lamports' - total_lamports <= reserve' - reserve
    BY <1>1, <1>4
  <2>2. \A v \in Validators : Worth(stake[v], transient[v]) <= Worth(stake'[v], transient'[v])
    BY Zenon, <1>2, <1>4, WorthGrows
  <2> QED
    BY Zenon, <1>1, <2>1, <2>2, SolventOfAll
<1>5. ASSUME NEW earned \in [Validators -> Rewards], NEW more \in [Validators -> Rewards],
             NextEpoch(earned, more)
      PROVE  Solvent'
  <2>1. /\ stake' = [v \in Validators |-> WithReward(stake[v], earned[v])]
        /\ transient' = [v \in Validators |-> [s \in Seeds |->
               WithReward(transient[v][s], more[v])]]
        /\ UNCHANGED <<total_lamports, reserve>>
    BY Zenon, <1>5 DEF NextEpoch, price
  <2>2. ASSUME NEW a, NEW n \in Nat, a \in StakeAccounts \/ a \in TransientAccounts
        PROVE  /\ WithReward(a, n).kind = a.kind /\ a.amount \in Nat
               /\ WithReward(a, n).amount \in Nat /\ a.amount <= WithReward(a, n).amount
    <3>1. a.amount \in Nat
      BY Zenon, <2>2 DEF StakeAccounts, TransientAccounts
    <3>2. CASE Active(a)
      <4>1. WithReward(a, n) = [a EXCEPT !.amount = a.amount + n]
        BY Zenon, <3>2 DEF WithReward
      <4>2. WithReward(a, n).kind = a.kind /\ WithReward(a, n).amount = a.amount + n
        BY Zenon, <2>2, <4>1 DEF StakeAccounts, TransientAccounts
      <4> QED
        BY <3>1, <4>2
    <3>3. CASE ~Active(a)
      <4>1. WithReward(a, n) = a
        BY Zenon, <3>3 DEF WithReward
      <4> QED
        BY <3>1, <4>1
    <3> QED
      BY Zenon, <3>2, <3>3
  <2>3. ASSUME NEW v \in Validators
        PROVE  Withdrawable(stake[v]) <= Withdrawable(stake'[v])
    <3>1. stake'[v] = WithReward(stake[v], earned[v]) /\ earned[v] \in Nat
      BY Zenon, <2>1, Inputs
    <3>2. /\ stake'[v].kind = stake[v].kind /\ stake[v].amount \in Nat
          /\ stake'[v].amount \in Nat /\ stake[v].amount <= stake'[v].amount
      BY Zenon, <1>2, <2>2, <3>1
    <3> QED
      BY Zenon, <1>3, <3>2
  <2>4. ASSUME NEW v \in Validators, NEW s \in Seeds
        PROVE  Lamports(transient[v][s]) <= Lamports(transient'[v][s])
    <3>1. transient'[v][s] = WithReward(transient[v][s], more[v]) /\ more[v] \in Nat
      BY Zenon, <2>1, Inputs
    <3>2. transient[v][s] \in TransientAccounts
      BY Zenon, <1>2
    <3>3. /\ transient'[v][s].kind = transient[v][s].kind /\ transient[v][s].amount \in Nat
          /\ transient'[v][s].amount \in Nat
          /\ transient[v][s].amount <= transient'[v][s].amount
      BY Zenon, <2>2, <3>1, <3>2
    <3> QED
      BY Zenon, <1>3, <3>3
  <2> QED
    BY Zenon, <1>4, <2>1, <2>3, <2>4
<1>6. ASSUME NEW v \in Validators, Destake(v)
      PROVE  Solvent'
  <2>1. /\ stake' = [stake EXCEPT ![v] = Destaked(stake[v])]
        /\ transient' = [transient EXCEPT ![v] = [s \in Seeds |-> Destaked(transient[v][s])]]
        /\ UNCHANGED <<total_lamports, reserve>>
    BY Zenon, <1>6 DEF Destake, poolVars, price
  <2>2. ASSUME NEW a, a \in StakeAccounts \/ a \in TransientAccounts
        PROVE  /\ a.kind = Destaked(a).kind \/ (a.kind # "None" /\ Destaked(a).kind # "None")
               /\ a.amount \in Nat /\ Destaked(a).amount = a.amount
    BY Zenon, <2>2 DEF Destaked, StakeAccounts, TransientAccounts
  <2>3. ASSUME NEW a, a \in StakeAccounts \/ a \in TransientAccounts
        PROVE  /\ Withdrawable(a) <= Withdrawable(Destaked(a))
               /\ Lamports(a) <= Lamports(Destaked(a))
               /\ Withdrawable(a) <= Withdrawable(a) /\ Lamports(a) <= Lamports(a)
    <3>1. \A n \in Nat : n <= n
      OBVIOUS
    <3> QED
      BY Zenon, <1>3, <2>2, <2>3, <3>1
  <2>4. ASSUME NEW u \in Validators
        PROVE  /\ stake'[u] \in {stake[u], Destaked(stake[u])}
               /\ \A s \in Seeds :
                     transient'[u][s] \in {transient[u][s], Destaked(transient[u][s])}
    <3>1. CASE u = v
      BY Zenon, <1>1, <2>1, <3>1 DEF TypeOK
    <3>2. CASE u # v
      BY Zenon, <1>1, <2>1, <3>2 DEF TypeOK
    <3> QED
      BY Zenon, <3>1, <3>2
  <2>5. ASSUME NEW u \in Validators
        PROVE  /\ Withdrawable(stake[u]) <= Withdrawable(stake'[u])
               /\ \A s \in Seeds : Lamports(transient[u][s]) <= Lamports(transient'[u][s])
    <3>1. stake[u] \in StakeAccounts /\ \A s \in Seeds : transient[u][s] \in TransientAccounts
      BY Zenon, <1>2
    <3> QED
      BY Zenon, <2>3, <2>4, <3>1
  <2> QED
    BY Zenon, <1>4, <2>1, <2>5
<1> QED
  BY Zenon, <1>5, <1>6 DEF ClusterNext

\* Every step keeps the pool solvent.
LEMMA SolventStep ==
  ASSUME Inv, Inv', ListKept, Solvent, [Next]_vars
  PROVE  Solvent'
<1>1. ASSUME stake' = stake, transient' = transient, total_lamports' = total_lamports,
             reserve' = reserve \/ \E n \in Rewards : reserve' = reserve + n
      PROVE  Solvent'
  <2>1. TypeOK /\ TypeOK' /\ total_lamports \in Int /\ reserve \in Int
    BY Zenon, ValidatorTerms DEF Inv
  <2>2. \A n \in Rewards : n \in Nat
    BY Zenon, Inputs
  <2>3. total_lamports' - total_lamports <= reserve' - reserve
    BY <1>1, <2>1, <2>2
  <2> QED
    BY Zenon, <1>1, <2>1, <2>3, SolventElsewhere
<1>2. CASE UpdateNext
  <2>1. CASE CleanupRemovedValidatorEntries
    BY Zenon, <1>1, <2>1 DEF CleanupRemovedValidatorEntries, poolVars, price
  <2> QED
    BY Zenon, <1>2, <2>1, EntryUpdateSolvent, PoolUpdateSolvent DEF UpdateNext
<1>3. CASE ManagerNext
  BY Zenon, <1>1, <1>3 DEF ManagerNext, SetFee, SetManager, accounts, price
<1>4. CASE HolderNext
  BY Zenon, <1>1, <1>4
  DEF HolderNext, BurnPoolTokens, CloseFeeAccount, Donate, poolVars, accounts, price
<1>5. CASE UNCHANGED vars
  BY Zenon, <1>1, <1>5 DEF vars, accounts, price
<1> QED
  BY Zenon, <1>2, <1>3, <1>4, <1>5, TradeSolvent, StakerSolvent, ClusterSolvent DEF Next

\* The lamports the pool owes its token holders exist at any moment, in the
\* reserve or in stake accounts of the pool, in whatever order stake is
\* deposited, moved, merged, withdrawn, destaked or counted by an update.
THEOREM AlwaysSolvent == Spec => []Solvent
<1>1. Init => Solvent
  <2> SUFFICES ASSUME Init
               PROVE  Solvent
    BY Zenon
  <2> DEFINE n == SumFunctionOnSet(OfValidators, Validators)
             m == MinimumReserveLamports
  <2>1. TypeOK
    BY Zenon, InitTypes DEF Inv
  <2>2. total_lamports = reserve - m
    BY Zenon DEF Init
  <2>3. ASSUME NEW v \in Validators PROVE 0 <= OfValidators[v]
    <3>1. /\ stake[v] \in StakeAccounts /\ transient[v] \in [Seeds -> TransientAccounts]
          /\ OfValidators[v] = Worth(stake[v], transient[v]) /\ 0 \in Seeds
      BY Zenon, <2>1, ValidatorTerms, Numbers DEF TypeOK
    <3>2. stake[v] = NoStake /\ transient[v][0] = NoStake
      BY Zenon, <3>1 DEF Init
    <3>3. Withdrawable(stake[v]) = 0 /\ Lamports(transient[v][0]) = 0
      <4>1. NoStake.kind = "None"
        BY DEF NoStake
      <4> QED
        BY Zenon, <3>2, <4>1 DEF Withdrawable, Lamports
    <3>4. Withdrawable(stake[v]) + Lamports(transient[v][0]) <= Worth(stake[v], transient[v])
      BY Zenon, <3>1, WorthIncludes
    <3>5. 0 + 0 = 0
      OBVIOUS
    <3> QED
      BY Zenon, <3>1, <3>3, <3>4, <3>5
  <2>4. /\ Terms(OfValidators, Validators) /\ n \in Int /\ reserve \in Int /\ m \in Int
        /\ \A v \in Validators : OfValidators[v] \in Int
    BY Zenon, <2>1, ValidatorTerms
  <2>5. \A v \in Validators : OfValidators[v] >= 0
    BY <2>3, <2>4
  <2>6. n >= 0
    BY Zenon, <2>4, <2>5, SumSign
  <2> HIDE DEF n, m
  <2>7. reserve - m <= reserve - m + n
    BY <2>4, <2>6
  <2> QED
    BY Zenon, <2>2, <2>7 DEF Solvent, n, m
<1>2. Inv /\ Inv' /\ ListKept /\ Solvent /\ [Next]_vars => Solvent'
  BY Zenon, SolventStep
<1> QED
  BY <1>1, <1>2, InvAlways, KeptAlways, PTL DEF Spec
-----------------------------------------------------------------------------
(* The value of a pool token *)

\* No token is worth less after a step, up to a lamport.
PriceHeld ==
    total_lamports' * pool_token_supply + pool_token_supply
        > total_lamports * pool_token_supply'

\* The same with no rounding.
LEMMA NoneCheaper ==
  ASSUME NEW t \in Nat, NEW s \in Nat, NEW u \in Nat, NEW r \in Nat,
         s > 0, t * r <= u * s
  PROVE  u * s + s > t * r
<1> DEFINE x == t * r
           y == u * s
<1>1. x \in Nat /\ y \in Nat /\ x <= y
  BY Zenon, Products
<1> HIDE DEF x, y
<1>2. y + s > x
  BY <1>1
<1> QED
  BY Zenon, <1>2 DEF x, y

\* A validator with one transient account at most.
LEMMA WorthOfOne ==
  ASSUME NEW a \in StakeAccounts, NEW t \in [Seeds -> TransientAccounts], NEW s \in Seeds,
         \A r \in Seeds : r # s => t[r].kind = "None"
  PROVE  Worth(a, t) = Withdrawable(a) + Lamports(t[s])
<1> DEFINE f == Lent(t)
           S == {s}
<1>1. Terms(f, Seeds) /\ f[s] = Lamports(t[s]) /\ Lamports(t[s]) \in Nat
  BY Zenon, AccountNumbers
<1>2. \A r \in Seeds \ S : f[r] = 0
  <2>1. ASSUME NEW r \in Seeds \ S PROVE Lamports(t[r]) = 0
    BY Zenon DEF Lamports
  <2> QED
    BY Zenon, <2>1, AccountNumbers
<1>3. Worth(a, t) = Withdrawable(a) + SumFunctionOnSet(f, Seeds)
  BY Zenon DEF Worth
<1> HIDE DEF f
<1>4. S \in SUBSET Seeds /\ s \in S /\ S \ {s} = {}
  BY Zenon
<1> HIDE DEF S
<1>5. SumFunctionOnSet(f, Seeds) = SumFunctionOnSet(f, S)
  BY Zenon, <1>1, <1>2, <1>4, SumSupport
<1>6. SumFunctionOnSet(f, S) = f[s] + SumFunctionOnSet(f, S \ {s})
  <2>1. \A x \in S : SumFunctionOnSet(f, S) = f[x] + SumFunctionOnSet(f, S \ {x})
    BY <1>1, <1>4, SumOfTerms
  <2> QED
    BY Zenon, <1>4, <2>1
<1>7. SumFunctionOnSet(f, S \ {s}) = 0
  BY Zenon, <1>4, SumEmpty
<1>8. f[s] + 0 = f[s]
  BY <1>1
<1> QED
  BY Zenon, <1>1, <1>3, <1>5, <1>6, <1>7, <1>8

\* When no transient account is abandoned, the list counts all that the accounts
\* of a validator hold.
LEMMA AllIsCounted ==
  ASSUME TypeOK, ListKept, ~Abandoned, NEW v \in Validators,
         v \in Listed => list[v].last_update >= epoch
  PROVE  /\ v \in Listed => OfValidators[v] = StakeLamports[v]
         /\ v \notin Listed => OfValidators[v] = 0
<1> DEFINE s == list[v].seed
<1>1. /\ stake[v] \in StakeAccounts /\ transient[v] \in [Seeds -> TransientAccounts]
      /\ OfValidators[v] = Worth(stake[v], transient[v])
      /\ StakeLamports[v] = list[v].active + list[v].transient
  BY Zenon, ValidatorTerms DEF TypeOK, StakeLamports
<1>2. list[v].last_update \in Nat /\ epoch \in Nat /\ s \in Seeds
  BY Zenon, Parts, Numbers DEF TypeOK
<1>3. Kept(list[v], stake[v], transient[v], epoch, last_update_epoch)
  BY Zenon DEF ListKept
<1>4. ASSUME NEW r \in Seeds
      PROVE  /\ transient[v][r].kind \in Delegated =>
                  list[v].status \in {"Active", "DeactivatingTransient"} /\ s = r
             /\ transient[v][r].kind = "Initialized" =>
                  v \in Listed /\ s = r /\ list[v].transient > 0
             /\ transient[v][r].kind \in {"None", "Initialized"} \cup Delegated
  <2>1. transient[v][r] \in TransientAccounts
    BY Zenon, <1>1
  <2>2. transient[v][r].kind \in {"None", "Activating", "Deactivating", "Initialized"}
    BY Zenon, <2>1 DEF TransientAccounts
  <2>3. transient[v][r].kind \in {"None", "Initialized"} \cup Delegated
    BY Zenon, <2>2 DEF Delegated
  <2>4. transient[v][r].kind = "Initialized" =>
           v \in Listed /\ s = r /\ list[v].transient > 0
    BY Zenon DEF Abandoned
  <2> QED
    BY Zenon, <1>3, <2>3, <2>4 DEF Kept
<1>5. \A r \in Seeds : r # s => transient[v][r].kind = "None"
  BY Zenon, <1>4
<1> DEFINE w == Withdrawable(stake[v])
           k == Lamports(transient[v][s])
<1>6. OfValidators[v] = w + k
  BY Zenon, <1>1, <1>2, <1>5, WorthOfOne
<1>7. CASE v \in Listed
  <2>1. list[v].status # "None" /\ list[v].last_update >= epoch
    BY Zenon, <1>7 DEF Listed
  <2>2. list[v].last_update <= epoch
    BY Zenon, <1>3, <2>1 DEF Kept
  <2>3. list[v].last_update = epoch
    BY <1>2, <2>1, <2>2
  <2>4. Matches(list[v], stake[v], transient[v][s])
    BY Zenon, <1>3, <2>1, <2>3 DEF Kept
  <2>5. ~(list[v].transient = 0 /\ transient[v][s].kind = "Initialized")
    <3>1. ~(0 > 0)
      OBVIOUS
    <3> QED
      BY Zenon, <1>2, <1>4, <3>1
  <2>6. list[v].active = w /\ list[v].transient = k
    BY Zenon, <2>4, <2>5 DEF Matches
  <2> QED
    BY Zenon, <1>1, <1>6, <1>7, <2>6
<1>8. CASE v \notin Listed
  <2>1. list[v].status = "None"
    BY Zenon, <1>8 DEF Listed
  <2>2. stake[v].kind = "None"
    BY <1>3, <2>1 DEF Kept
  <2>3. list[v].status \notin {"Active", "DeactivatingTransient"}
    BY <2>1
  <2>4. transient[v][s].kind = "None"
    BY Zenon, <1>2, <1>4, <1>8, <2>3
  <2>5. w = 0 /\ k = 0
    BY Zenon, <2>2, <2>4 DEF Withdrawable, Lamports
  <2>6. 0 + 0 = 0
    OBVIOUS
  <2> QED
    BY Zenon, <1>6, <1>8, <2>5, <2>6
<1> QED
  BY Zenon, <1>7, <1>8

\* Then an update does not lower the total.
LEMMA NothingIsLost ==
  ASSUME TypeOK, ListKept, Solvent, ~Abandoned,
         \A v \in Listed : list[v].last_update >= epoch
  PROVE  total_lamports
            <= reserve - MinimumReserveLamports + SumFunctionOnSet(StakeLamports, Listed)
<1> DEFINE f == OfValidators
           c == SumFunctionOnSet(StakeLamports, Listed)
           g == SumFunctionOnSet(f, Listed)
           h == SumFunctionOnSet(f, Validators)
<1>1. Listed \in SUBSET Validators
  BY Zenon DEF Listed
<1>2. \A v \in Validators : /\ v \in Listed => StakeLamports[v] = f[v]
                            /\ v \notin Listed => f[v] = 0
  BY Zenon, AllIsCounted
<1>3. Terms(f, Validators)
  BY Zenon, ValidatorTerms
<1>4. total_lamports <= reserve - MinimumReserveLamports + h
  BY Zenon DEF Solvent
<1> HIDE DEF f
<1>5. Terms(f, Listed)
  BY Zenon, <1>1, <1>3, SumOfTerms
<1>6. \A v \in Listed : StakeLamports[v] = f[v]
  BY Zenon, <1>1, <1>2
<1>7. c = g
  BY Zenon, <1>5, <1>6, SumSame
<1>8. \A v \in Validators \ Listed : f[v] = 0
  BY Zenon, <1>2
<1>9. h = g
  BY Zenon, <1>1, <1>3, <1>8, SumSupport
<1> HIDE DEF c, g, h
<1>10. total_lamports <= reserve - MinimumReserveLamports + c
  BY Zenon, <1>4, <1>7, <1>9
<1> QED
  BY Zenon, <1>10 DEF c

\* The update of the pool and its fee.
LEMMA PoolUpdatePrice ==
  ASSUME Inv, SupplyCovers, ListKept, Solvent, UpdateStakePoolBalance,
         pool_token_supply > 0, ~Abandoned
  PROVE  PriceHeld
<1> DEFINE total == reserve - MinimumReserveLamports + SumFunctionOnSet(StakeLamports, Listed)
           reward == IF total > total_lamports THEN total - total_lamports ELSE 0
           charged == EpochFee(total_lamports, pool_token_supply, fee["epoch"], reward)
           minted == IF fee_account THEN charged ELSE 0
           n == PoolMintSupply
           t == total_lamports
           s == pool_token_supply
<1>1. /\ total \in Amounts /\ \A v \in Listed : list[v].last_update >= epoch
      /\ total_lamports' = total /\ pool_token_supply' = n + minted
  BY Zenon DEF UpdateStakePoolBalance
<1>2. t <= total
  BY Zenon, <1>1, NothingIsLost DEF Inv
<1> HIDE DEF total
<1>3. t \in Nat /\ s \in Nat /\ s > 0 /\ total \in Nat
  BY Zenon, <1>1, Numbers DEF Inv, TypeOK
<1>4. n \in Nat /\ n <= s
  <2>1. tokens \in [users : Nat, manager : Nat]
    BY Zenon DEF Inv, TypeOK
  <2>2. n \in Nat
    BY <2>1 DEF PoolMintSupply
  <2> QED
    BY <1>3, <2>2 DEF SupplyCovers
<1>5. reward \in Nat /\ t + reward = total
  BY <1>2, <1>3
<1>6. fee["epoch"] \in Ratio /\ fee["epoch"].num <= fee["epoch"].den
  BY Zenon DEF Inv, TypeOK, FeesInRange, FeeKinds
<1> HIDE DEF reward
<1>7. charged \in Nat /\ t * (s + charged) <= (t + reward) * s
  <2>1. s \in Nat \ {0}
    BY <1>3
  <2> QED
    BY Zenon, <1>3, <1>5, <1>6, <2>1, EpochFeeKeepsPrice
<1> HIDE DEF charged, n, t, s
<1>8. minted \in Nat /\ t * (s + minted) <= total * s
  <2>1. CASE fee_account
    BY Zenon, <1>5, <1>7, <2>1
  <2>2. CASE ~fee_account
    <3>1. minted = 0 /\ s + 0 = s /\ 0 \in Nat
      BY <1>3, <2>2
    <3>2. s * t <= s * total /\ s * t = t * s /\ s * total = total * s
      BY Zenon, <1>2, <1>3, Products
    <3> QED
      BY Zenon, <3>1, <3>2
  <2> QED
    BY Zenon, <2>1, <2>2
<1> HIDE DEF minted
<1>9. n + minted \in Nat /\ s + minted \in Nat /\ n + minted <= s + minted
  BY <1>3, <1>4, <1>8
<1>10. t * (n + minted) <= t * (s + minted)
  BY Zenon, <1>3, <1>9, Products
<1>11. t * (n + minted) <= total * s
  <2> DEFINE x == t * (n + minted)
             y == t * (s + minted)
             z == total * s
  <2>1. x \in Nat /\ y \in Nat /\ z \in Nat /\ x <= y /\ y <= z
    BY Zenon, <1>3, <1>8, <1>9, <1>10, Products
  <2> HIDE DEF x, y, z
  <2>2. x <= z
    BY <2>1
  <2> QED
    BY Zenon, <2>2 DEF x, z
<1>12. total * s + s > t * (n + minted)
  BY Zenon, <1>3, <1>9, <1>11, NoneCheaper
<1> QED
  BY Zenon, <1>1, <1>12 DEF PriceHeld, t, s

\* Deposits and withdrawals.
LEMMA TradePrice ==
  ASSUME Inv, TradeNext, pool_token_supply > 0
  PROVE  PriceHeld
<1> DEFINE t == total_lamports
           s == pool_token_supply
<1>1. t \in Nat /\ s \in Nat /\ s > 0 /\ s \in Nat \ {0}
  <2>1. t \in Nat /\ s \in Nat
    BY Zenon, Numbers DEF Inv, TypeOK
  <2> QED
    BY <2>1
<1>2. ASSUME NEW n \in Nat, total_lamports' = t + n,
             pool_token_supply' = s + TokensForDeposit(t, s, n)
      PROVE  PriceHeld
  <2> DEFINE a == TokensForDeposit(t, s, n)
  <2>1. a \in Nat
    BY Zenon, <1>1, DepositTokens
  <2>2. t * (s + a) <= (t + n) * s
    BY Zenon, <1>1, TradesKeepPrice
  <2> HIDE DEF a
  <2>3. t + n \in Nat /\ s + a \in Nat
    BY <1>1, <2>1
  <2>4. (t + n) * s + s > t * (s + a)
    BY Zenon, <1>1, <2>2, <2>3, NoneCheaper
  <2> QED
    BY Zenon, <1>2, <2>4 DEF PriceHeld, a
<1>3. ASSUME NEW d \in Deposits, NEW v \in Validators, DepositStake(v, d)
      PROVE  PriceHeld
  <2>1. d.stake \in Nat /\ d.sol \in Nat
    BY Zenon, Inputs
  <2>2. d.stake + d.sol \in Nat /\ t + d.stake + d.sol = t + (d.stake + d.sol)
    BY <1>1, <2>1
  <2>3. /\ total_lamports' = t + d.stake + d.sol
        /\ pool_token_supply' = s + TokensForDeposit(t, s, d.stake + d.sol)
    BY Zenon, <1>3 DEF DepositStake, MintTokens
  <2> QED
    BY Zenon, <1>2, <2>2, <2>3
<1>4. ASSUME NEW d \in Deposits, DepositSol(d.sol)
      PROVE  PriceHeld
  <2>1. d.sol \in Nat
    BY Zenon, Inputs
  <2>2. /\ total_lamports' = t + d.sol
        /\ pool_token_supply' = s + TokensForDeposit(t, s, d.sol)
    BY Zenon, <1>4 DEF DepositSol, MintTokens
  <2> QED
    BY Zenon, <1>2, <2>1, <2>2
<1>5. ASSUME NEW k \in WithdrawalKinds, NEW from \in {"users", "manager"},
             NEW amount \in Withdrawals, BurnTokens(k, from, amount)
      PROVE  PriceHeld
  <2> DEFINE burnt == Burnt(k, from, amount)
  <2>1. amount \in Nat
    BY Zenon, Inputs
  <2>2. burnt \in Nat
    BY Zenon, <1>5, <2>1, Burning
  <2>3. /\ pool_token_supply' = s - burnt
        /\ total_lamports' = t - LamportsWithdrawn(t, s, burnt)
    BY Zenon, <1>5 DEF BurnTokens, Withdrawn
  <2> HIDE DEF burnt
  <2>4. t * (s - burnt) < (t - LamportsWithdrawn(t, s, burnt)) * s + s
    BY Zenon, <1>1, <2>2, TradesKeepPrice
  <2> DEFINE x == t * (s - burnt)
             y == (t - LamportsWithdrawn(t, s, burnt)) * s + s
  <2>5. y > x
    BY <2>4
  <2> QED
    BY Zenon, <2>3, <2>5 DEF PriceHeld
<1>6. CASE \E d \in Deposits :
             \/ d.stake > 0 /\ \E v \in Validators : DepositStake(v, d)
             \/ d.stake = 0 /\ DepositSol(d.sol)
  BY Zenon, <1>3, <1>4, <1>6
<1>7. CASE \E from \in {"users", "manager"}, amount \in Withdrawals :
             \/ WithdrawReserveStake(from, amount)
             \/ \E v \in Validators : WithdrawStake(v, from, amount)
             \/ \E v \in Validators : WithdrawTransientStake(v, from, amount)
             \/ WithdrawSol(from, amount)
  <2>1. PICK from \in {"users", "manager"}, amount \in Withdrawals :
             \/ WithdrawReserveStake(from, amount)
             \/ \E v \in Validators : WithdrawStake(v, from, amount)
             \/ \E v \in Validators : WithdrawTransientStake(v, from, amount)
             \/ WithdrawSol(from, amount)
    BY Zenon, <1>7
  <2>2. \E k \in WithdrawalKinds : BurnTokens(k, from, amount)
    <3>1. "stake_withdrawal" \in WithdrawalKinds /\ "sol_withdrawal" \in WithdrawalKinds
      BY Zenon DEF WithdrawalKinds
    <3>2. BurnTokens("stake_withdrawal", from, amount) \/ BurnTokens("sol_withdrawal", from, amount)
      BY Zenon, <2>1
      DEF WithdrawReserveStake, WithdrawStake, WithdrawTransientStake, WithdrawSol
    <3> QED
      BY Zenon, <3>1, <3>2
  <2> QED
    BY Zenon, <1>5, <2>2
<1> QED
  BY Zenon, <1>6, <1>7 DEF TradeNext

\* Every step.
LEMMA PriceStep ==
  ASSUME Inv, SupplyCovers, ListKept, Solvent, [Next]_vars,
         pool_token_supply > 0, ~Abandoned
  PROVE  PriceHeld
<1>1. CASE UNCHANGED <<total_lamports, pool_token_supply>>
  <2> DEFINE x == total_lamports * pool_token_supply
  <2>1. total_lamports \in Nat /\ pool_token_supply \in Nat
    BY Zenon, Numbers DEF Inv, TypeOK
  <2>2. x \in Nat
    BY Zenon, <2>1, Products
  <2> HIDE DEF x
  <2>3. x + pool_token_supply > x
    BY <2>1, <2>2
  <2> QED
    BY Zenon, <1>1, <2>3 DEF PriceHeld, x
<1>2. CASE StakerNext
  <2>1. UNCHANGED price
    BY Zenon, <1>2, ZenonT(60)
       DEF StakerNext, AddValidatorToPool, RemoveValidatorFromPool,
           DecreaseValidatorStake, IncreaseValidatorStake, SetPreferredValidator, poolVars
  <2> QED
    BY Zenon, <1>1, <2>1 DEF price
<1>3. CASE UpdateNext
  <2>1. ASSUME NEW v \in Validators, NEW no_merge \in BOOLEAN,
               UpdateValidatorListBalance(v, no_merge)
        PROVE  PriceHeld
    BY Zenon, <1>1, <2>1 DEF UpdateValidatorListBalance, poolVars, price
  <2>2. CASE CleanupRemovedValidatorEntries
    BY Zenon, <1>1, <2>2 DEF CleanupRemovedValidatorEntries, poolVars, price
  <2> QED
    BY Zenon, <1>3, <2>1, <2>2, PoolUpdatePrice DEF UpdateNext
<1>4. CASE ManagerNext
  BY Zenon, <1>1, <1>4 DEF ManagerNext, SetFee, SetManager, price
<1>5. CASE HolderNext
  BY Zenon, <1>1, <1>5
  DEF HolderNext, BurnPoolTokens, CloseFeeAccount, Donate, poolVars, price
<1>6. CASE ClusterNext
  BY Zenon, <1>1, <1>6 DEF ClusterNext, NextEpoch, Destake, poolVars, price
<1>7. CASE UNCHANGED vars
  BY Zenon, <1>1, <1>7 DEF vars, price
<1> QED
  BY Zenon, <1>2, <1>3, <1>4, <1>5, <1>6, <1>7, TradePrice DEF Next

\* The value of a pool token never falls by more than the lamport a withdrawal
\* is rounded up by: deposits, withdrawals and the epoch fee take no more than
\* their share, and an update of a pool without abandoned accounts finds all of
\* the pool's lamports.
THEOREM PriceAlwaysHolds == Spec => PriceHolds
<1>1. Inv /\ SupplyCovers /\ ListKept /\ Solvent /\ [Next]_vars =>
        [pool_token_supply > 0 /\ ~Abandoned =>
           total_lamports' * pool_token_supply + pool_token_supply
               > total_lamports * pool_token_supply']_vars
  BY Zenon, PriceStep DEF PriceHeld
<1> QED
  BY <1>1, InvAlways, SupplyAlwaysCovers, KeptAlways, AlwaysSolvent, PTL DEF Spec, PriceHolds
=============================================================================
