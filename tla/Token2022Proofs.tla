-------------------------- MODULE Token2022Proofs ---------------------------
(* Proofs about Token2022 for every set of mints and accounts. *)
EXTENDS Token2022Properties, Sums

-----------------------------------------------------------------------------
(* What a fee is *)

\* A product of natural numbers is one, and grows with its factors.
LEMMA Products ==
  ASSUME NEW a \in Nat, NEW b \in Nat, NEW c \in Nat, b <= c
  PROVE  a * b \in Nat /\ a * b <= a * c
  OBVIOUS

\* Quotient and remainder by ONE_IN_BASIS_POINTS.
LEMMA Division ==
  \A n \in Nat : /\ n \div 10000 \in Nat /\ n % 10000 \in Nat /\ n % 10000 < 10000
                 /\ n = 10000 * (n \div 10000) + (n % 10000)
  BY Z3

\* The fee of TransferFee::calculate is never more than the amount or the
\* maximum.  Unless it is the maximum, it is the least number of tokens that
\* makes up the share of the amount.
THEOREM FeeIsLeast ==
  ASSUME NEW fee \in FeeType, NEW amount \in Nat
  PROVE  LET paid == Calculate(fee, amount)
         IN  /\ paid \in Nat
             /\ paid <= amount /\ paid <= fee.maximum_fee
             /\ paid # fee.maximum_fee =>
                  /\ paid * MAX_FEE_BASIS_POINTS >= amount * fee.basis_points
                  /\ \A less \in Nat : less < paid =>
                       less * MAX_FEE_BASIS_POINTS < amount * fee.basis_points
<1>1. fee.basis_points \in Nat /\ fee.basis_points <= 10000 /\ fee.maximum_fee \in Nat
  <2>1. MaxU64 \in Nat
    BY Zenon, Token2022Assumption
  <2>2. MAX_FEE_BASIS_POINTS \in Nat
    BY DEF MAX_FEE_BASIS_POINTS
  <2>3. /\ fee.basis_points \in Nat /\ fee.basis_points <= MAX_FEE_BASIS_POINTS
        /\ fee.maximum_fee \in Nat
    BY <2>1, <2>2 DEF FeeType, Amounts
  <2> QED
    BY <2>3 DEF MAX_FEE_BASIS_POINTS
<1> DEFINE n == amount * fee.basis_points
<1>2. n \in Nat /\ n <= amount * 10000
  BY <1>1, Products
<1> HIDE DEF n
<1>3. /\ n \div 10000 \in Nat /\ n % 10000 \in Nat /\ n % 10000 < 10000
      /\ n = 10000 * (n \div 10000) + (n % 10000)
  BY <1>2, Division
<1> DEFINE raw == IF n % 10000 > 0 THEN n \div 10000 + 1 ELSE n \div 10000
<1>4. /\ raw \in Nat /\ raw * 10000 >= n /\ raw <= amount
      /\ \A less \in Nat : less < raw => less * 10000 < n
  BY <1>2, <1>3
<1>5. Calculate(fee, amount) = IF raw < fee.maximum_fee THEN raw ELSE fee.maximum_fee
  BY DEF Calculate, MAX_FEE_BASIS_POINTS, n
<1> HIDE DEF raw
<1>6. CASE raw < fee.maximum_fee
  BY <1>1, <1>4, <1>5, <1>6 DEF MAX_FEE_BASIS_POINTS, n
<1>7. CASE ~(raw < fee.maximum_fee)
  BY <1>1, <1>4, <1>5, <1>7
<1> QED
  BY Zenon, <1>6, <1>7

-----------------------------------------------------------------------------
(* Types *)

\* An account that is in use belongs to a mint; the fee of a transfer is looked
\* up there.
AccountsHaveMints == \A a \in Accounts : IsInitialized(a) => account[a].mint \in Mints

Inv == TypeOK /\ AccountsHaveMints

\* Zeroed data has the types of what it is read as.
LEMMA ZeroTypes == NoMint \in MintType /\ NoAccount \in AccountType
<1>1. 0 \in Amounts
  BY Token2022Assumption DEF Amounts
<1>2. NoFee \in FeeType
  BY <1>1 DEF NoFee, FeeType, MAX_FEE_BASIS_POINTS
<1> QED
  BY Zenon, <1>1, <1>2 DEF NoMint, NoAccount, MintType, AccountType

\* Constants and fee bounds as numbers.
LEMMA Numbers ==
  /\ MaxU64 \in Nat /\ MAX_FEE_BASIS_POINTS \in Nat
  /\ \A x : x \in Amounts <=> x \in Nat /\ x <= MaxU64
<1>1. MaxU64 \in Nat
  BY Zenon, Token2022Assumption
<1>2. MAX_FEE_BASIS_POINTS \in Nat
  BY DEF MAX_FEE_BASIS_POINTS
<1> QED
  BY <1>1, <1>2 DEF Amounts

\* An account record with one field written is an account record.
LEMMA AccountFields ==
  ASSUME NEW r \in AccountType
  PROVE  /\ \A n \in Amounts : [r EXCEPT !.amount = n] \in AccountType
         /\ \A n, w \in Amounts :
              [r EXCEPT !.amount = n, !.withheld = w] \in AccountType
         /\ \A n, w \in Amounts :
              [r EXCEPT !.withheld = w, !.amount = n] \in AccountType
         /\ \A w \in Amounts : [r EXCEPT !.withheld = w] \in AccountType
         /\ \A d \in BOOLEAN, n \in Amounts :
              [r EXCEPT !.delegate = d, !.delegated_amount = n] \in AccountType
         /\ \A n \in Amounts, d \in BOOLEAN :
              [r EXCEPT !.delegated_amount = n, !.delegate = d] \in AccountType
         /\ \A e \in SUBSET AccountExtensions, b \in BOOLEAN :
              [r EXCEPT !.extensions = e, !.require_memo = b] \in AccountType
  BY Zenon DEF AccountType

\* A mint record with these fields written is a mint record.
LEMMA MintFields ==
  ASSUME NEW r \in MintType
  PROVE  /\ \A n \in Amounts : [r EXCEPT !.supply = n] \in MintType
         /\ \A n \in Amounts : [r EXCEPT !.withheld = n] \in MintType
         /\ \A e \in SUBSET MintExtensions : [r EXCEPT !.extensions = e] \in MintType
         /\ \A u \in SUBSET MintAuthorities : [r EXCEPT !.authorities = u] \in MintType
         /\ \A e \in SUBSET MintExtensions, u \in SUBSET MintAuthorities :
              [r EXCEPT !.extensions = e, !.authorities = u] \in MintType
         /\ \A e \in SUBSET MintExtensions, st \in {"Initialized", "Frozen"} :
              [r EXCEPT !.extensions = e, !.default_state = st] \in MintType
         /\ \A b \in BOOLEAN, u \in SUBSET MintAuthorities :
              [r EXCEPT !.is_initialized = b, !.authorities = u] \in MintType
         /\ \A f, g \in FeeType : [r EXCEPT !.older = f, !.newer = g] \in MintType
         /\ \A e \in SUBSET MintExtensions, u \in SUBSET MintAuthorities,
               n \in Amounts, f, g \in FeeType :
              [r EXCEPT !.extensions = e, !.authorities = u, !.withheld = n,
                        !.older = f, !.newer = g] \in MintType
  BY Zenon DEF MintType

\* What the extensions and authorities of a mint may become.
LEMMA MintSets ==
  ASSUME NEW r \in MintType, NEW auths \in AuthorityChoices
  PROVE  /\ \A x \in MintExtensions : r.extensions \cup {x} \in SUBSET MintExtensions
         /\ r.authorities \cup auths \in SUBSET MintAuthorities
         /\ \A S : (r.authorities \ S) \cup auths \in SUBSET MintAuthorities
<1>1. auths \subseteq MintAuthorities
  BY Zenon, Token2022Assumption
<1>2. r.extensions \subseteq MintExtensions /\ r.authorities \subseteq MintAuthorities
  BY Zenon DEF MintType
<1> QED
  BY Zenon, <1>1, <1>2

\* A fee that is set is well typed, whatever epoch it starts in.
LEMMA SetFeeType ==
  ASSUME NEW fee \in Fees, fee.basis_points <= MAX_FEE_BASIS_POINTS, NEW e \in Nat
  PROVE  [epoch |-> e, basis_points |-> fee.basis_points,
          maximum_fee |-> fee.maximum_fee] \in FeeType
<1>1. fee.basis_points \in Nat /\ fee.maximum_fee \in Amounts
  BY Zenon, Token2022Assumption
<1> QED
  BY <1>1, Numbers DEF FeeType

\* The instructions that create mints and accounts keep the invariant.
LEMMA CreateInv == Inv /\ CreateNext => Inv'
<1> SUFFICES ASSUME Inv, CreateNext PROVE Inv'
  BY Zenon
<1> USE DEF Inv
<1>0. /\ \A m \in Mints : mint[m] \in MintType
      /\ \A a \in Accounts : account[a] \in AccountType
      /\ epoch \in Nat
  BY Token2022Assumption DEF TypeOK, Epochs
<1>1. ASSUME NEW m \in Mints, NEW fee \in Fees, NEW auths \in AuthorityChoices,
             InitializeTransferFeeConfig(m, fee, auths)
      PROVE  Inv'
  <2> DEFINE now == [epoch |-> epoch, basis_points |-> fee.basis_points,
                     maximum_fee |-> fee.maximum_fee]
  <2>1. now \in FeeType
    BY Zenon, <1>0, <1>1, SetFeeType DEF InitializeTransferFeeConfig
  <2> DEFINE e == mint[m].extensions \cup {"TransferFeeConfig"}
             u == (mint[m].authorities \ FeeAuthorities) \cup auths
  <2>2. mint' = [mint EXCEPT ![m] = [mint[m] EXCEPT !.extensions = e,
            !.authorities = u, !.withheld = 0, !.older = now, !.newer = now]]
    BY Zenon, <1>1 DEF InitializeTransferFeeConfig
  <2>3. 0 \in Amounts /\ "TransferFeeConfig" \in MintExtensions
    BY Numbers DEF MintExtensions
  <2>5. e \in SUBSET MintExtensions /\ u \in SUBSET MintAuthorities
    BY Zenon, <1>0, <2>3, MintSets
  <2> HIDE DEF now, e, u
  <2>4. mint' \in [Mints -> MintType]
    BY Zenon, <1>0, <2>1, <2>2, <2>3, <2>5, MintFields DEF TypeOK
  <2> QED
    BY Zenon, <1>1, <2>4
    DEF InitializeTransferFeeConfig, TypeOK, AccountsHaveMints, IsInitialized
<1>2. ASSUME NEW m \in Mints, NEW auths \in AuthorityChoices,
             InitializeMintCloseAuthority(m, auths)
      PROVE  Inv'
  <2>1. "MintCloseAuthority" \in MintExtensions
    BY Zenon DEF MintExtensions
  <2> DEFINE e == mint[m].extensions \cup {"MintCloseAuthority"}
             u == (mint[m].authorities \ {"CloseMint"}) \cup auths
  <2>3. mint' = [mint EXCEPT ![m] = [mint[m] EXCEPT !.extensions = e,
                                                    !.authorities = u]]
    BY Zenon, <1>2 DEF InitializeMintCloseAuthority
  <2>4. e \in SUBSET MintExtensions /\ u \in SUBSET MintAuthorities
    BY Zenon, <1>0, <2>1, MintSets
  <2> HIDE DEF e, u
  <2>2. mint' \in [Mints -> MintType]
    BY Zenon, <1>0, <2>3, <2>4, MintFields DEF TypeOK
  <2> QED
    BY Zenon, <1>2, <2>2
    DEF InitializeMintCloseAuthority, TypeOK, AccountsHaveMints, IsInitialized
<1>3. ASSUME NEW m \in Mints, NEW state \in {"Initialized", "Frozen"},
             InitializeDefaultAccountState(m, state)
      PROVE  Inv'
  <2>1. mint[m].extensions \cup {"DefaultAccountState"} \in SUBSET MintExtensions
    BY Zenon, <1>0 DEF MintType, MintExtensions
  <2>2. mint' \in [Mints -> MintType]
    BY Zenon, <1>0, <1>3, <2>1, MintFields DEF InitializeDefaultAccountState, TypeOK
  <2> QED
    BY Zenon, <1>3, <2>2
    DEF InitializeDefaultAccountState, TypeOK, AccountsHaveMints, IsInitialized
<1>4. ASSUME NEW m \in Mints, InitializeNonTransferableMint(m)
      PROVE  Inv'
  <2>1. mint[m].extensions \cup {"NonTransferable"} \in SUBSET MintExtensions
    BY Zenon, <1>0 DEF MintType, MintExtensions
  <2>2. mint' \in [Mints -> MintType]
    BY Zenon, <1>0, <1>4, <2>1, MintFields DEF InitializeNonTransferableMint, TypeOK
  <2> QED
    BY Zenon, <1>4, <2>2
    DEF InitializeNonTransferableMint, TypeOK, AccountsHaveMints, IsInitialized
<1>5. ASSUME NEW m \in Mints, NEW auths \in AuthorityChoices, InitializeMint(m, auths)
      PROVE  Inv'
  <2>1. mint' = [mint EXCEPT ![m] = [mint[m] EXCEPT
            !.is_initialized = TRUE,
            !.authorities = mint[m].authorities \cup auths]]
    BY Zenon, <1>0, <1>5 DEF InitializeMint, TypeOK
  <2>2. mint' \in [Mints -> MintType]
    BY Zenon, <1>0, <2>1, MintSets, MintFields DEF TypeOK
  <2> QED
    BY Zenon, <1>5, <2>2 DEF InitializeMint, TypeOK, AccountsHaveMints, IsInitialized
<1>6. ASSUME NEW a \in Accounts, InitializeImmutableOwner(a)
      PROVE  Inv'
  <2>1. account' \in [Accounts -> AccountType]
    BY <1>0, <1>6
    DEF InitializeImmutableOwner, TypeOK, AccountType, AccountExtensions
  <2>2. \A b \in Accounts : /\ account'[b].state = account[b].state
                            /\ account'[b].mint = account[b].mint
    BY Zenon, <1>0, <1>6 DEF InitializeImmutableOwner, TypeOK, AccountType
  <2> QED
    BY Zenon, <1>6, <2>1, <2>2
    DEF InitializeImmutableOwner, TypeOK, AccountsHaveMints, IsInitialized
<1>7. ASSUME NEW a \in Accounts, NEW m \in Mints, InitializeAccount(a, m)
      PROVE  Inv'
  <2> DEFINE state == IF MintHas(m, "DefaultAccountState")
                      THEN mint[m].default_state ELSE "Initialized"
  <2>1. state \in {"Uninitialized", "Initialized", "Frozen"}
    BY Zenon, <1>0 DEF MintType
  <2>2. RequiredExtensions(m) \subseteq AccountExtensions
    BY Zenon DEF RequiredExtensions, AccountExtensions
  <2>3. account' = [account EXCEPT ![a] = [account[a] EXCEPT
            !.state = state, !.mint = m,
            !.extensions = account[a].extensions \cup RequiredExtensions(m)]]
    BY Zenon, <1>7 DEF InitializeAccount
  <2> HIDE DEF state
  <2> DEFINE opened == [account[a] EXCEPT
            !.state = state, !.mint = m,
            !.extensions = account[a].extensions \cup RequiredExtensions(m)]
  <2>4. account' \in [Accounts -> AccountType]
    <3>1. account[a] \in AccountType /\ account \in [Accounts -> AccountType]
      BY Zenon DEF TypeOK
    <3>2. opened \in AccountType
      BY Zenon, <2>1, <2>2, <3>1 DEF AccountType
    <3> HIDE DEF opened
    <3> QED
      BY Zenon, <2>3, <3>1, <3>2 DEF opened
  <2>5. account'[a].mint = m /\ \A b \in Accounts : b # a => account'[b] = account[b]
    BY Zenon, <1>0, <2>3 DEF TypeOK, AccountType
  <2> QED
    BY Zenon, <1>7, <2>4, <2>5
    DEF InitializeAccount, TypeOK, AccountsHaveMints, IsInitialized
<1> QED
  BY Zenon, <1>1, <1>2, <1>3, <1>4, <1>5, <1>6, <1>7 DEF CreateNext

\* An allowance that covers the amount stays a natural number, and spending it
\* changes nothing else.
LEMMA Spend ==
  ASSUME NEW r \in AccountType, NEW by \in {"owner", "delegate"}, NEW n \in Amounts,
         by = "delegate" => r.delegated_amount >= n
  PROVE  LET q == SpendAllowance(r, by, n)
         IN  /\ q \in AccountType
             /\ q.state = r.state /\ q.mint = r.mint /\ q.amount = r.amount
             /\ q.withheld = r.withheld
<1>1. CASE by = "owner"
  BY Zenon, <1>1 DEF SpendAllowance
<1>2. CASE by # "owner"
  <2>1. r.delegated_amount - n \in Amounts
    BY <1>2, Numbers DEF AccountType
  <2>2. SpendAllowance(r, by, n) =
          [r EXCEPT !.delegated_amount = r.delegated_amount - n,
                    !.delegate = (r.delegated_amount # n)]
    BY Zenon, <1>2 DEF SpendAllowance
  <2>3. (r.delegated_amount # n) \in BOOLEAN
    BY Zenon
  <2>4. SpendAllowance(r, by, n) \in AccountType
    <3>1. \A k \in Amounts, d \in BOOLEAN :
             [r EXCEPT !.delegated_amount = k, !.delegate = d] \in AccountType
      BY Zenon, AccountFields
    <3> QED
      BY Zenon, <2>1, <2>2, <2>3, <3>1
  <2> QED
    BY Zenon, <2>2, <2>4 DEF AccountType
<1> QED
  BY Zenon, <1>1, <1>2

\* The fee of a transfer is a number of tokens of the amount.
LEMMA TransferFeeType ==
  ASSUME Inv, NEW src \in Accounts, IsInitialized(src), NEW n \in Amounts,
         NEW checked \in BOOLEAN
  PROVE  TransferFee(src, n, checked) \in Nat /\ TransferFee(src, n, checked) <= n
<1> DEFINE m == account[src].mint
<1>1. m \in Mints /\ n \in Nat
  BY Zenon, Numbers DEF Inv, AccountsHaveMints
<1>2. mint[m].older \in FeeType /\ mint[m].newer \in FeeType
  BY Zenon, <1>1 DEF Inv, TypeOK, MintType
<1>3. GetEpochFee(mint[m], epoch) \in FeeType
  BY Zenon, <1>2 DEF GetEpochFee
<1>4. /\ Calculate(GetEpochFee(mint[m], epoch), n) \in Nat
      /\ Calculate(GetEpochFee(mint[m], epoch), n) <= n
  BY Zenon, <1>1, <1>3, FeeIsLeast
<1> QED
  BY <1>1, <1>4 DEF TransferFee

\* What a transfer between two accounts does to them.
LEMMA TransferEffect ==
  ASSUME Inv, NEW src \in Accounts, NEW dst \in Accounts, NEW n \in Amounts,
         NEW by \in {"owner", "delegate"}, NEW checked \in BOOLEAN,
         NEW memo \in BOOLEAN, Transfer(src, dst, n, by, checked, memo), src # dst
  PROVE  /\ account' \in [Accounts -> AccountType]
         /\ \A a \in Accounts : /\ account'[a].state = account[a].state
                               /\ account'[a].mint = account[a].mint
         /\ account[src].state = "Initialized" /\ account[dst].state = "Initialized"
         /\ \A a \in Accounts \ {src, dst} : account'[a] = account[a]
<1> DEFINE fee == TransferFee(src, n, checked)
           q == SpendAllowance(account[src], by, n)
<1>1. account[src] \in AccountType /\ account[dst] \in AccountType
  BY Zenon DEF Inv, TypeOK
<1>2. account[src].state = "Initialized" /\ account[dst].state = "Initialized"
  BY Zenon DEF Transfer
<1>3. fee \in Nat /\ fee <= n
  BY Zenon, <1>2, TransferFeeType DEF IsInitialized
<1>4. q \in AccountType /\ q.state = account[src].state /\ q.mint = account[src].mint
      /\ q.amount = account[src].amount
  <2>1. by = "delegate" => account[src].delegated_amount >= n
    BY Zenon DEF Transfer, MayMove
  <2> QED
    BY Zenon, <1>1, <2>1, Spend
<1>5. MoveTokens(src, dst, n, fee, by)
  BY Zenon DEF Transfer
<1> HIDE DEF fee
<1>6. account' = [account EXCEPT
        ![src] = [q EXCEPT !.amount = q.amount - n],
        ![dst] = [account[dst] EXCEPT !.amount = account[dst].amount + (n - fee),
                                      !.withheld = account[dst].withheld + fee]]
  BY Zenon, <1>1, <1>4, <1>5 DEF MoveTokens
<1> HIDE DEF q
<1>7. q.amount - n \in Amounts
  <2>1. account[src].amount >= n
    BY Zenon DEF Transfer
  <2> QED
    BY <1>1, <1>4, <2>1, Numbers DEF AccountType
<1>8. /\ account[dst].amount + (n - fee) \in Amounts
      /\ account[dst].withheld + fee \in Amounts
  <2>1. account[dst].amount \in Amounts /\ account[dst].withheld \in Amounts
    BY Zenon, <1>1 DEF AccountType
  <2>2. account[dst].amount + (n - fee) <= MaxU64
    BY Zenon, <1>5 DEF MoveTokens
  <2>3. fee > 0 => account[dst].withheld + fee <= MaxU64
    BY Zenon, <1>5 DEF MoveTokens
  <2> QED
    BY <1>3, <2>1, <2>2, <2>3, Numbers
<1>9. /\ [q EXCEPT !.amount = q.amount - n] \in AccountType
      /\ [account[dst] EXCEPT !.amount = account[dst].amount + (n - fee),
                              !.withheld = account[dst].withheld + fee] \in AccountType
  BY Zenon, <1>1, <1>4, <1>7, <1>8, AccountFields
<1>10. account' \in [Accounts -> AccountType]
  BY Zenon, <1>6, <1>9 DEF Inv, TypeOK
<1>11. \A a \in Accounts : /\ account'[a].state = account[a].state
                           /\ account'[a].mint = account[a].mint
  BY Zenon, <1>1, <1>4, <1>6 DEF Inv, TypeOK, AccountType
<1>12. \A a \in Accounts \ {src, dst} : account'[a] = account[a]
  BY Zenon, <1>6 DEF Inv, TypeOK
<1> QED
  BY Zenon, <1>2, <1>10, <1>11, <1>12

\* Transfers, minting and burning keep amounts and supplies in u64.
LEMMA MoveInv == Inv /\ MoveNext => Inv'
<1> SUFFICES ASSUME Inv, MoveNext PROVE Inv'
  BY Zenon
<1>0. /\ \A m \in Mints : mint[m] \in MintType
      /\ \A a \in Accounts : account[a] \in AccountType
  BY Zenon DEF Inv, TypeOK
<1>1. ASSUME NEW a \in Accounts, NEW n \in Amounts, NEW b \in Accounts,
             NEW by \in {"owner", "delegate"}, NEW checked \in BOOLEAN,
             NEW memo \in BOOLEAN, Transfer(a, b, n, by, checked, memo)
      PROVE  Inv'
  <2>1. UNCHANGED <<mint, epoch>>
    BY Zenon, <1>1 DEF Transfer
  <2>2. CASE a = b
    BY Zenon, <1>1, <2>1, <2>2
    DEF Transfer, Inv, TypeOK, AccountsHaveMints, IsInitialized
  <2>3. CASE a # b
    BY <1>1, <2>1, <2>3, TransferEffect
    DEF Inv, TypeOK, AccountsHaveMints, IsInitialized
  <2> QED
    BY Zenon, <2>2, <2>3
<1>2. ASSUME NEW a \in Accounts, NEW n \in Amounts, NEW m \in Mints, MintTo(m, a, n)
      PROVE  Inv'
  <2>1. account[a].amount + n \in Amounts /\ mint[m].supply + n \in Amounts
    BY <1>0, <1>2, Numbers DEF MintTo, AccountType, MintType
  <2>2. /\ account' = [account EXCEPT ![a] = [account[a] EXCEPT
                !.amount = account[a].amount + n]]
        /\ mint' = [mint EXCEPT ![m] = [mint[m] EXCEPT
                !.supply = mint[m].supply + n]]
    BY Zenon, <1>0, <1>2 DEF MintTo, Inv, TypeOK
  <2>3. account' \in [Accounts -> AccountType] /\ mint' \in [Mints -> MintType]
    BY Zenon, <1>0, <2>1, <2>2, AccountFields, MintFields DEF Inv, TypeOK
  <2>4. \A b \in Accounts : /\ account'[b].state = account[b].state
                            /\ account'[b].mint = account[b].mint
    BY Zenon, <1>0, <2>2 DEF Inv, TypeOK, AccountType
  <2> QED
    BY Zenon, <1>2, <2>3, <2>4 DEF MintTo, Inv, TypeOK, AccountsHaveMints, IsInitialized
<1>3. ASSUME NEW a \in Accounts, NEW n \in Amounts, NEW m \in Mints,
             NEW by \in {"owner", "delegate"}, Burn(a, m, n, by)
      PROVE  Inv'
  <2> DEFINE q == SpendAllowance(account[a], by, n)
  <2>1. account[a].amount - n \in Amounts /\ mint[m].supply - n \in Amounts
    BY <1>0, <1>3, Numbers DEF Burn, AccountType, MintType
  <2>2. q \in AccountType /\ q.state = account[a].state /\ q.mint = account[a].mint
        /\ q.amount = account[a].amount
    <3>1. by = "delegate" => account[a].delegated_amount >= n
      BY Zenon, <1>3 DEF Burn, MayMove
    <3> QED
      BY Zenon, <1>0, <3>1, Spend
  <2>3. /\ account' = [account EXCEPT ![a] = [q EXCEPT !.amount = q.amount - n]]
        /\ mint' = [mint EXCEPT ![m] = [mint[m] EXCEPT
                !.supply = mint[m].supply - n]]
    BY Zenon, <1>0, <1>3, <2>2 DEF Burn, Inv, TypeOK
  <2> HIDE DEF q
  <2>4. account' \in [Accounts -> AccountType] /\ mint' \in [Mints -> MintType]
    BY Zenon, <1>0, <2>1, <2>2, <2>3, AccountFields, MintFields DEF Inv, TypeOK
  <2>5. \A b \in Accounts : /\ account'[b].state = account[b].state
                            /\ account'[b].mint = account[b].mint
    BY Zenon, <1>0, <2>2, <2>3 DEF Inv, TypeOK, AccountType
  <2> QED
    BY Zenon, <1>3, <2>4, <2>5 DEF Burn, Inv, TypeOK, AccountsHaveMints, IsInitialized
<1> QED
  <2>1. PICK a \in Accounts, n \in Amounts :
          \/ \E b \in Accounts, by \in {"owner", "delegate"}, checked, memo \in BOOLEAN :
                Transfer(a, b, n, by, checked, memo)
          \/ \E m \in Mints : MintTo(m, a, n)
          \/ \E m \in Mints, by \in {"owner", "delegate"} : Burn(a, m, n, by)
    BY Zenon DEF MoveNext
  <2>2. CASE \E b \in Accounts, by \in {"owner", "delegate"}, checked, memo \in BOOLEAN :
               Transfer(a, b, n, by, checked, memo)
    BY Zenon, <2>2, <1>1
  <2>3. CASE \E m \in Mints : MintTo(m, a, n)
    BY Zenon, <2>3, <1>2
  <2>4. CASE \E m \in Mints, by \in {"owner", "delegate"} : Burn(a, m, n, by)
    BY Zenon, <2>4, <1>3
  <2> QED
    BY Zenon, <2>1, <2>2, <2>3, <2>4

\* Setting fees and collecting withheld ones keep the invariant.
LEMMA FeeInv == Inv /\ FeeNext => Inv'
<1> SUFFICES ASSUME Inv, FeeNext PROVE Inv'
  BY Zenon
<1>0. /\ \A m \in Mints : mint[m] \in MintType
      /\ \A a \in Accounts : account[a] \in AccountType
      /\ epoch \in Nat /\ 0 \in Amounts
  BY Token2022Assumption, Numbers DEF Inv, TypeOK, Epochs
<1>1. ASSUME NEW m \in Mints, NEW fee \in Fees, SetTransferFee(m, fee)
      PROVE  Inv'
  <2>1. OlderFee(mint[m]) \in FeeType
    BY Zenon, <1>0 DEF OlderFee, MintType
  <2>2. NewerFee(fee) \in FeeType
    BY <1>0, <1>1, SetFeeType DEF SetTransferFee, NewerFee
  <2>3. mint' \in [Mints -> MintType]
    BY Zenon, <1>0, <1>1, <2>1, <2>2, MintFields DEF SetTransferFee, Inv, TypeOK
  <2> QED
    BY Zenon, <1>1, <2>3 DEF SetTransferFee, Inv, TypeOK, AccountsHaveMints, IsInitialized
<1>2. ASSUME NEW m \in Mints, NEW list \in SUBSET Accounts,
             HarvestWithheldTokensToMint(m, list)
      PROVE  Inv'
  <2> DEFINE harvest == Harvestable(m, list)
             w == WithheldIn(harvest)
  <2>1. /\ mint[m].withheld + w \in Amounts
        /\ mint' = [mint EXCEPT ![m] = [mint[m] EXCEPT !.withheld = mint[m].withheld + w]]
        /\ account' = [a \in Accounts |->
               IF a \in harvest THEN [account[a] EXCEPT !.withheld = 0] ELSE account[a]]
        /\ UNCHANGED epoch
    BY Zenon, <1>0, <1>2 DEF HarvestWithheldTokensToMint, Inv, TypeOK
  <2> HIDE DEF harvest, w
  <2>2. account' \in [Accounts -> AccountType] /\ mint' \in [Mints -> MintType]
    BY Zenon, <1>0, <2>1, AccountFields, MintFields DEF Inv, TypeOK
  <2>3. \A a \in Accounts : /\ account'[a].state = account[a].state
                            /\ account'[a].mint = account[a].mint
    BY Zenon, <1>0, <2>1 DEF AccountType
  <2> QED
    BY Zenon, <2>1, <2>2, <2>3 DEF Inv, TypeOK, AccountsHaveMints, IsInitialized
<1>3. ASSUME NEW m \in Mints, NEW a \in Accounts, WithdrawWithheldTokensFromMint(m, a)
      PROVE  Inv'
  <2>1. account[a].amount + mint[m].withheld \in Amounts
    BY <1>0, <1>3, Numbers DEF WithdrawWithheldTokensFromMint, AccountType, MintType
  <2>2. /\ account' = [account EXCEPT ![a] = [account[a] EXCEPT
                !.amount = account[a].amount + mint[m].withheld]]
        /\ mint' = [mint EXCEPT ![m] = [mint[m] EXCEPT !.withheld = 0]]
    BY Zenon, <1>0, <1>3 DEF WithdrawWithheldTokensFromMint, Inv, TypeOK
  <2>3. account' \in [Accounts -> AccountType] /\ mint' \in [Mints -> MintType]
    BY Zenon, <1>0, <2>1, <2>2, AccountFields, MintFields DEF Inv, TypeOK
  <2>4. \A b \in Accounts : /\ account'[b].state = account[b].state
                            /\ account'[b].mint = account[b].mint
    BY Zenon, <1>0, <2>2 DEF Inv, TypeOK, AccountType
  <2> QED
    BY Zenon, <1>3, <2>3, <2>4
    DEF WithdrawWithheldTokensFromMint, Inv, TypeOK, AccountsHaveMints, IsInitialized
<1>4. ASSUME NEW m \in Mints, NEW dst \in Accounts, NEW list \in SUBSET Accounts,
             WithdrawWithheldTokensFromAccounts(m, dst, list)
      PROVE  Inv'
  <2> DEFINE harvest == Harvestable(m, list)
             w == WithheldIn(harvest)
  <2>1. /\ account[dst].amount + w \in Amounts
        /\ account' = [a \in Accounts |-> [account[a] EXCEPT
               !.withheld = IF a \in harvest THEN 0 ELSE account[a].withheld,
               !.amount = IF a = dst THEN account[a].amount + w ELSE account[a].amount]]
        /\ UNCHANGED <<mint, epoch>>
    BY Zenon, <1>4 DEF WithdrawWithheldTokensFromAccounts
  <2> HIDE DEF harvest, w
  <2>2. ASSUME NEW a \in Accounts
        PROVE  /\ (IF a \in harvest THEN 0 ELSE account[a].withheld) \in Amounts
               /\ (IF a = dst THEN account[a].amount + w ELSE account[a].amount) \in Amounts
    BY Zenon, <1>0, <2>1 DEF AccountType
  <2>3. account' \in [Accounts -> AccountType]
    BY Zenon, <1>0, <2>1, <2>2, AccountFields
  <2>4. \A a \in Accounts : /\ account'[a].state = account[a].state
                            /\ account'[a].mint = account[a].mint
    BY Zenon, <1>0, <2>1 DEF AccountType
  <2> QED
    BY Zenon, <2>1, <2>3, <2>4 DEF Inv, TypeOK, AccountsHaveMints, IsInitialized
<1> QED
  BY Zenon, <1>1, <1>2, <1>3, <1>4 DEF FeeNext

\* Instructions of owners and authorities keep the invariant.
LEMMA AuthorityInv == Inv /\ AuthorityNext => Inv'
<1> SUFFICES ASSUME Inv, AuthorityNext PROVE Inv'
  BY Zenon
<1>0. /\ \A m \in Mints : mint[m] \in MintType
      /\ \A a \in Accounts : account[a] \in AccountType
      /\ 0 \in Amounts /\ Allowances \subseteq Amounts
  BY Token2022Assumption, Numbers DEF Inv, TypeOK
<1> DEFINE Delegated(a, d, n) ==
             /\ account' = [account EXCEPT ![a].delegate = d, ![a].delegated_amount = n]
             /\ UNCHANGED <<mint, epoch>>
<1>1. ASSUME NEW a \in Accounts, NEW d \in BOOLEAN, NEW n \in Amounts,
             Delegated(a, d, n)
      PROVE  Inv'
  <2>3. account' = [account EXCEPT ![a] = [account[a] EXCEPT
            !.delegate = d, !.delegated_amount = n]]
    BY Zenon, <1>0, <1>1 DEF Inv, TypeOK
  <2>1. account' \in [Accounts -> AccountType]
    BY Zenon, <1>0, <2>3, AccountFields DEF Inv, TypeOK
  <2>2. \A b \in Accounts : /\ account'[b].state = account[b].state
                            /\ account'[b].mint = account[b].mint
    BY Zenon, <1>0, <1>1 DEF Inv, TypeOK, AccountType
  <2> QED
    BY Zenon, <1>1, <2>1, <2>2 DEF Inv, TypeOK, AccountsHaveMints, IsInitialized
<1>2. ASSUME NEW a \in Accounts, NEW n \in Allowances, Approve(a, n)
      PROVE  Inv'
  BY Zenon, <1>0, <1>1, <1>2 DEF Approve
<1>3. ASSUME NEW a \in Accounts, Revoke(a) \/ SetAccountOwner(a)
      PROVE  Inv'
  BY Zenon, <1>0, <1>1, <1>3 DEF Revoke, SetAccountOwner
<1>4. ASSUME NEW a \in Accounts, NEW m \in Mints, NEW freeze \in BOOLEAN,
             ToggleFreeze(a, m, freeze)
      PROVE  Inv'
  <2>1. account' \in [Accounts -> AccountType]
    BY <1>0, <1>4 DEF ToggleFreeze, Inv, TypeOK, AccountType
  <2>2. account[a].mint = m
    BY Zenon, <1>4 DEF ToggleFreeze
  <2>3. \A b \in Accounts : /\ account'[b].mint = account[b].mint
                            /\ b # a => account'[b].state = account[b].state
    BY Zenon, <1>0, <1>4 DEF ToggleFreeze, Inv, TypeOK, AccountType
  <2> QED
    BY Zenon, <1>4, <2>1, <2>2, <2>3
    DEF ToggleFreeze, Inv, TypeOK, AccountsHaveMints, IsInitialized
<1>5. ASSUME NEW a \in Accounts, NEW required \in BOOLEAN, RequireMemo(a, required)
      PROVE  Inv'
  <2>1. account[a].extensions \cup {"MemoTransfer"} \in SUBSET AccountExtensions
    BY Zenon, <1>0 DEF AccountType, AccountExtensions
  <2>4. account' = [account EXCEPT ![a] = [account[a] EXCEPT
            !.extensions = account[a].extensions \cup {"MemoTransfer"},
            !.require_memo = required]]
    BY Zenon, <1>0, <1>5 DEF RequireMemo, Inv, TypeOK
  <2>2. account' \in [Accounts -> AccountType]
    BY Zenon, <1>0, <2>1, <2>4, AccountFields DEF Inv, TypeOK
  <2>3. \A b \in Accounts : /\ account'[b].state = account[b].state
                            /\ account'[b].mint = account[b].mint
    BY Zenon, <1>0, <1>5 DEF RequireMemo, Inv, TypeOK, AccountType
  <2> QED
    BY Zenon, <1>5, <2>2, <2>3
    DEF RequireMemo, Inv, TypeOK, AccountsHaveMints, IsInitialized
<1>6. ASSUME NEW a \in Accounts, CloseAccount(a)
      PROVE  Inv'
  <2>1. account' \in [Accounts -> AccountType]
    BY Zenon, <1>6, ZeroTypes DEF CloseAccount, Inv, TypeOK
  <2>2. \A b \in Accounts : account'[b] = account[b] \/ account'[b] = NoAccount
    BY Zenon, <1>6 DEF CloseAccount, Inv, TypeOK
  <2>3. NoAccount.state = "Uninitialized"
    BY Zenon DEF NoAccount
  <2> QED
    BY Zenon, <1>6, <2>1, <2>2, <2>3
    DEF CloseAccount, Inv, TypeOK, AccountsHaveMints, IsInitialized
<1>7. ASSUME NEW m \in Mints, NEW kind \in Droppable, DropAuthority(m, kind)
      PROVE  Inv'
  <2>1. mint[m].authorities \ {kind} \in SUBSET MintAuthorities
    BY Zenon, <1>0 DEF MintType
  <2>2. mint' = [mint EXCEPT ![m] = [mint[m] EXCEPT
            !.authorities = mint[m].authorities \ {kind}]]
    BY Zenon, <1>0, <1>7 DEF DropAuthority, Inv, TypeOK
  <2>3. mint' \in [Mints -> MintType]
    BY Zenon, <1>0, <2>1, <2>2, MintFields DEF Inv, TypeOK
  <2> QED
    BY Zenon, <1>7, <2>3 DEF DropAuthority, Inv, TypeOK, AccountsHaveMints, IsInitialized
<1>8. ASSUME NEW m \in Mints, NEW state \in {"Initialized", "Frozen"},
             UpdateDefaultAccountState(m, state)
      PROVE  Inv'
  <2>1. mint' \in [Mints -> MintType]
    BY Zenon, <1>0, <1>8 DEF UpdateDefaultAccountState, Inv, TypeOK, MintType
  <2> QED
    BY Zenon, <1>8, <2>1
    DEF UpdateDefaultAccountState, Inv, TypeOK, AccountsHaveMints, IsInitialized
<1>9. ASSUME NEW m \in Mints, CloseMint(m)
      PROVE  Inv'
  <2>1. mint' \in [Mints -> MintType]
    BY Zenon, <1>9, ZeroTypes DEF CloseMint, Inv, TypeOK
  <2> QED
    BY Zenon, <1>9, <2>1 DEF CloseMint, Inv, TypeOK, AccountsHaveMints, IsInitialized
<1> QED
  BY Zenon, <1>2, <1>3, <1>4, <1>5, <1>6, <1>7, <1>8, <1>9 DEF AuthorityNext

\* The invariant is inductive.
LEMMA InvInductive == (Init => Inv) /\ (Inv /\ [Next]_vars => Inv')
<1>1. Init => Inv
  <2> SUFFICES ASSUME Init PROVE Inv
    BY Zenon
  <2>1. 0 \in Epochs
    BY Token2022Assumption DEF Epochs
  <2>2. \A a \in Accounts : account[a].state = "Uninitialized"
    BY Zenon DEF Init, NoAccount
  <2> QED
    BY Zenon, <2>1, <2>2, ZeroTypes DEF Init, Inv, TypeOK, AccountsHaveMints, IsInitialized
<1>2. Inv /\ NextEpoch => Inv'
  <2> SUFFICES ASSUME Inv, NextEpoch PROVE Inv'
    BY Zenon
  <2>1. epoch + 1 \in Epochs
    BY Token2022Assumption DEF NextEpoch, Inv, TypeOK, Epochs
  <2> QED
    BY Zenon, <2>1 DEF NextEpoch, Inv, TypeOK, AccountsHaveMints, IsInitialized
<1>3. Inv /\ UNCHANGED vars => Inv'
  BY Zenon DEF vars, Inv, TypeOK, AccountsHaveMints, IsInitialized
<1> QED
  BY Zenon, <1>1, <1>2, <1>3, CreateInv, MoveInv, FeeInv, AuthorityInv DEF Next

\* Amounts, supplies and withheld fees stay in u64, allowances never become
\* negative, and fees never exceed the whole amount.
THEOREM TypeCorrect == Spec => []TypeOK
<1>1. Inv => TypeOK
  BY DEF Inv
<1> QED
  BY <1>1, InvInductive, PTL DEF Spec

\* The same for the whole invariant.
LEMMA InvCorrect == Spec => []Inv
  BY InvInductive, PTL DEF Spec

-----------------------------------------------------------------------------
(* The fee schedule *)

\* What a step does to the fee schedule of a mint: nothing, or it is written
\* before the mint is used, by SetTransferFee, or erased with the mint.
SameFees(m) == mint'[m].older = mint[m].older /\ mint'[m].newer = mint[m].newer
FirstFees(m) ==
    /\ ~mint[m].is_initialized /\ epoch' = epoch
    /\ mint'[m].older.epoch = epoch /\ mint'[m].newer = mint'[m].older
NextFees(m) ==
    /\ epoch' = epoch
    /\ mint'[m].older = OlderFee(mint[m]) /\ mint'[m].newer.epoch = epoch + 2
ErasedFees(m) == mint'[m] = NoMint /\ epoch' = epoch

\* These are the only ways in which a step changes the schedule.
LEMMA FeeSteps ==
  ASSUME Inv, [Next]_vars, NEW m \in Mints
  PROVE  \/ SameFees(m) /\ epoch' \in {epoch, epoch + 1}
         \/ FirstFees(m) \/ NextFees(m) \/ ErasedFees(m)
<1> DEFINE Goal == \/ SameFees(m) /\ epoch' \in {epoch, epoch + 1}
                   \/ FirstFees(m) \/ NextFees(m) \/ ErasedFees(m)
<1> SUFFICES Goal
  BY Zenon
<1>0. mint \in [Mints -> MintType]
  BY Zenon DEF Inv, TypeOK
<1>1. CASE CreateNext
  <2>1. ASSUME NEW k \in Mints, NEW fee \in Fees, NEW auths \in AuthorityChoices,
               InitializeTransferFeeConfig(k, fee, auths)
        PROVE  Goal
    <3>1. CASE k = m
      BY Zenon, <1>0, <2>1, <3>1 DEF InitializeTransferFeeConfig, FirstFees, MintType
    <3>2. CASE k # m
      BY Zenon, <1>0, <2>1, <3>2 DEF InitializeTransferFeeConfig, SameFees
    <3> QED
      BY Zenon, <3>1, <3>2
  <2>2. ASSUME NEW k \in Mints, NEW auths \in AuthorityChoices,
               \/ InitializeMintCloseAuthority(k, auths) \/ InitializeMint(k, auths)
        PROVE  Goal
    <3>1. CASE InitializeMintCloseAuthority(k, auths)
      BY Zenon, <1>0, <3>1 DEF InitializeMintCloseAuthority, SameFees, MintType
    <3>2. CASE InitializeMint(k, auths)
      BY Zenon, <1>0, <3>2 DEF InitializeMint, SameFees, MintType
    <3> QED
      BY Zenon, <2>2, <3>1, <3>2
  <2>3. ASSUME NEW k \in Mints,
               \/ \E state \in {"Initialized", "Frozen"} :
                    InitializeDefaultAccountState(k, state)
               \/ InitializeNonTransferableMint(k)
        PROVE  Goal
    <3>1. ASSUME NEW state \in {"Initialized", "Frozen"},
                 InitializeDefaultAccountState(k, state)
          PROVE  Goal
      BY Zenon, <1>0, <3>1 DEF InitializeDefaultAccountState, SameFees, MintType
    <3>2. CASE InitializeNonTransferableMint(k)
      BY Zenon, <1>0, <3>2 DEF InitializeNonTransferableMint, SameFees, MintType
    <3> QED
      BY Zenon, <2>3, <3>1, <3>2
  <2>4. ASSUME NEW a \in Accounts, \/ InitializeImmutableOwner(a)
                                   \/ \E k \in Mints : InitializeAccount(a, k)
        PROVE  Goal
    BY Zenon, <2>4 DEF InitializeImmutableOwner, InitializeAccount, SameFees
  <2> QED
    BY Zenon, <1>1, <2>1, <2>2, <2>3, <2>4 DEF CreateNext
<1>2. CASE MoveNext
  <2>1. epoch' = epoch
    BY <1>2 DEF MoveNext, Transfer, MintTo, Burn
  <2>2. SameFees(m)
    BY <1>0, <1>2 DEF MoveNext, Transfer, MintTo, Burn, SameFees, MintType
  <2> QED
    BY Zenon, <2>1, <2>2
<1>3. CASE FeeNext
  <2>1. ASSUME NEW k \in Mints, NEW fee \in Fees, SetTransferFee(k, fee)
        PROVE  Goal
    <3>1. CASE k = m
      BY Zenon, <1>0, <2>1, <3>1 DEF SetTransferFee, NewerFee, NextFees, MintType
    <3>2. CASE k # m
      BY Zenon, <1>0, <2>1, <3>2 DEF SetTransferFee, SameFees
    <3> QED
      BY Zenon, <3>1, <3>2
  <2>2. ASSUME NEW k \in Mints, NEW list \in SUBSET Accounts,
               HarvestWithheldTokensToMint(k, list)
        PROVE  Goal
    BY Zenon, <1>0, <2>2 DEF HarvestWithheldTokensToMint, SameFees, MintType
  <2>3. ASSUME NEW k \in Mints, NEW a \in Accounts,
               \/ WithdrawWithheldTokensFromMint(k, a)
               \/ \E list \in SUBSET Accounts :
                    WithdrawWithheldTokensFromAccounts(k, a, list)
        PROVE  Goal
    <3>1. CASE WithdrawWithheldTokensFromMint(k, a)
      BY Zenon, <1>0, <3>1 DEF WithdrawWithheldTokensFromMint, SameFees, MintType
    <3>2. ASSUME NEW list \in SUBSET Accounts,
                 WithdrawWithheldTokensFromAccounts(k, a, list)
          PROVE  Goal
      BY Zenon, <3>2 DEF WithdrawWithheldTokensFromAccounts, SameFees
    <3> QED
      BY Zenon, <2>3, <3>1, <3>2
  <2> QED
    BY Zenon, <1>3, <2>1, <2>2, <2>3 DEF FeeNext
<1>4. CASE AuthorityNext
  <2>1. ASSUME NEW a \in Accounts,
               \/ \E n \in Allowances : Approve(a, n)
               \/ Revoke(a) \/ SetAccountOwner(a) \/ CloseAccount(a)
               \/ \E k \in Mints, freeze \in BOOLEAN : ToggleFreeze(a, k, freeze)
               \/ \E required \in BOOLEAN : RequireMemo(a, required)
        PROVE  Goal
    <3>1. UNCHANGED <<mint, epoch>>
      BY Zenon, <2>1 DEF Approve, Revoke, SetAccountOwner, CloseAccount, ToggleFreeze,
                  RequireMemo
    <3> QED
      BY Zenon, <3>1 DEF SameFees
  <2>2. ASSUME NEW k \in Mints,
               \/ \E kind \in Droppable : DropAuthority(k, kind)
               \/ \E state \in {"Initialized", "Frozen"} :
                    UpdateDefaultAccountState(k, state)
        PROVE  Goal
    <3>1. ASSUME NEW kind \in Droppable, DropAuthority(k, kind) PROVE Goal
      BY Zenon, <1>0, <3>1 DEF DropAuthority, SameFees, MintType
    <3>2. ASSUME NEW state \in {"Initialized", "Frozen"},
                 UpdateDefaultAccountState(k, state)
          PROVE  Goal
      BY Zenon, <1>0, <3>2 DEF UpdateDefaultAccountState, SameFees, MintType
    <3> QED
      BY Zenon, <2>2, <3>1, <3>2
  <2>3. ASSUME NEW k \in Mints, CloseMint(k)
        PROVE  Goal
    BY Zenon, <1>0, <2>3 DEF CloseMint, SameFees, ErasedFees
  <2> QED
    BY Zenon, <1>4, <2>1, <2>2, <2>3 DEF AuthorityNext
<1>5. CASE NextEpoch
  BY Zenon, <1>5 DEF NextEpoch, SameFees
<1>6. CASE UNCHANGED vars
  BY Zenon, <1>6 DEF vars, SameFees
<1> HIDE DEF Goal
<1> QED
  BY Zenon, <1>1, <1>2, <1>3, <1>4, <1>5, <1>6 DEF Next

\* set_transfer_fee never makes an announced fee the older one: the older fee
\* is one that has been in effect.
THEOREM FeesAlwaysInOrder == Spec => []FeesInOrder
<1>1. Init => FeesInOrder
  <2> SUFFICES ASSUME Init PROVE FeesInOrder
    BY Zenon
  <2>1. \A m \in Mints : mint[m].older.epoch = 0 /\ mint[m].newer.epoch = 0
    BY Zenon DEF Init, NoMint, NoFee
  <2> QED
    BY <2>1 DEF Init, FeesInOrder
<1>2. ASSUME Inv, FeesInOrder, [Next]_vars PROVE FeesInOrder'
  <2> SUFFICES ASSUME NEW m \in Mints
               PROVE  /\ mint'[m].older.epoch <= epoch'
                      /\ mint'[m].older.epoch <= mint'[m].newer.epoch
                      /\ mint'[m].newer.epoch <= epoch' + 2
    BY Zenon DEF FeesInOrder
  <2>1. /\ mint[m].older.epoch \in Nat /\ mint[m].newer.epoch \in Nat
        /\ epoch \in Nat
    BY <1>2, Token2022Assumption DEF Inv, TypeOK, MintType, FeeType, Epochs
  <2>2. /\ mint[m].older.epoch <= epoch
        /\ mint[m].older.epoch <= mint[m].newer.epoch
        /\ mint[m].newer.epoch <= epoch + 2
    BY Zenon, <1>2 DEF FeesInOrder
  <2>3. CASE SameFees(m) /\ epoch' \in {epoch, epoch + 1}
    BY <2>1, <2>2, <2>3 DEF SameFees
  <2>4. CASE FirstFees(m)
    BY <2>1, <2>4 DEF FirstFees
  <2>5. CASE NextFees(m)
    <3>1. OlderFee(mint[m]).epoch \in Nat /\ OlderFee(mint[m]).epoch <= epoch
      BY Zenon, <2>1, <2>2 DEF OlderFee
    <3> QED
      BY <2>1, <2>5, <3>1 DEF NextFees
  <2>6. CASE ErasedFees(m)
    <3>1. mint'[m].older.epoch = 0 /\ mint'[m].newer.epoch = 0 /\ epoch' = epoch
      BY <2>6 DEF ErasedFees, NoMint, NoFee
    <3> QED
      BY <2>1, <3>1
  <2> QED
    BY <1>2, <2>3, <2>4, <2>5, <2>6, FeeSteps
<1> QED
  BY <1>1, <1>2, InvCorrect, PTL DEF Spec

\* Nobody is surprised by a fee: SetTransferFee changes neither the fee of the
\* current epoch nor brings an unannounced one for the next.
THEOREM FeesAlwaysAnnounced == Spec => FeesAreAnnounced
<1> DEFINE Announced ==
      \A m \in Mints : mint[m].is_initialized /\ mint'[m].is_initialized =>
          /\ GetEpochFee(mint'[m], epoch) = GetEpochFee(mint[m], epoch)
          /\ GetEpochFee(mint'[m], epoch + 1) \in
                 {GetEpochFee(mint[m], epoch), GetEpochFee(mint[m], epoch + 1)}
<1>1. ASSUME Inv, [Next]_vars PROVE Announced
  <2> SUFFICES ASSUME NEW m \in Mints, mint[m].is_initialized, mint'[m].is_initialized
               PROVE  /\ GetEpochFee(mint'[m], epoch) = GetEpochFee(mint[m], epoch)
                      /\ GetEpochFee(mint'[m], epoch + 1) \in
                           {GetEpochFee(mint[m], epoch), GetEpochFee(mint[m], epoch + 1)}
    BY Zenon
  <2>1. epoch \in Nat /\ mint[m].newer.epoch \in Nat
    BY <1>1, Token2022Assumption DEF Inv, TypeOK, MintType, FeeType, Epochs
  <2>2. CASE SameFees(m)
    BY Zenon, <2>2 DEF SameFees, GetEpochFee
  <2>3. CASE NextFees(m)
    <3>1. ~(epoch >= mint'[m].newer.epoch) /\ ~(epoch + 1 >= mint'[m].newer.epoch)
      BY <2>1, <2>3 DEF NextFees
    <3>2. OlderFee(mint[m]) = GetEpochFee(mint[m], epoch)
      BY Zenon, <2>1 DEF OlderFee, GetEpochFee
    <3>3. mint'[m].older = OlderFee(mint[m])
      BY Zenon, <2>3 DEF NextFees
    <3> QED
      BY Zenon, <3>1, <3>2, <3>3 DEF GetEpochFee
  <2>4. ~FirstFees(m) /\ ~ErasedFees(m)
    BY DEF FirstFees, ErasedFees, NoMint
  <2> QED
    BY Zenon, <1>1, <2>2, <2>3, <2>4, FeeSteps
<1>2. Inv /\ [Next]_vars => [Announced]_vars
  BY Zenon, <1>1
<1> HIDE DEF Announced
<1>3. Spec => [][Announced]_vars
  BY <1>2, InvCorrect, PTL DEF Spec
<1> QED
  BY Zenon, <1>3 DEF FeesAreAnnounced, Announced

-----------------------------------------------------------------------------
(* Frozen accounts *)

\* No instruction moves the tokens of a frozen account or pays fees into it;
\* it can be closed only when it is empty.
THEOREM FrozenAlwaysStill == Spec => FrozenIsStill
<1> DEFINE Still(a) ==
             \/ /\ account'[a].mint = account[a].mint
                /\ account'[a].amount = account[a].amount
                /\ account'[a].delegate = account[a].delegate
                /\ account'[a].delegated_amount = account[a].delegated_amount
             \/ account[a].amount = 0 /\ account'[a] = NoAccount
           AllStill == \A a \in Accounts : account[a].state = "Frozen" => Still(a)
<1>1. ASSUME Inv, [Next]_vars, NEW a \in Accounts, account[a].state = "Frozen"
      PROVE  Still(a)
  <2>0. /\ account \in [Accounts -> AccountType] /\ account[a] \in AccountType
        /\ account[a].state # "Initialized" /\ IsInitialized(a)
    BY Zenon, <1>1 DEF Inv, TypeOK, IsInitialized
  <2>1. CASE account' = account
    BY Zenon, <2>1
  <2>2. CASE CreateNext
    <3>1. \/ account' = account
          \/ \E b \in Accounts : /\ ~IsInitialized(b)
                                 /\ \/ InitializeImmutableOwner(b)
                                    \/ \E m \in Mints : InitializeAccount(b, m)
      BY Zenon, <2>2 DEF CreateNext, InitializeTransferFeeConfig,
           InitializeMintCloseAuthority, InitializeDefaultAccountState,
           InitializeNonTransferableMint, InitializeMint,
           InitializeImmutableOwner, InitializeAccount
    <3>2. account' = account \/ account'[a] = account[a]
      BY Zenon, <2>0, <3>1 DEF InitializeImmutableOwner, InitializeAccount
    <3> QED
      BY Zenon, <2>1, <3>2
  <2>3. CASE MoveNext
    <3>1. ASSUME NEW b \in Accounts, NEW n \in Amounts, NEW c \in Accounts,
                 NEW by \in {"owner", "delegate"}, NEW checked \in BOOLEAN,
                 NEW memo \in BOOLEAN, Transfer(b, c, n, by, checked, memo)
          PROVE  Still(a)
      <4>1. CASE b = c
        BY Zenon, <2>1, <3>1, <4>1 DEF Transfer
      <4>2. CASE b # c
        <5>1. /\ account[b].state = "Initialized" /\ account[c].state = "Initialized"
              /\ \A d \in Accounts \ {b, c} : account'[d] = account[d]
          BY <1>1, <3>1, <4>2, TransferEffect
        <5>2. account'[a] = account[a]
          BY Zenon, <2>0, <5>1
        <5> QED
          BY Zenon, <5>2
      <4> QED
        BY Zenon, <4>1, <4>2
    <3>2. ASSUME NEW b \in Accounts, NEW n \in Amounts, NEW m \in Mints, MintTo(m, b, n)
          PROVE  account'[a] = account[a]
      BY Zenon, <2>0, <3>2 DEF MintTo
    <3>3. ASSUME NEW b \in Accounts, NEW n \in Amounts, NEW m \in Mints,
                 NEW by \in {"owner", "delegate"}, Burn(b, m, n, by)
          PROVE  account'[a] = account[a]
      BY Zenon, <2>0, <3>3 DEF Burn
    <3> QED
      BY <2>3, <3>1, <3>2, <3>3 DEF MoveNext
  <2>4. CASE FeeNext
    <3>1. ASSUME NEW m \in Mints, NEW fee \in Fees, SetTransferFee(m, fee)
          PROVE  Still(a)
      BY Zenon, <2>1, <3>1 DEF SetTransferFee
    <3>2. ASSUME NEW m \in Mints, NEW list \in SUBSET Accounts,
                 HarvestWithheldTokensToMint(m, list)
          PROVE  Still(a)
      <4>1. \/ account'[a] = account[a]
            \/ account'[a] = [account[a] EXCEPT !.withheld = 0]
        BY Zenon, <3>2 DEF HarvestWithheldTokensToMint
      <4> QED
        BY Zenon, <2>0, <4>1 DEF AccountType
    <3>3. ASSUME NEW m \in Mints, NEW b \in Accounts, WithdrawWithheldTokensFromMint(m, b)
          PROVE  Still(a)
      <4>1. account'[a] = account[a]
        BY Zenon, <2>0, <3>3 DEF WithdrawWithheldTokensFromMint, MayReceive
      <4> QED
        BY Zenon, <4>1
    <3>4. ASSUME NEW m \in Mints, NEW b \in Accounts, NEW list \in SUBSET Accounts,
                 WithdrawWithheldTokensFromAccounts(m, b, list)
          PROVE  Still(a)
      <4>1. a # b
        BY Zenon, <2>0, <3>4 DEF WithdrawWithheldTokensFromAccounts, MayReceive
      <4>2. \E w : account'[a] = [account[a] EXCEPT !.withheld = w,
                                                   !.amount = account[a].amount]
        BY Zenon, <3>4, <4>1 DEF WithdrawWithheldTokensFromAccounts
      <4> QED
        BY Zenon, <2>0, <4>2 DEF AccountType
    <3> QED
      BY Zenon, <2>4, <3>1, <3>2, <3>3, <3>4 DEF FeeNext
  <2>5. CASE AuthorityNext
    <3>1. ASSUME NEW b \in Accounts,
                 \/ \E n \in Allowances : Approve(b, n)
                 \/ Revoke(b) \/ SetAccountOwner(b)
          PROVE  account'[a] = account[a]
      BY Zenon, <2>0, <3>1 DEF Approve, Revoke, SetAccountOwner
    <3>2. ASSUME NEW b \in Accounts, CloseAccount(b)
          PROVE  Still(a)
      BY Zenon, <2>0, <3>2 DEF CloseAccount
    <3>3. ASSUME NEW b \in Accounts, NEW m \in Mints, NEW freeze \in BOOLEAN,
                 ToggleFreeze(b, m, freeze)
          PROVE  Still(a)
      BY Zenon, <2>0, <3>3 DEF ToggleFreeze, AccountType
    <3>4. ASSUME NEW b \in Accounts, NEW required \in BOOLEAN, RequireMemo(b, required)
          PROVE  Still(a)
      BY Zenon, <2>0, <3>4 DEF RequireMemo, AccountType
    <3>5. ASSUME NEW m \in Mints,
                 \/ \E kind \in Droppable : DropAuthority(m, kind)
                 \/ \E state \in {"Initialized", "Frozen"} :
                      UpdateDefaultAccountState(m, state)
                 \/ CloseMint(m)
          PROVE  account' = account
      BY Zenon, <3>5 DEF DropAuthority, UpdateDefaultAccountState, CloseMint
    <3> QED
      BY Zenon, <2>1, <2>5, <3>1, <3>2, <3>3, <3>4, <3>5 DEF AuthorityNext
  <2>6. CASE NextEpoch \/ UNCHANGED vars
    BY Zenon, <2>1, <2>6 DEF NextEpoch, vars
  <2> QED
    BY Zenon, <1>1, <2>2, <2>3, <2>4, <2>5, <2>6 DEF Next
<1>2. Inv /\ [Next]_vars => [AllStill]_vars
  BY Zenon, <1>1
<1> HIDE DEF Still, AllStill
<1>3. Spec => [][AllStill]_vars
  BY <1>2, InvCorrect, PTL DEF Spec
<1> QED
  BY Zenon, <1>3 DEF FrozenIsStill, AllStill, Still
-----------------------------------------------------------------------------
(* Fees and tokens are conserved *)

\* What is not in use holds nothing, so opening an account again, or configuring
\* the fees of a mint again, writes over nothing.
NothingLeft ==
    /\ \A a \in Accounts :
          ~IsInitialized(a) => account[a].amount = 0 /\ account[a].withheld = 0
    /\ \A m \in Mints : ~mint[m].is_initialized => mint[m].withheld = 0

SupplyInv == SupplyIsHeld /\ NothingLeft

\* The numbers that are added up.
LEMMA HeldType ==
  ASSUME Inv
  PROVE  /\ \A m \in Mints : mint[m].supply \in Nat /\ mint[m].withheld \in Nat
         /\ \A a \in Accounts : account[a].amount \in Nat /\ account[a].withheld \in Nat
         /\ \A m \in Mints, a \in Accounts : Held(m)[a] \in Nat
         /\ \A m \in Mints : Terms(Held(m), Accounts)
<1>1. /\ \A m \in Mints : mint[m].supply \in Nat /\ mint[m].withheld \in Nat
      /\ \A a \in Accounts : account[a].amount \in Nat /\ account[a].withheld \in Nat
  BY Zenon, Numbers DEF Inv, TypeOK, MintType, AccountType
<1>2. Finite(Accounts)
  <2>1. Accounts \in SUBSET Accounts
    BY Zenon
  <2> QED
    BY Zenon, <2>1, FiniteSubset, Token2022Assumption
<1> QED
  BY <1>1, <1>2 DEF Held, Terms

\* The same after a step.
LEMMA HeldTypeAfter ==
  ASSUME Inv'
  PROVE  /\ \A m \in Mints : mint'[m].supply \in Nat /\ mint'[m].withheld \in Nat
         /\ \A m \in Mints, a \in Accounts : (Held(m)')[a] \in Nat
         /\ \A m \in Mints : Terms(Held(m)', Accounts)
<1>1. /\ \A m \in Mints : mint'[m].supply \in Nat /\ mint'[m].withheld \in Nat
      /\ \A a \in Accounts : account'[a].amount \in Nat /\ account'[a].withheld \in Nat
  BY Zenon, Numbers DEF Inv, TypeOK, MintType, AccountType
<1>2. Finite(Accounts)
  <2>1. Accounts \in SUBSET Accounts
    BY Zenon
  <2> QED
    BY Zenon, <2>1, FiniteSubset, Token2022Assumption
<1> QED
  BY <1>1, <1>2 DEF Held, Terms

\* A transfer moves what it takes, the fee included.
LEMMA Regroup ==
  ASSUME NEW x \in Nat, NEW v \in Nat, NEW y \in Nat, NEW w \in Nat,
         NEW k \in Nat, NEW f \in Nat
  PROVE  (x + v) + (y + w) = ((x - k) + v) + ((y + (k - f)) + (w + f))
  OBVIOUS

\* What the mint owes its accounts.
Owed(m) == mint[m].supply - mint[m].withheld

\* A step that changes what one account holds, and what the mint owes by as
\* much.
LEMMA SupplyOfOne ==
  ASSUME Inv, Inv', SupplyIsHeld, NEW a \in Accounts,
         \A c \in Accounts : c # a => account'[c] = account[c],
         \A m \in Mints : Owed(m)' - Owed(m) = (Held(m)')[a] - Held(m)[a]
  PROVE  SupplyIsHeld'
<1> SUFFICES ASSUME NEW m \in Mints
             PROVE  mint'[m].supply
                      = mint'[m].withheld + SumFunctionOnSet(Held(m)', Accounts)
  BY Zenon DEF SupplyIsHeld
<1>1. \A c \in Accounts : Held(m)[c] \in Int /\ (Held(m)')[c] \in Int
  BY HeldType, HeldTypeAfter
<1>2. \A c \in Accounts : c # a => (Held(m)')[c] = Held(m)[c]
  BY Zenon DEF Held
<1>3. SumFunctionOnSet(Held(m)', Accounts)
        = SumFunctionOnSet(Held(m), Accounts) - Held(m)[a] + (Held(m)')[a]
  BY <1>2, HeldType, HeldTypeAfter, SumChange
<1>4. /\ mint[m].supply = mint[m].withheld + SumFunctionOnSet(Held(m), Accounts)
      /\ SumFunctionOnSet(Held(m), Accounts) \in Int
  BY Zenon, HeldType, SumIsInt DEF SupplyIsHeld
<1>5. /\ mint[m].supply \in Int /\ mint'[m].supply \in Int
      /\ mint[m].withheld \in Int /\ mint'[m].withheld \in Int
  BY HeldType, HeldTypeAfter
<1>6. (mint'[m].supply - mint'[m].withheld) - (mint[m].supply - mint[m].withheld)
        = (Held(m)')[a] - Held(m)[a]
  BY Zenon DEF Owed
<1> QED
  BY <1>1, <1>3, <1>4, <1>5, <1>6

\* A step that changes nothing of it.
LEMMA SupplyOfNone ==
  ASSUME Inv, Inv', SupplyIsHeld, \A m \in Mints : Owed(m)' = Owed(m),
         \A c \in Accounts, m \in Mints : (Held(m)')[c] = Held(m)[c]
  PROVE  SupplyIsHeld'
<1> SUFFICES ASSUME NEW m \in Mints
             PROVE  mint'[m].supply
                      = mint'[m].withheld + SumFunctionOnSet(Held(m)', Accounts)
  BY Zenon DEF SupplyIsHeld
<1>1. SumFunctionOnSet(Held(m)', Accounts) = SumFunctionOnSet(Held(m), Accounts)
  BY Zenon, HeldType, SumSame
<1>3. /\ mint[m].supply = mint[m].withheld + SumFunctionOnSet(Held(m), Accounts)
      /\ SumFunctionOnSet(Held(m), Accounts) \in Int
  BY Zenon, HeldType, SumIsInt DEF SupplyIsHeld
<1>4. /\ mint[m].supply \in Int /\ mint'[m].supply \in Int
      /\ mint[m].withheld \in Int /\ mint'[m].withheld \in Int
  BY HeldType, HeldTypeAfter
<1>5. mint'[m].supply - mint'[m].withheld = mint[m].supply - mint[m].withheld
  BY Zenon DEF Owed
<1> QED
  BY <1>1, <1>3, <1>4, <1>5

\* Creation: the extensions and the flags change, and nothing is held yet.
LEMMA CreateSupply ==
  ASSUME Inv, Inv', SupplyInv, CreateNext
  PROVE  SupplyInv'
<1> DEFINE SameMints == \A k \in Mints : /\ mint'[k].supply = mint[k].supply
                                         /\ mint'[k].withheld = mint[k].withheld
                                         /\ mint[k].is_initialized => mint'[k].is_initialized
           SameAccounts == \A c \in Accounts :
                             /\ account'[c].amount = account[c].amount
                             /\ account'[c].withheld = account[c].withheld
                             /\ IsInitialized(c) => account'[c] = account[c]
<1>0. /\ \A m \in Mints : mint[m] \in MintType
      /\ \A a \in Accounts : account[a] \in AccountType
  BY Zenon DEF Inv, TypeOK
<1>1. ASSUME NEW m \in Mints, NEW fee, NEW auths, InitializeTransferFeeConfig(m, fee, auths)
      PROVE  SameMints /\ account' = account
  <2>1. mint[m].withheld = 0
    BY Zenon, <1>1 DEF InitializeTransferFeeConfig, SupplyInv, NothingLeft
  <2> QED
    BY Zenon, <1>0, <1>1, <2>1 DEF InitializeTransferFeeConfig, Inv, TypeOK, MintType
<1>2. ASSUME NEW m \in Mints, NEW auths, InitializeMintCloseAuthority(m, auths)
      PROVE  SameMints /\ account' = account
  BY Zenon, <1>0, <1>2 DEF InitializeMintCloseAuthority, Inv, TypeOK, MintType
<1>3. ASSUME NEW m \in Mints, NEW state, InitializeDefaultAccountState(m, state)
      PROVE  SameMints /\ account' = account
  BY Zenon, <1>0, <1>3 DEF InitializeDefaultAccountState, Inv, TypeOK, MintType
<1>4. ASSUME NEW m \in Mints, InitializeNonTransferableMint(m)
      PROVE  SameMints /\ account' = account
  BY Zenon, <1>0, <1>4 DEF InitializeNonTransferableMint, Inv, TypeOK, MintType
<1>5. ASSUME NEW m \in Mints, NEW auths, InitializeMint(m, auths)
      PROVE  SameMints /\ account' = account
  BY Zenon, <1>0, <1>5 DEF InitializeMint, Inv, TypeOK, MintType
<1>6. ASSUME NEW a \in Accounts, InitializeImmutableOwner(a)
      PROVE  SameAccounts /\ mint' = mint
  BY Zenon, <1>0, <1>6 DEF InitializeImmutableOwner, Inv, TypeOK, AccountType
<1>7. ASSUME NEW a \in Accounts, NEW m \in Mints, InitializeAccount(a, m)
      PROVE  SameAccounts /\ mint' = mint
  <2> DEFINE state == IF MintHas(m, "DefaultAccountState")
                      THEN mint[m].default_state ELSE "Initialized"
             ext == account[a].extensions \cup RequiredExtensions(m)
  <2>1. account' = [account EXCEPT ![a] = [account[a] EXCEPT
            !.state = state, !.mint = m, !.extensions = ext]]
    BY Zenon, <1>7 DEF InitializeAccount
  <2> HIDE DEF state, ext
  <2>2. ~IsInitialized(a) /\ mint' = mint
    BY Zenon, <1>7 DEF InitializeAccount
  <2> QED
    BY Zenon, <1>0, <2>1, <2>2 DEF Inv, TypeOK, AccountType
<1>8. SameMints /\ SameAccounts
  <2>1. CASE mint' = mint /\ SameAccounts
    BY Zenon, <2>1
  <2>2. CASE SameMints /\ account' = account
    BY Zenon, <2>2
  <2> HIDE DEF SameMints, SameAccounts
  <2> QED
    BY Zenon, <1>1, <1>2, <1>3, <1>4, <1>5, <1>6, <1>7, <2>1, <2>2 DEF CreateNext
<1>9. NothingLeft'
  BY Zenon, <1>8 DEF SupplyInv, NothingLeft, IsInitialized
<1>10. \A c \in Accounts, m \in Mints : (Held(m)')[c] = Held(m)[c]
  <2>1. \A c \in Accounts : ~IsInitialized(c) => account[c].amount = 0 /\ account[c].withheld = 0
    BY Zenon DEF SupplyInv, NothingLeft
  <2> QED
    BY <1>8, <2>1 DEF Held
<1>11. \A m \in Mints : Owed(m)' = Owed(m)
  BY Zenon, <1>8 DEF Owed
<1> QED
  BY Zenon, <1>9, <1>10, <1>11, SupplyOfNone DEF SupplyInv

\* A transfer: the fee that is taken from the amount is withheld.
LEMMA TransferSupply ==
  ASSUME Inv, Inv', SupplyInv, NEW src \in Accounts, NEW dst \in Accounts,
         NEW n \in Amounts, NEW by \in {"owner", "delegate"}, NEW checked \in BOOLEAN,
         NEW memo \in BOOLEAN, Transfer(src, dst, n, by, checked, memo)
  PROVE  SupplyInv'
<1>1. mint' = mint
  BY Zenon DEF Transfer
<1>2. CASE src = dst
  <2>1. account' = account
    BY Zenon, <1>2 DEF Transfer
  <2>2. SupplyIsHeld'
    BY Zenon, <1>1, <2>1, SupplyOfNone DEF Held, Owed, SupplyInv
  <2> QED
    BY Zenon, <1>1, <2>1, <2>2 DEF SupplyInv, NothingLeft, IsInitialized
<1>3. CASE src # dst
  <2> DEFINE fee == TransferFee(src, n, checked)
             q == SpendAllowance(account[src], by, n)
  <2>1. account[src] \in AccountType /\ account[dst] \in AccountType
    BY Zenon DEF Inv, TypeOK
  <2>2. q \in AccountType /\ q.state = account[src].state /\ q.mint = account[src].mint
        /\ q.amount = account[src].amount /\ q.withheld = account[src].withheld
    BY <2>1, Spend DEF Transfer, MayMove
  <2>3. MoveTokens(src, dst, n, fee, by) /\ account[src].mint = account[dst].mint
        /\ account[src].state = "Initialized" /\ account[dst].state = "Initialized"
    BY Zenon, <1>3 DEF Transfer
  <2>4. fee \in Nat /\ n \in Nat
    BY Zenon, <2>3, TransferFeeType, Numbers DEF IsInitialized
  <2> HIDE DEF fee
  <2>5. account' = [account EXCEPT
          ![src] = [q EXCEPT !.amount = q.amount - n],
          ![dst] = [account[dst] EXCEPT !.amount = account[dst].amount + (n - fee),
                                        !.withheld = account[dst].withheld + fee]]
    BY Zenon, <2>1, <2>2, <2>3 DEF MoveTokens
  <2> HIDE DEF q
  <2>6. /\ account'[src].mint = account[src].mint /\ account'[dst].mint = account[dst].mint
        /\ account'[src].amount = account[src].amount - n
        /\ account'[src].withheld = account[src].withheld
        /\ account'[dst].amount = account[dst].amount + (n - fee)
        /\ account'[dst].withheld = account[dst].withheld + fee
        /\ \A c \in Accounts : c # src /\ c # dst => account'[c] = account[c]
    BY Zenon, <1>3, <2>1, <2>2, <2>5 DEF Inv, TypeOK, AccountType
  <2>7. \A c \in Accounts : account'[c].state = account[c].state
    BY Zenon, <1>3, TransferEffect
  <2>8. NothingLeft'
    BY Zenon, <1>1, <2>3, <2>6, <2>7 DEF SupplyInv, NothingLeft, IsInitialized
  <2>9. SupplyIsHeld'
    <3> SUFFICES ASSUME NEW m \in Mints
                 PROVE  mint'[m].supply
                          = mint'[m].withheld + SumFunctionOnSet(Held(m)', Accounts)
      BY Zenon DEF SupplyIsHeld
    <3>1. Held(m)[src] + Held(m)[dst] = (Held(m)')[src] + (Held(m)')[dst]
      <4>1. /\ account[src].amount \in Nat /\ account[src].withheld \in Nat
            /\ account[dst].amount \in Nat /\ account[dst].withheld \in Nat
        BY Zenon, HeldType
      <4>2. CASE account[src].mint # m
        BY Zenon, <2>3, <2>6, <4>2 DEF Held
      <4>3. CASE account[src].mint = m
        <5>1. /\ Held(m)[src] = account[src].amount + account[src].withheld
              /\ Held(m)[dst] = account[dst].amount + account[dst].withheld
              /\ (Held(m)')[src] = (account[src].amount - n) + account[src].withheld
              /\ (Held(m)')[dst] = (account[dst].amount + (n - fee))
                                     + (account[dst].withheld + fee)
          BY Zenon, <2>3, <2>6, <4>3 DEF Held
        <5> HIDE DEF Held
        <5> QED
          BY <2>4, <4>1, <5>1, Regroup
      <4> QED
        BY Zenon, <4>2, <4>3
    <3>2. \A c \in Accounts : c # src /\ c # dst => (Held(m)')[c] = Held(m)[c]
      BY Zenon, <2>6 DEF Held
    <3>3. SumFunctionOnSet(Held(m)', Accounts) = SumFunctionOnSet(Held(m), Accounts)
      BY Zenon, <1>3, <3>1, <3>2, HeldType, HeldTypeAfter, SumMove
    <3> QED
      BY Zenon, <1>1, <3>3 DEF SupplyInv, SupplyIsHeld
  <2> QED
    BY Zenon, <2>8, <2>9 DEF SupplyInv
<1> QED
  BY Zenon, <1>2, <1>3

\* Minting and burning change the supply and one account by the same amount.
LEMMA MintBurnSupply ==
  ASSUME Inv, Inv', SupplyInv, NEW a \in Accounts, NEW k \in Mints, NEW n \in Amounts,
         NEW by \in {"owner", "delegate"}, MintTo(k, a, n) \/ Burn(a, k, n, by)
  PROVE  SupplyInv'
<1>0. account[a] \in AccountType /\ mint[k] \in MintType /\ n \in Int
  BY Numbers DEF Inv, TypeOK
<1>1. /\ \A c \in Accounts : c # a => account'[c] = account[c]
      /\ \A m \in Mints : m # k => mint'[m] = mint[m]
      /\ account[a].mint = k /\ account[a].state = "Initialized"
  BY Zenon DEF MintTo, Burn, Inv, TypeOK
<1>2. /\ account'[a].mint = k /\ account'[a].withheld = account[a].withheld
      /\ account'[a].state = account[a].state
      /\ mint'[k].withheld = mint[k].withheld
      /\ mint'[k].is_initialized = mint[k].is_initialized
      /\ \E d \in Int : /\ account'[a].amount = account[a].amount + d
                        /\ mint'[k].supply = mint[k].supply + d
  <2>1. CASE MintTo(k, a, n)
    BY Zenon, <1>0, <1>1, <2>1 DEF MintTo, Inv, TypeOK, AccountType, MintType
  <2>2. CASE Burn(a, k, n, by)
    <3> DEFINE q == SpendAllowance(account[a], by, n)
    <3>1. q \in AccountType /\ q.state = account[a].state /\ q.mint = account[a].mint
          /\ q.amount = account[a].amount /\ q.withheld = account[a].withheld
      BY <1>0, <2>2, Spend DEF Burn, MayMove
    <3>2. /\ account' = [account EXCEPT ![a] = [q EXCEPT !.amount = q.amount - n]]
          /\ mint' = [mint EXCEPT ![k] = [mint[k] EXCEPT !.supply = mint[k].supply - n]]
      BY Zenon, <1>0, <2>2, <3>1 DEF Burn, Inv, TypeOK
    <3> HIDE DEF q
    <3>3. /\ account'[a].mint = k /\ account'[a].withheld = account[a].withheld
          /\ account'[a].state = account[a].state
          /\ account'[a].amount = account[a].amount - n
      BY Zenon, <1>1, <3>1, <3>2 DEF Inv, TypeOK, AccountType
    <3>4. /\ mint'[k].withheld = mint[k].withheld
          /\ mint'[k].is_initialized = mint[k].is_initialized
          /\ mint'[k].supply = mint[k].supply - n
      BY Zenon, <1>0, <3>2 DEF Inv, TypeOK, MintType
    <3>5. -n \in Int /\ account'[a].amount = account[a].amount + (-n)
          /\ mint'[k].supply = mint[k].supply + (-n)
      BY <1>0, <3>3, <3>4, HeldType
    <3> QED
      BY Zenon, <3>3, <3>4, <3>5
  <2> QED
    BY Zenon, <2>1, <2>2
<1>3. NothingLeft'
  BY Zenon, <1>1, <1>2 DEF SupplyInv, NothingLeft, IsInitialized
<1>4. \A m \in Mints : Owed(m)' - Owed(m) = (Held(m)')[a] - Held(m)[a]
  <2> SUFFICES ASSUME NEW m \in Mints
               PROVE  Owed(m)' - Owed(m) = (Held(m)')[a] - Held(m)[a]
    BY Zenon
  <2>1. CASE m = k
    BY <1>1, <1>2, <2>1, HeldType DEF Owed, Held
  <2>2. CASE m # k
    BY <1>1, <1>2, <2>2, HeldType DEF Owed, Held
  <2> QED
    BY Zenon, <2>1, <2>2
<1> QED
  BY Zenon, <1>1, <1>3, <1>4, SupplyOfOne DEF SupplyInv

\* What the accounts of a mint hold, once the fees that some of them withhold
\* are taken out, is less by these fees.
LEMMA HarvestSum ==
  ASSUME Inv, NEW m \in Mints, NEW H \in SUBSET Accounts,
         \A a \in H : account[a].mint = m, NEW left,
         \A a \in Accounts : left[a] = IF a \in H THEN Held(m)[a] - account[a].withheld
                                       ELSE Held(m)[a]
  PROVE  /\ WithheldIn(H) \in Int
         /\ \A a \in Accounts : left[a] \in Int
         /\ SumFunctionOnSet(left, Accounts)
              = SumFunctionOnSet(Held(m), Accounts) - WithheldIn(H)
<1> DEFINE all == [a \in Accounts |-> account[a].withheld]
           w == [a \in Accounts |-> IF a \in H THEN account[a].withheld ELSE 0]
<1>1. Terms(Held(m), Accounts) /\ Finite(Accounts)
  BY Zenon, HeldType DEF Terms
<1>2. \A a \in Accounts : left[a] \in Int /\ Held(m)[a] = left[a] + w[a]
  BY HeldType
<1>3. Terms(w, Accounts) /\ Terms(left, Accounts) /\ Terms(all, Accounts)
  BY <1>1, <1>2, HeldType DEF Terms
<1>4. (\A a \in Accounts \ H : w[a] = 0) /\ (\A a \in H : w[a] = all[a])
  BY Zenon
<1>5. WithheldIn(H) = SumFunctionOnSet(all, H)
  BY Zenon DEF WithheldIn
<1> HIDE DEF w, all
<1>6. SumFunctionOnSet(Held(m), Accounts)
        = SumFunctionOnSet(left, Accounts) + SumFunctionOnSet(w, Accounts)
  BY <1>2, <1>3, SumAdd
<1>7. SumFunctionOnSet(w, Accounts) = SumFunctionOnSet(w, H)
  BY Zenon, <1>3, <1>4, SumSupport
<1>8. SumFunctionOnSet(w, H) = SumFunctionOnSet(all, H)
  BY <1>3, <1>4, SumOfTerms, SumSame
<1>9. SumFunctionOnSet(w, Accounts) \in Int /\ SumFunctionOnSet(left, Accounts) \in Int
  BY Zenon, <1>3, SumIsInt
<1> QED
  BY <1>2, <1>5, <1>6, <1>7, <1>8, <1>9

\* Harvesting to the mint and withdrawing from accounts: what is taken out of
\* the accounts is what the mint or the destination is credited.
LEMMA FeeSupply ==
  ASSUME Inv, Inv', SupplyInv, FeeNext
  PROVE  SupplyInv'
<1>0. /\ \A k \in Mints : mint[k] \in MintType
      /\ \A a \in Accounts : account[a] \in AccountType
  BY Zenon DEF Inv, TypeOK
<1>1. ASSUME NEW m \in Mints, NEW fee \in Fees, SetTransferFee(m, fee)
      PROVE  SupplyInv'
  <2>1. \A k \in Mints : /\ mint'[k].supply = mint[k].supply
                         /\ mint'[k].withheld = mint[k].withheld
                         /\ mint'[k].is_initialized = mint[k].is_initialized
    BY Zenon, <1>0, <1>1 DEF SetTransferFee, Inv, TypeOK, MintType
  <2>2. account' = account
    BY Zenon, <1>1 DEF SetTransferFee
  <2>3. SupplyIsHeld'
    BY Zenon, <2>1, <2>2, SupplyOfNone DEF Held, Owed, SupplyInv
  <2> QED
    BY Zenon, <2>1, <2>2, <2>3 DEF SupplyInv, NothingLeft, IsInitialized
<1>2. ASSUME NEW m \in Mints, NEW list \in SUBSET Accounts,
             HarvestWithheldTokensToMint(m, list)
      PROVE  SupplyInv'
  <2> DEFINE H == Harvestable(m, list)
             w == WithheldIn(H)
  <2>1. H \in SUBSET Accounts /\ \A a \in H : account[a].mint = m
    BY Zenon DEF Harvestable
  <2>2. /\ mint' = [mint EXCEPT ![m] = [mint[m] EXCEPT !.withheld = mint[m].withheld + w]]
        /\ account' = [a \in Accounts |->
               IF a \in H THEN [account[a] EXCEPT !.withheld = 0] ELSE account[a]]
        /\ mint[m].is_initialized
    BY Zenon, <1>0, <1>2 DEF HarvestWithheldTokensToMint, Inv, TypeOK
  <2> HIDE DEF H, w
  <2>3. \A a \in Accounts : /\ account'[a].mint = account[a].mint
                            /\ account'[a].state = account[a].state
                            /\ account'[a].amount = account[a].amount
                            /\ account'[a].withheld = IF a \in H THEN 0 ELSE account[a].withheld
    BY Zenon, <1>0, <2>2 DEF AccountType
  <2>4. /\ mint'[m].withheld = mint[m].withheld + w /\ mint'[m].supply = mint[m].supply
        /\ mint'[m].is_initialized
        /\ \A k \in Mints : k # m => mint'[k] = mint[k]
    BY Zenon, <1>0, <2>2 DEF Inv, TypeOK, MintType
  <2>5. NothingLeft'
    <3>1. ASSUME NEW a \in Accounts, ~IsInitialized(a)'
          PROVE  account'[a].amount = 0 /\ account'[a].withheld = 0
      <4>1. ~IsInitialized(a)
        BY Zenon, <2>3, <3>1 DEF IsInitialized
      <4>2. account[a].amount = 0 /\ account[a].withheld = 0
        BY Zenon, <4>1 DEF SupplyInv, NothingLeft
      <4> QED
        BY Zenon, <2>3, <4>2
    <3>2. ASSUME NEW k \in Mints, ~mint'[k].is_initialized PROVE mint'[k].withheld = 0
      <4>1. mint'[k] = mint[k]
        BY Zenon, <2>4, <3>2
      <4> QED
        BY Zenon, <3>2, <4>1 DEF SupplyInv, NothingLeft
    <3> QED
      BY Zenon, <3>1, <3>2 DEF NothingLeft
  <2>6. ASSUME NEW k \in Mints
        PROVE  mint'[k].supply = mint'[k].withheld + SumFunctionOnSet(Held(k)', Accounts)
    <3>1. mint[k].supply = mint[k].withheld + SumFunctionOnSet(Held(k), Accounts)
      BY Zenon DEF SupplyInv, SupplyIsHeld
    <3>2. CASE k = m
      <4> DEFINE left == Held(m)'
      <4>1. \A a \in Accounts : left[a] = IF a \in H THEN Held(m)[a] - account[a].withheld
                                          ELSE Held(m)[a]
        BY <2>1, <2>3, HeldType DEF Held
      <4> HIDE DEF left
      <4>2. w \in Int /\ SumFunctionOnSet(left, Accounts)
                           = SumFunctionOnSet(Held(m), Accounts) - w
        BY Zenon, <2>1, <4>1, HarvestSum DEF w
      <4>3. SumFunctionOnSet(Held(m), Accounts) \in Int
        BY Zenon, HeldType, SumIsInt
      <4>4. mint[m].withheld \in Int
        BY HeldType
      <4> QED
        BY <2>4, <3>1, <3>2, <4>2, <4>3, <4>4 DEF left
    <3>3. CASE k # m
      <4>1. \A a \in Accounts : (Held(k)')[a] = Held(k)[a]
        BY Zenon, <2>1, <2>3, <3>3 DEF Held
      <4>2. SumFunctionOnSet(Held(k)', Accounts) = SumFunctionOnSet(Held(k), Accounts)
        BY Zenon, <4>1, HeldType, SumSame
      <4> QED
        BY Zenon, <2>4, <3>1, <3>3, <4>2
    <3> QED
      BY Zenon, <3>2, <3>3
  <2> QED
    BY Zenon, <2>5, <2>6 DEF SupplyInv, SupplyIsHeld
<1>3. ASSUME NEW m \in Mints, NEW a \in Accounts, WithdrawWithheldTokensFromMint(m, a)
      PROVE  SupplyInv'
  <2>1. /\ account[a].mint = m /\ account[a].state = "Initialized"
        /\ mint[m].is_initialized
        /\ \A c \in Accounts : c # a => account'[c] = account[c]
        /\ \A k \in Mints : k # m => mint'[k] = mint[k]
    BY Zenon, <1>3 DEF WithdrawWithheldTokensFromMint, MayReceive, HasAuthority, Inv, TypeOK
  <2>2. /\ account'[a].mint = m /\ account'[a].state = "Initialized"
        /\ account'[a].withheld = account[a].withheld
        /\ account'[a].amount = account[a].amount + mint[m].withheld
        /\ mint'[m].withheld = 0 /\ mint'[m].supply = mint[m].supply
        /\ mint'[m].is_initialized
    BY <1>0, <1>3, <2>1
    DEF WithdrawWithheldTokensFromMint, Inv, TypeOK, AccountType, MintType
  <2>3. NothingLeft'
    BY Zenon, <2>1, <2>2 DEF SupplyInv, NothingLeft, IsInitialized
  <2>4. ASSUME NEW k \in Mints
        PROVE  Owed(k)' - Owed(k) = (Held(k)')[a] - Held(k)[a]
    <3>1. CASE k = m
      BY <2>1, <2>2, <3>1, HeldType DEF Owed, Held
    <3>2. CASE k # m
      BY <2>1, <2>2, <3>2, HeldType DEF Owed, Held
    <3> QED
      BY Zenon, <3>1, <3>2
  <2> QED
    BY Zenon, <2>1, <2>3, <2>4, SupplyOfOne DEF SupplyInv
<1>4. ASSUME NEW m \in Mints, NEW dst \in Accounts, NEW list \in SUBSET Accounts,
             WithdrawWithheldTokensFromAccounts(m, dst, list)
      PROVE  SupplyInv'
  <2> DEFINE H == Harvestable(m, list)
             w == WithheldIn(H)
  <2>1. H \in SUBSET Accounts /\ \A a \in H : account[a].mint = m
    BY Zenon DEF Harvestable
  <2>2. /\ account' = [a \in Accounts |-> [account[a] EXCEPT
               !.withheld = IF a \in H THEN 0 ELSE account[a].withheld,
               !.amount = IF a = dst THEN account[a].amount + w ELSE account[a].amount]]
        /\ mint' = mint
    BY Zenon, <1>4 DEF WithdrawWithheldTokensFromAccounts
  <2>3. account[dst].mint = m /\ account[dst].state = "Initialized"
    BY Zenon, <1>4 DEF WithdrawWithheldTokensFromAccounts, MayReceive
  <2> HIDE DEF H, w
  <2>4. \A a \in Accounts :
          /\ account'[a].mint = account[a].mint /\ account'[a].state = account[a].state
          /\ account'[a].amount = IF a = dst THEN account[a].amount + w ELSE account[a].amount
          /\ account'[a].withheld = IF a \in H THEN 0 ELSE account[a].withheld
    BY Zenon, <1>0, <2>2 DEF AccountType
  <2>5. NothingLeft'
    <3>1. ASSUME NEW a \in Accounts, account'[a].state = "Uninitialized"
          PROVE  account'[a].amount = 0 /\ account'[a].withheld = 0
      <4>1. account[a].state = "Uninitialized" /\ a # dst
        BY Zenon, <2>3, <2>4, <3>1
      <4>2. account[a].amount = 0 /\ account[a].withheld = 0
        BY Zenon, <4>1 DEF SupplyInv, NothingLeft, IsInitialized
      <4> QED
        BY Zenon, <2>4, <4>1, <4>2
    <3> QED
      BY Zenon, <2>2, <3>1 DEF SupplyInv, NothingLeft, IsInitialized
  <2>6. ASSUME NEW k \in Mints
        PROVE  SumFunctionOnSet(Held(k)', Accounts) = SumFunctionOnSet(Held(k), Accounts)
    <3>1. CASE k = m
      <4> DEFINE left == [a \in Accounts |-> IF a \in H THEN Held(m)[a] - account[a].withheld
                                             ELSE Held(m)[a]]
                 after == Held(m)'
      <4>1. \A a \in Accounts : left[a] = IF a \in H THEN Held(m)[a] - account[a].withheld
                                          ELSE Held(m)[a]
        BY Zenon
      <4> HIDE DEF left
      <4>2. /\ w \in Int /\ \A a \in Accounts : left[a] \in Int
            /\ SumFunctionOnSet(left, Accounts) = SumFunctionOnSet(Held(m), Accounts) - w
        BY Zenon, <2>1, <4>1, HarvestSum DEF w
      <4>3. /\ after[dst] = left[dst] + w
            /\ \A a \in Accounts : a # dst => after[a] = left[a]
        BY <2>1, <2>3, <2>4, <4>1, <4>2, HeldType DEF Held
      <4> HIDE DEF after
      <4>4. SumFunctionOnSet(after, Accounts)
              = SumFunctionOnSet(left, Accounts) - left[dst] + after[dst]
        <5>1. Terms(left, Accounts) /\ Terms(after, Accounts)
          BY Zenon, <4>2, HeldType, HeldTypeAfter DEF Terms, after
        <5> QED
          BY <4>3, <5>1, SumChange
      <4>5. SumFunctionOnSet(Held(m), Accounts) \in Int
        BY Zenon, HeldType, SumIsInt
      <4> QED
        BY <3>1, <4>2, <4>3, <4>4, <4>5 DEF after
    <3>2. CASE k # m
      <4>1. \A a \in Accounts : (Held(k)')[a] = Held(k)[a]
        BY Zenon, <2>1, <2>3, <2>4, <3>2 DEF Held
      <4> QED
        BY Zenon, <4>1, HeldType, SumSame
    <3> QED
      BY Zenon, <3>1, <3>2
  <2> QED
    BY Zenon, <2>2, <2>5, <2>6 DEF SupplyInv, SupplyIsHeld
<1> QED
  BY Zenon, <1>1, <1>2, <1>3, <1>4 DEF FeeNext

\* Owners and authorities move nothing; what is closed holds nothing, and
\* nobody holds tokens of a mint without supply.
LEMMA AuthoritySupply ==
  ASSUME Inv, Inv', SupplyInv, AuthorityNext
  PROVE  SupplyInv'
<1> DEFINE SameMints == \A k \in Mints :
                          /\ mint'[k].supply = mint[k].supply
                          /\ mint'[k].withheld = mint[k].withheld
                          /\ mint'[k].is_initialized = mint[k].is_initialized
           SameAccounts == \A c \in Accounts :
                             /\ account'[c].mint = account[c].mint
                             /\ account'[c].amount = account[c].amount
                             /\ account'[c].withheld = account[c].withheld
                             /\ account'[c].state = "Uninitialized"
                                  <=> account[c].state = "Uninitialized"
<1>0. /\ \A k \in Mints : mint[k] \in MintType
      /\ \A a \in Accounts : account[a] \in AccountType
  BY Zenon DEF Inv, TypeOK
<1>1. CASE SameAccounts /\ mint' = mint
  <2>1. SupplyIsHeld'
    BY Zenon, <1>1, SupplyOfNone DEF Held, Owed, SupplyInv
  <2> QED
    BY Zenon, <1>1, <2>1 DEF SupplyInv, NothingLeft, IsInitialized
<1>2. CASE SameMints /\ account' = account
  <2>1. SupplyIsHeld'
    BY Zenon, <1>2, SupplyOfNone DEF Held, Owed, SupplyInv
  <2> QED
    BY Zenon, <1>2, <2>1 DEF SupplyInv, NothingLeft, IsInitialized
<1>3. ASSUME NEW a \in Accounts, NEW n, Approve(a, n) \/ Revoke(a) \/ SetAccountOwner(a)
      PROVE  SameAccounts /\ mint' = mint
  BY <1>0, <1>3 DEF Approve, Revoke, SetAccountOwner, Inv, TypeOK, AccountType
<1>4. ASSUME NEW a \in Accounts, NEW m, NEW freeze \in BOOLEAN, ToggleFreeze(a, m, freeze)
      PROVE  SameAccounts /\ mint' = mint
  BY <1>0, <1>4 DEF ToggleFreeze, Inv, TypeOK, AccountType
<1>5. ASSUME NEW a \in Accounts, NEW required, RequireMemo(a, required)
      PROVE  SameAccounts /\ mint' = mint
  BY <1>0, <1>5 DEF RequireMemo, Inv, TypeOK, AccountType
<1>6. ASSUME NEW m \in Mints, NEW kind, DropAuthority(m, kind)
      PROVE  SameMints /\ account' = account
  BY Zenon, <1>0, <1>6 DEF DropAuthority, Inv, TypeOK, MintType
<1>7. ASSUME NEW m \in Mints, NEW state, UpdateDefaultAccountState(m, state)
      PROVE  SameMints /\ account' = account
  BY Zenon, <1>0, <1>7 DEF UpdateDefaultAccountState, Inv, TypeOK, MintType
<1>8. ASSUME NEW a \in Accounts, CloseAccount(a)
      PROVE  SupplyInv'
  <2>1. /\ account[a].amount = 0 /\ account[a].withheld = 0 /\ mint' = mint
        /\ account'[a].amount = 0 /\ account'[a].withheld = 0
        /\ \A c \in Accounts : c # a => account'[c] = account[c]
    BY Zenon, <1>8 DEF CloseAccount, NoAccount, Inv, TypeOK
  <2>2. \A c \in Accounts, m \in Mints : (Held(m)')[c] = Held(m)[c]
    BY <2>1 DEF Held
  <2>3. SupplyIsHeld'
    BY Zenon, <2>1, <2>2, SupplyOfNone DEF Owed, SupplyInv
  <2> QED
    BY Zenon, <2>1, <2>3 DEF SupplyInv, NothingLeft, IsInitialized
<1>9. ASSUME NEW m \in Mints, CloseMint(m)
      PROVE  SupplyInv'
  <2>1. /\ mint'[m].supply = 0 /\ mint'[m].withheld = 0 /\ mint[m].supply = 0
        /\ \A k \in Mints : k # m => mint'[k] = mint[k]
        /\ account' = account
    BY Zenon, <1>9 DEF CloseMint, NoMint, Inv, TypeOK
  <2>2. mint[m].withheld = 0
    <3>3. SumFunctionOnSet(Held(m), Accounts) >= 0
      BY HeldType, SumSign
    <3>4. SumFunctionOnSet(Held(m), Accounts) \in Int
      BY Zenon, HeldType, SumIsInt
    <3>5. mint[m].supply = mint[m].withheld + SumFunctionOnSet(Held(m), Accounts)
      BY Zenon DEF SupplyInv, SupplyIsHeld
    <3>6. mint[m].withheld \in Nat
      BY Zenon, HeldType
    <3> QED
      BY <2>1, <3>3, <3>4, <3>5, <3>6
  <2>3. SupplyIsHeld'
    BY Zenon, <2>1, <2>2, SupplyOfNone DEF Held, Owed, SupplyInv
  <2> QED
    BY Zenon, <2>1, <2>3 DEF SupplyInv, NothingLeft, IsInitialized
<1> HIDE DEF SameMints, SameAccounts
<1> QED
  BY Zenon, <1>1, <1>2, <1>3, <1>4, <1>5, <1>6, <1>7, <1>8, <1>9 DEF AuthorityNext

\* At all times, and for any number of mints and accounts, the supply of a mint
\* is what its accounts hold and withhold and what the mint collected.
THEOREM SupplyAlwaysHeld == Spec => []SupplyIsHeld
<1>1. Init => SupplyInv
  <2> SUFFICES ASSUME Init PROVE SupplyInv
    BY Zenon
  <2>1. \A m \in Mints : mint[m].supply = 0 /\ mint[m].withheld = 0
    BY Zenon DEF Init, NoMint
  <2>2. \A a \in Accounts : account[a].amount = 0 /\ account[a].withheld = 0
    BY Zenon DEF Init, NoAccount
  <2>3. ASSUME NEW m \in Mints PROVE SumFunctionOnSet(Held(m), Accounts) = 0
    <3>1. \A a \in Accounts : Held(m)[a] = 0
      BY <2>2 DEF Held
    <3>2. Inv
      BY Zenon, InvInductive
    <3> QED
      BY Zenon, <3>1, <3>2, HeldType, SumSign
  <2> QED
    BY <2>1, <2>2, <2>3 DEF SupplyInv, SupplyIsHeld, NothingLeft
<1>2. Inv /\ Inv' /\ SupplyInv /\ [Next]_vars => SupplyInv'
  <2> SUFFICES ASSUME Inv, Inv', SupplyInv, [Next]_vars PROVE SupplyInv'
    BY Zenon
  <2>1. CASE mint' = mint /\ account' = account
    <3>1. SupplyIsHeld'
      BY Zenon, <2>1, SupplyOfNone DEF Held, Owed, SupplyInv
    <3> QED
      BY Zenon, <2>1, <3>1 DEF SupplyInv, NothingLeft, IsInitialized
  <2>2. CASE MoveNext
    <3>1. ASSUME NEW a \in Accounts, NEW n \in Amounts, NEW m \in Mints, MintTo(m, a, n)
          PROVE  SupplyInv'
      <4>1. "owner" \in {"owner", "delegate"}
        BY Zenon
      <4> QED
        BY Zenon, <3>1, <4>1, MintBurnSupply
    <3> QED
      <4>1. PICK a \in Accounts, n \in Amounts :
              \/ \E b \in Accounts, by \in {"owner", "delegate"}, checked, memo \in BOOLEAN :
                    Transfer(a, b, n, by, checked, memo)
              \/ \E m \in Mints : MintTo(m, a, n)
              \/ \E m \in Mints, by \in {"owner", "delegate"} : Burn(a, m, n, by)
        BY Zenon, <2>2 DEF MoveNext
      <4>2. CASE \E b \in Accounts, by \in {"owner", "delegate"}, checked, memo \in BOOLEAN :
                   Transfer(a, b, n, by, checked, memo)
        BY Zenon, <4>2, TransferSupply
      <4>3. CASE \E m \in Mints : MintTo(m, a, n)
        BY Zenon, <4>3, <3>1
      <4>4. CASE \E m \in Mints, by \in {"owner", "delegate"} : Burn(a, m, n, by)
        BY Zenon, <4>4, MintBurnSupply
      <4> QED
        BY Zenon, <4>1, <4>2, <4>3, <4>4
  <2> QED
    BY Zenon, <2>1, <2>2, CreateSupply, FeeSupply, AuthoritySupply DEF Next, NextEpoch, vars
<1>3. SupplyInv => SupplyIsHeld
  BY DEF SupplyInv
<1> QED
  BY <1>1, <1>2, <1>3, InvCorrect, PTL DEF Spec
=============================================================================
