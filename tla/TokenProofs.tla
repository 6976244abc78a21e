----------------------------- MODULE TokenProofs ----------------------------
(* Proofs about Token for every set of mints, accounts and keys. *)
EXTENDS TokenProperties, Sums

\* The zeroed buffers have the types of what they are read as.
LEMMA ZeroTypes ==
  NoMint \in MintType /\ NoAccount \in AccountType /\ NoMultisig \in MultisigType
<1>1. 0 \in Amounts
  BY TokenAssumption DEF Amounts
<1>2. None \in OptionalAddresses
  BY Zenon DEF OptionalAddresses
<1>3. << >> \in Seq(Keys)
  OBVIOUS
<1> QED
  BY Zenon, <1>1, <1>2, <1>3 DEF NoMint, NoAccount, NoMultisig, MintType, AccountType,
                          MultisigType

\* An account record with one field written is an account record.
LEMMA AccountFields ==
  ASSUME NEW r \in AccountType
  PROVE  /\ \A n \in Amounts : [r EXCEPT !.amount = n] \in AccountType
         /\ \A k \in OptionalAddresses, n \in Amounts :
              [r EXCEPT !.delegate = k, !.delegated_amount = n] \in AccountType
  BY Zenon DEF AccountType

\* The empty ledger is well typed.
LEMMA InitType == Init => TypeOK
<1> SUFFICES ASSUME Init PROVE TypeOK
  BY Zenon
<1>1. Lamports \in Nat /\ 0 \in Amounts
  BY TokenAssumption DEF Amounts
<1> QED
  BY Zenon, <1>1, ZeroTypes DEF Init, TypeOK

\* InitializeMint, InitializeAccount and InitializeMultisig keep the types.
LEMMA CreateType == TypeOK /\ CreateNext => TypeOK'
<1> SUFFICES ASSUME TypeOK, CreateNext PROVE TypeOK'
  BY Zenon
<1> USE TokenAssumption
<1>1. ASSUME NEW m \in Mints, NEW k \in MintAuthorities,
             NEW f \in FreezeAuthorities \cup {None}, InitializeMint(m, k, f)
      PROVE  TypeOK'
  <2>1. k \in OptionalAddresses /\ f \in OptionalAddresses
    BY Zenon DEF OptionalAddresses
  <2>2. mint' \in [Mints -> MintType]
    <3> DEFINE new == [mint[m] EXCEPT !.is_initialized = TRUE, !.mint_authority = k,
                                      !.freeze_authority = f]
    <3>1. mint \in [Mints -> MintType]
      BY Zenon DEF TypeOK
    <3>2. new \in MintType
      BY Zenon, <2>1, <3>1 DEF MintType
    <3>3. mint' = [mint EXCEPT ![m] = new]
      BY Zenon, <1>1, <3>1 DEF InitializeMint, MintType
    <3> HIDE DEF new
    <3> QED
      BY Zenon, <3>1, <3>2, <3>3
  <2> QED
    BY Zenon, <1>1, <2>2 DEF InitializeMint, TypeOK
<1>2. ASSUME NEW a \in Accounts, NEW m \in Mints \cup {NativeMint},
             NEW o \in Owners, InitializeAccount(a, m, o)
      PROVE  TypeOK'
  <2>1. (IF m = NativeMint THEN lamports[a] - Reserve ELSE 0) \in Amounts
    BY <1>2 DEF InitializeAccount, TypeOK, Amounts
  <2>2. o \in OptionalAddresses
    BY Zenon DEF OptionalAddresses
  <2> QED
    BY Zenon, <1>2, <2>1, <2>2, ZeroTypes DEF InitializeAccount, TypeOK, AccountType
<1>3. ASSUME NEW g \in Multisigs, NEW x \in MultisigArgs, InitializeMultisig(g, x)
      PROVE  TypeOK'
  BY Zenon, <1>3 DEF InitializeMultisig, TypeOK, MultisigType
<1> QED
  BY Zenon, <1>1, <1>2, <1>3 DEF CreateNext

\* What is taken from an amount that has it, and added to one that has room for
\* it, leaves a u64.
LEMMA AmountArithmetic ==
  ASSUME NEW x \in Amounts, NEW y \in Amounts
  PROVE  /\ x >= y => x - y \in Amounts
         /\ x + y <= MaxU64 => x + y \in Amounts
         /\ x + y >= x
  BY TokenAssumption DEF Amounts

\* An allowance that covers the amount stays a natural number.
LEMMA SpendType ==
  ASSUME NEW r \in AccountType, NEW k, NEW n \in Amounts,
         r.delegate = k => r.delegated_amount >= n
  PROVE  SpendAllowance(r, k, n) \in AccountType
<1>1. CASE r.delegate # k
  BY Zenon, <1>1 DEF SpendAllowance
<1>2. CASE r.delegate = k
  <2>1. r.delegated_amount - n \in Amounts
    BY Zenon, <1>2, AmountArithmetic DEF AccountType
  <2>2. None \in OptionalAddresses
    BY Zenon DEF OptionalAddresses
  <2> QED
    BY Zenon, <1>2, <2>1, <2>2 DEF SpendAllowance, AccountType
<1> QED
  BY Zenon, <1>1, <1>2

\* What spending an allowance leaves alone.
LEMMA SpendFields ==
  ASSUME NEW r \in AccountType, NEW k, NEW n
  PROVE  LET q == SpendAllowance(r, k, n)
         IN  /\ q.state = r.state /\ q.mint = r.mint /\ q.owner = r.owner
             /\ q.amount = r.amount /\ q.is_native = r.is_native
             /\ q.close_authority = r.close_authority
  BY Zenon DEF SpendAllowance, AccountType

\* A transfer keeps both amounts, and both lamport balances, in u64.
LEMMA TransferType ==
  ASSUME TypeOK, NEW a \in Accounts, NEW b \in Accounts, NEW k, NEW n \in Amounts,
         NEW signed, Transfer(a, b, k, n, signed)
  PROVE  TypeOK'
<1>1. CASE a = b
  BY Zenon, <1>1 DEF Transfer, TypeOK
<1>2. CASE a # b
  <2>1. account[a] \in AccountType /\ account[b] \in AccountType
    BY Zenon DEF TypeOK
  <2>0. account[a].amount \in Amounts /\ account[b].amount \in Amounts
    BY Zenon, <2>1 DEF AccountType
  <2>2. /\ account[a].amount - n \in Amounts /\ account[b].amount + n \in Amounts
        /\ account[a].delegate = k => account[a].delegated_amount >= n
    BY Zenon, <1>2, <2>0, <2>1, AmountArithmetic
    DEF Transfer, MoveTokens, MayMove
  <2> DEFINE q == SpendAllowance(account[a], k, n)
  <2>3. q \in AccountType /\ q.amount = account[a].amount
    BY <2>1, <2>2, SpendType, SpendFields
  <2>m. MoveTokens(a, b, k, n)
    BY Zenon, <1>2 DEF Transfer
  <2>4. account' = [account EXCEPT ![a] = [q EXCEPT !.amount = @ - n],
                                   ![b].amount = @ + n]
    BY Zenon, <2>m DEF MoveTokens
  <2> HIDE DEF q
  <2>5. [q EXCEPT !.amount = @ - n] \in AccountType
    BY Zenon, <2>2, <2>3, AccountFields
  <2>6. [account[b] EXCEPT !.amount = @ + n] \in AccountType
    BY Zenon, <2>1, <2>2, AccountFields
  <2>7. account' \in [Accounts -> AccountType]
    BY Zenon, <1>2, <2>4, <2>5, <2>6 DEF TypeOK
  <2>8. lamports' \in [Accounts -> Amounts]
    <3>1. CASE account[a].is_native
      <4>1. lamports[a] - n \in Amounts /\ lamports[b] + n \in Amounts
        BY Zenon, <2>m, <3>1, AmountArithmetic DEF MoveTokens, TypeOK
      <4> QED
        BY Zenon, <1>2, <2>m, <3>1, <4>1 DEF MoveTokens, TypeOK
    <3>2. CASE ~account[a].is_native
      BY Zenon, <2>m, <3>2 DEF MoveTokens, TypeOK
    <3> QED
      BY Zenon, <3>1, <3>2
  <2> QED
    BY Zenon, <2>7, <2>8 DEF Transfer, TypeOK
<1> QED
  BY Zenon, <1>1, <1>2

\* Minting keeps the amount and the supply in u64.
LEMMA MintToType ==
  ASSUME TypeOK, NEW m \in Mints, NEW a \in Accounts, NEW n \in Amounts,
         NEW signed, MintTo(m, a, n, signed)
  PROVE  TypeOK'
<1>1. account[a] \in AccountType /\ mint[m] \in MintType
  BY Zenon DEF TypeOK
<1>2. account[a].amount + n \in Amounts /\ mint[m].supply + n \in Amounts
  BY Zenon, <1>1, AmountArithmetic DEF MintTo, AccountType, MintType
<1>3. [account[a] EXCEPT !.amount = @ + n] \in AccountType
  BY Zenon, <1>1, <1>2, AccountFields
<1>4. [mint[m] EXCEPT !.supply = @ + n] \in MintType
  BY Zenon, <1>1, <1>2 DEF MintType
<1> QED
  BY Zenon, <1>3, <1>4 DEF MintTo, TypeOK

\* The record of an account after a burn, before the amount is taken off it.
BurnRecord(a, k, n) ==
  IF IsOwnedBySystemProgramOrIncinerator(a) THEN account[a]
  ELSE SpendAllowance(account[a], k, n)

\* Burning spends the allowance as a transfer does, unless nobody owns the
\* account, and writes nothing else of it but the amount.
LEMMA BurnRecordType ==
  ASSUME TypeOK, NEW m \in Mints, NEW a \in Accounts, NEW k, NEW n \in Amounts,
         NEW signed, Burn(a, m, k, n, signed)
  PROVE  /\ BurnRecord(a, k, n) \in AccountType
         /\ BurnRecord(a, k, n).amount = account[a].amount
         /\ BurnRecord(a, k, n).is_native = account[a].is_native
         /\ BurnRecord(a, k, n).mint = account[a].mint
         /\ BurnRecord(a, k, n).state = account[a].state
         /\ account' = [account EXCEPT ![a] =
                          [BurnRecord(a, k, n) EXCEPT !.amount = @ - n]]
<1>1. account[a] \in AccountType
  BY Zenon DEF TypeOK
<1>2. account' = [account EXCEPT ![a] =
                    [BurnRecord(a, k, n) EXCEPT !.amount = @ - n]]
  BY Zenon DEF Burn, BurnRecord
<1>3. CASE IsOwnedBySystemProgramOrIncinerator(a)
  BY Zenon, <1>1, <1>2, <1>3 DEF BurnRecord
<1>4. CASE ~IsOwnedBySystemProgramOrIncinerator(a)
  <2>1. account[a].delegate = k => account[a].delegated_amount >= n
    BY Zenon, <1>4 DEF Burn, MayMove
  <2>2. SpendAllowance(account[a], k, n) \in AccountType
    BY Zenon, <1>1, <2>1, SpendType
  <2>3. BurnRecord(a, k, n) = SpendAllowance(account[a], k, n)
    BY Zenon, <1>4 DEF BurnRecord
  <2> QED
    BY <1>1, <1>2, <2>2, <2>3, SpendFields
<1> QED
  BY Zenon, <1>3, <1>4

\* Burning takes no more than the account and the supply have.
LEMMA BurnType ==
  ASSUME TypeOK, NEW m \in Mints, NEW a \in Accounts, NEW k, NEW n \in Amounts,
         NEW signed, Burn(a, m, k, n, signed)
  PROVE  TypeOK'
<1>1. account[a] \in AccountType /\ mint[m] \in MintType
  BY Zenon DEF TypeOK
<1>2. account[a].amount - n \in Amounts /\ mint[m].supply - n \in Amounts
  BY Zenon, <1>1, AmountArithmetic DEF Burn, AccountType, MintType
<1>b. BurnRecord(a, k, n) \in AccountType
      /\ BurnRecord(a, k, n).amount = account[a].amount
  BY BurnRecordType
<1>3. [BurnRecord(a, k, n) EXCEPT !.amount = @ - n] \in AccountType
  BY Zenon, <1>2, <1>b, AccountFields
<1>4. [mint[m] EXCEPT !.supply = @ - n] \in MintType
  BY Zenon, <1>1, <1>2 DEF MintType
<1>5. account' \in [Accounts -> AccountType]
  BY <1>3, BurnRecordType DEF TypeOK
<1> QED
  BY Zenon, <1>4, <1>5 DEF Burn, TypeOK

\* Changing an authority, approving and freezing keep the types.
LEMMA AuthorityType == ASSUME TypeOK, NEW signed, AuthorityNext(signed) PROVE TypeOK'
<1>0. /\ 0 \in Amounts /\ Allowances \subseteq Amounts
      /\ Delegates \cup Owners \cup CloseAuthorities \subseteq OptionalAddresses
      /\ MintAuthorities \cup FreezeAuthorities \subseteq OptionalAddresses
      /\ None \in OptionalAddresses
  BY TokenAssumption DEF Amounts, OptionalAddresses
<1>1. ASSUME NEW a \in Accounts, NEW k \in Delegates, NEW n \in Allowances,
             Approve(a, k, n, signed)
      PROVE  TypeOK'
  <2>1. [account[a] EXCEPT !.delegate = k, !.delegated_amount = n] \in AccountType
    BY Zenon, <1>0, AccountFields DEF TypeOK
  <2>2. account' = [account EXCEPT ![a] =
          [account[a] EXCEPT !.delegate = k, !.delegated_amount = n]]
    BY Zenon, <1>1 DEF Approve, TypeOK
  <2> QED
    BY Zenon, <1>1, <2>1, <2>2 DEF Approve, TypeOK
<1>2. ASSUME NEW a \in Accounts, Revoke(a, signed) PROVE TypeOK'
  <2>1. [account[a] EXCEPT !.delegate = None, !.delegated_amount = 0]
          \in AccountType
    BY Zenon, <1>0, AccountFields DEF TypeOK
  <2>2. account' = [account EXCEPT ![a] =
          [account[a] EXCEPT !.delegate = None, !.delegated_amount = 0]]
    BY Zenon, <1>2 DEF Revoke, TypeOK
  <2> QED
    BY Zenon, <1>2, <2>1, <2>2 DEF Revoke, TypeOK
<1>3. ASSUME NEW a \in Accounts, NEW k \in Owners, SetAccountOwner(a, k, signed)
      PROVE  TypeOK'
  <2>1. account[a] \in AccountType
    BY Zenon DEF TypeOK
  <2>2. account'[a] \in AccountType
    BY Zenon, <1>0, <1>3, <2>1 DEF SetAccountOwner, TypeOK, AccountType
  <2> QED
    BY Zenon, <1>3, <2>2 DEF SetAccountOwner, TypeOK
<1>4. ASSUME NEW a \in Accounts, NEW k \in CloseAuthorities \cup {None},
             SetCloseAuthority(a, k, signed)
      PROVE  TypeOK'
  BY <1>0, <1>4 DEF SetCloseAuthority, TypeOK, AccountType
<1>5. ASSUME NEW a \in Accounts, NEW f \in BOOLEAN, ToggleFreeze(a, f, signed)
      PROVE  TypeOK'
  BY <1>5 DEF ToggleFreeze, TypeOK, AccountType
<1>6. ASSUME NEW m \in Mints, NEW k \in MintAuthorities \cup {None},
             SetMintAuthority(m, k, signed)
      PROVE  TypeOK'
  BY Zenon, <1>0, <1>6 DEF SetMintAuthority, TypeOK, MintType
<1>7. ASSUME NEW m \in Mints, NEW k \in FreezeAuthorities \cup {None},
             SetFreezeAuthority(m, k, signed)
      PROVE  TypeOK'
  BY Zenon, <1>0, <1>7 DEF SetFreezeAuthority, TypeOK, MintType
<1> QED
  BY Zenon, <1>1, <1>2, <1>3, <1>4, <1>5, <1>6, <1>7 DEF AuthorityNext

\* Closing, synchronising and sending lamports keep the types.
LEMMA LamportType == ASSUME TypeOK, NEW signed, LamportNext(signed) PROVE TypeOK'
<1>1. ASSUME NEW a \in Accounts, NEW d \in Accounts \cup {None},
             CloseAccount(a, d, signed)
      PROVE  TypeOK'
  <2>1. account' \in [Accounts -> AccountType]
    BY Zenon, <1>1, ZeroTypes DEF CloseAccount, TypeOK
  <2>2. 0 \in Amounts /\ lamports[a] \in Nat
    BY TokenAssumption DEF TypeOK, Amounts
  <2>3. CASE d = None
    BY <1>1, <2>1, <2>2, <2>3 DEF CloseAccount, TypeOK
  <2>4. CASE d # None
    <3>1. d \in Accounts /\ lamports[d] + lamports[a] \in Amounts
      BY Zenon, <1>1, <2>4, AmountArithmetic DEF CloseAccount, TypeOK
    <3> QED
      BY Zenon, <1>1, <2>1, <2>2, <2>4, <3>1 DEF CloseAccount, TypeOK
  <2> QED
    BY Zenon, <2>3, <2>4
<1>2. ASSUME NEW a \in Accounts, SyncNative(a) PROVE TypeOK'
  <2>1. account[a] \in AccountType
    BY Zenon DEF TypeOK
  <2>2. lamports[a] - Reserve \in Amounts
    BY <1>2, <2>1, TokenAssumption DEF SyncNative, TypeOK, AccountType, Amounts
  <2> QED
    BY Zenon, <1>2, <2>1, <2>2, AccountFields DEF SyncNative, TypeOK
<1>3. ASSUME NEW a \in Accounts, NEW n \in Amounts, SystemTransfer(a, n)
      PROVE  TypeOK'
  <2>1. lamports[a] + n \in Amounts /\ wallet - n \in Nat
    BY <1>3, TokenAssumption DEF SystemTransfer, TypeOK, Amounts
  <2> QED
    BY Zenon, <1>3, <2>1 DEF SystemTransfer, TypeOK
<1> QED
  BY Zenon, <1>1, <1>2, <1>3 DEF LamportNext

\* Every instruction keeps the types.
LEMMA StepType == ASSUME TypeOK, NEW signed, Step(signed) PROVE TypeOK'
<1>1. CASE CreateNext
  BY Zenon, <1>1, CreateType
<1>2. CASE MoveNext(signed)
  BY Zenon, <1>2, TransferType, MintToType, BurnType DEF MoveNext
<1>3. CASE AuthorityNext(signed)
  BY Zenon, <1>3, AuthorityType
<1>4. CASE LamportNext(signed)
  BY Zenon, <1>4, LamportType
<1> QED
  BY Zenon, <1>1, <1>2, <1>3, <1>4 DEF Step

\* Type correctness: no amount, supply or lamport balance ever leaves u64.
THEOREM TypeCorrect == Spec => []TypeOK
<1>1. TypeOK /\ [Next]_vars => TypeOK'
  <2> SUFFICES ASSUME TypeOK, [Next]_vars PROVE TypeOK'
    BY Zenon
  <2>1. CASE Next
    BY Zenon, <2>1, StepType DEF Next
  <2>2. CASE UNCHANGED vars
    BY Zenon, <2>2 DEF vars, TypeOK
  <2> QED
    BY <2>1, <2>2
<1> QED
  BY <1>1, InitType, PTL DEF Spec

-----------------------------------------------------------------------------
(* Native accounts and allowances *)

\* An account is native exactly when it is an account of the native mint, so a
\* transfer, which compares the mints only, is native on both sides or none.
NativeMatchesMint ==
  \A a \in Accounts :
    IsInitialized(a) => (account[a].is_native <=> account[a].mint = NativeMint)

\* A closed account holds nothing, and a native account is never frozen.
StatesAgree ==
  \A a \in Accounts :
    /\ account[a].is_native => account[a].state = "Initialized"
    /\ ~IsInitialized(a) => account[a].amount = 0

AccountInv ==
  NativeIsBacked /\ NativeMatchesMint /\ StatesAgree /\ AllowanceHasDelegate

\* What the invariant says of one account.
AccountOK(r, held) ==
  /\ r.is_native => held >= Reserve + r.amount
  /\ r.state # "Uninitialized" => (r.is_native <=> r.mint = NativeMint)
  /\ r.is_native => r.state = "Initialized"
  /\ r.state = "Uninitialized" => r.amount = 0
  /\ r.delegate = None => r.delegated_amount = 0

\* The invariant speaks of one account at a time.
LEMMA AccountInvIsLocal ==
  AccountInv <=> \A a \in Accounts : AccountOK(account[a], lamports[a])
BY Zenon DEF AccountInv, NativeIsBacked, NativeMatchesMint, StatesAgree, AllowanceHasDelegate,
       AccountOK, IsInitialized

\* Spending an allowance keeps the record in order.
LEMMA SpendOK ==
  ASSUME NEW r \in AccountType, NEW k, NEW n, NEW h, k # None, AccountOK(r, h)
  PROVE  AccountOK(SpendAllowance(r, k, n), h)
<1>1. CASE r.delegate # k
  BY Zenon, <1>1 DEF SpendAllowance
<1>2. CASE r.delegate = k
  <2> DEFINE q == SpendAllowance(r, k, n)
  <2>1. q.delegate = None => q.delegated_amount = 0
    BY <1>2 DEF SpendAllowance, AccountType, Amounts
  <2>2. /\ q.state = r.state /\ q.mint = r.mint /\ q.amount = r.amount
        /\ q.is_native = r.is_native
    BY SpendFields
  <2> HIDE DEF q
  <2>3. AccountOK(q, h)
    BY Zenon, <2>1, <2>2 DEF AccountOK
  <2> QED
    BY Zenon, <2>3 DEF q
<1> QED
  BY Zenon, <1>1, <1>2

\* A new account starts in order.
LEMMA CreateOK == ASSUME TypeOK, AccountInv, CreateNext PROVE AccountInv'
<1> SUFFICES ASSUME NEW c \in Accounts PROVE AccountOK(account[c], lamports[c])'
  BY Zenon DEF AccountInv, NativeIsBacked, NativeMatchesMint, StatesAgree,
         AllowanceHasDelegate, AccountOK, IsInitialized
<1>1. AccountOK(account[c], lamports[c]) /\ lamports[c] \in Int
  BY AccountInvIsLocal DEF TypeOK, Amounts
<1>2. CASE UNCHANGED <<account, lamports>>
  BY Zenon, <1>1, <1>2
<1>3. ASSUME NEW a \in Accounts, NEW m \in Mints \cup {NativeMint},
             NEW o \in Owners, InitializeAccount(a, m, o)
      PROVE  AccountOK(account[c], lamports[c])'
  <2>1. CASE c = a
    <3>1. /\ account'[c].is_native <=> m = NativeMint
          /\ account'[c].mint = m /\ account'[c].state = "Initialized"
          /\ account'[c].delegated_amount = 0 /\ lamports' = lamports
          /\ m = NativeMint => account'[c].amount = lamports[c] - Reserve
      BY Zenon, <1>3, <2>1 DEF InitializeAccount, NoAccount, TypeOK
    <3> QED
      BY <1>1, <3>1, TokenAssumption DEF AccountOK
  <2>2. CASE c # a
    BY Zenon, <1>1, <1>3, <2>2 DEF InitializeAccount, TypeOK
  <2> QED
    BY Zenon, <2>1, <2>2
<1> QED
  BY Zenon, <1>2, <1>3 DEF CreateNext, InitializeMint, InitializeMultisig

\* A transfer moves the lamports of native accounts with their tokens.
LEMMA TransferOK ==
  ASSUME TypeOK, AccountInv, NEW a \in Accounts, NEW b \in Accounts, NEW k,
         NEW n \in Amounts, NEW signed, Transfer(a, b, k, n, signed)
  PROVE  AccountInv'
<1> SUFFICES ASSUME NEW c \in Accounts PROVE AccountOK(account[c], lamports[c])'
  BY Zenon DEF AccountInv, NativeIsBacked, NativeMatchesMint, StatesAgree,
         AllowanceHasDelegate, AccountOK, IsInitialized
<1>1. \A d \in Accounts : /\ AccountOK(account[d], lamports[d])
                          /\ account[d] \in AccountType
                          /\ lamports[d] \in Int /\ account[d].amount \in Int
  BY AccountInvIsLocal DEF TypeOK, AccountType, Amounts
<1>2. CASE a = b
  BY Zenon, <1>1, <1>2 DEF Transfer
<1>3. CASE a # b
  <2> DEFINE q == SpendAllowance(account[a], k, n)
  <2>1. MoveTokens(a, b, k, n) /\ k # None
    BY Zenon, <1>3 DEF Transfer, MayMove
  <2>2. q \in AccountType /\ AccountOK(q, lamports[a]) /\ q.amount = account[a].amount
        /\ q.is_native = account[a].is_native /\ q.state = "Initialized"
    <3>1. account[a].delegate = k => account[a].delegated_amount >= n
      BY Zenon DEF Transfer, MayMove
    <3>2. account[a].state = "Initialized"
      BY Zenon DEF Transfer
    <3> QED
      BY <1>1, <2>1, <3>1, <3>2, SpendOK, SpendType, SpendFields
  <2>3. /\ account[a].is_native <=> account[b].is_native
        /\ account[b].state = "Initialized"
    BY Zenon, <1>1 DEF Transfer, AccountOK
  <2>4. account' = [account EXCEPT ![a] = [q EXCEPT !.amount = @ - n],
                                   ![b].amount = @ + n]
    BY Zenon, <2>1 DEF MoveTokens
  <2>5. \A d \in Accounts :
          lamports'[d] = IF account[a].is_native
                         THEN IF d = a THEN lamports[a] - n
                              ELSE IF d = b THEN lamports[b] + n ELSE lamports[d]
                         ELSE lamports[d]
    BY Zenon, <1>3, <2>1 DEF MoveTokens, TypeOK
  <2> HIDE DEF q
  <2>6. CASE c = a
    <3>1. account'[c] = [q EXCEPT !.amount = @ - n]
      BY Zenon, <1>3, <2>4, <2>6 DEF TypeOK
    <3>2. /\ account'[c].amount = q.amount - n /\ account'[c].mint = q.mint
          /\ account'[c].is_native = q.is_native /\ account'[c].state = q.state
          /\ account'[c].delegate = q.delegate
          /\ account'[c].delegated_amount = q.delegated_amount
      BY Zenon, <2>2, <3>1 DEF AccountType
    <3>3. q.is_native => lamports'[c] = lamports[a] - n
      BY Zenon, <2>2, <2>5, <2>6
    <3>4. q.is_native => lamports'[c] >= Reserve + (q.amount - n)
      <4>1. q.is_native => lamports[a] >= Reserve + q.amount
        BY Zenon, <2>2 DEF AccountOK
      <4>2. lamports[a] \in Int /\ q.amount \in Int /\ n \in Int /\ Reserve \in Int
        BY <1>1, <2>2, TokenAssumption DEF Amounts
      <4> QED
        BY <3>3, <4>1, <4>2
    <3> QED
      BY Zenon, <2>2, <3>2, <3>4 DEF AccountOK
  <2>7. CASE c = b
    <3>1. account'[c] = [account[b] EXCEPT !.amount = @ + n]
      BY Zenon, <1>3, <2>4, <2>7 DEF TypeOK
    <3>2. /\ account'[c].amount = account[b].amount + n
          /\ account'[c].mint = account[b].mint
          /\ account'[c].is_native = account[b].is_native
          /\ account'[c].state = account[b].state
          /\ account'[c].delegate = account[b].delegate
          /\ account'[c].delegated_amount = account[b].delegated_amount
      BY Zenon, <1>1, <3>1 DEF AccountType
    <3> QED
      BY <1>1, <1>3, <2>3, <2>5, <2>7, <3>2, TokenAssumption DEF AccountOK, Amounts
  <2>8. CASE c # a /\ c # b
    BY Zenon, <1>1, <2>4, <2>5, <2>8 DEF TypeOK
  <2> QED
    BY Zenon, <2>6, <2>7, <2>8
<1> QED
  BY Zenon, <1>2, <1>3

\* Minting touches accounts that are not native only.
LEMMA MintToOK ==
  ASSUME TypeOK, AccountInv, NEW m \in Mints, NEW a \in Accounts,
         NEW n \in Amounts, NEW signed, MintTo(m, a, n, signed)
  PROVE  AccountInv'
<1> SUFFICES ASSUME NEW c \in Accounts PROVE AccountOK(account[c], lamports[c])'
  BY Zenon DEF AccountInv, NativeIsBacked, NativeMatchesMint, StatesAgree,
         AllowanceHasDelegate, AccountOK, IsInitialized
<1>1. AccountOK(account[c], lamports[c]) /\ account[c] \in AccountType
  BY Zenon, AccountInvIsLocal DEF TypeOK
<1>2. CASE c = a
  <2>1. /\ ~account[c].is_native /\ lamports' = lamports
        /\ account'[c] = [account[c] EXCEPT !.amount = @ + n]
        /\ account[c].state = "Initialized"
    BY Zenon, <1>2 DEF MintTo, TypeOK
  <2> QED
    BY Zenon, <1>1, <2>1 DEF AccountOK, AccountType
<1>3. CASE c # a
  BY Zenon, <1>1, <1>3 DEF MintTo, TypeOK
<1> QED
  BY Zenon, <1>2, <1>3

\* Burning touches accounts that are not native only.
LEMMA BurnOK ==
  ASSUME TypeOK, AccountInv, NEW m \in Mints, NEW a \in Accounts, NEW k,
         NEW n \in Amounts, NEW signed, Burn(a, m, k, n, signed)
  PROVE  AccountInv'
<1> SUFFICES ASSUME NEW c \in Accounts PROVE AccountOK(account[c], lamports[c])'
  BY Zenon DEF AccountInv, NativeIsBacked, NativeMatchesMint, StatesAgree,
         AllowanceHasDelegate, AccountOK, IsInitialized
<1>1. AccountOK(account[c], lamports[c]) /\ account[c] \in AccountType
  BY Zenon, AccountInvIsLocal DEF TypeOK
<1>2. CASE c = a
  <2> DEFINE q == BurnRecord(a, k, n)
  <2>1. AccountOK(q, lamports[a])
    <3>1. CASE IsOwnedBySystemProgramOrIncinerator(a)
      BY Zenon, <1>1, <1>2, <3>1 DEF BurnRecord
    <3>2. CASE ~IsOwnedBySystemProgramOrIncinerator(a)
      <4>1. k # None
        BY Zenon, <3>2 DEF Burn, MayMove
      <4> QED
        BY Zenon, <1>1, <1>2, <3>2, <4>1, SpendOK DEF BurnRecord
    <3> QED
      BY Zenon, <3>1, <3>2
  <2>2. /\ q \in AccountType /\ q.is_native = account[a].is_native
        /\ q.state = account[a].state
        /\ account' = [account EXCEPT ![a] = [q EXCEPT !.amount = @ - n]]
    BY BurnRecordType
  <2> HIDE DEF q
  <2>3. ~q.is_native /\ lamports' = lamports /\ q.state = "Initialized"
    BY Zenon, <2>2 DEF Burn
  <2>4. account'[c] = [q EXCEPT !.amount = @ - n]
    BY Zenon, <1>2, <2>2 DEF TypeOK
  <2> QED
    BY <1>2, <2>1, <2>2, <2>3, <2>4 DEF AccountOK, AccountType
<1>3. CASE c # a
  BY Zenon, <1>1, <1>3 DEF Burn, TypeOK
<1> QED
  BY Zenon, <1>2, <1>3

\* Changing an authority or the delegate keeps accounts in order.
LEMMA AuthorityOK ==
  ASSUME TypeOK, AccountInv, NEW signed, AuthorityNext(signed)
  PROVE  AccountInv'
<1> SUFFICES ASSUME NEW c \in Accounts PROVE AccountOK(account[c], lamports[c])'
  BY Zenon DEF AccountInv, NativeIsBacked, NativeMatchesMint, StatesAgree,
         AllowanceHasDelegate, AccountOK, IsInitialized
<1>1. AccountOK(account[c], lamports[c]) /\ account[c] \in AccountType
  BY Zenon, AccountInvIsLocal DEF TypeOK
<1>2. None \notin Delegates
  BY Zenon, TokenAssumption
<1>3. ASSUME NEW a \in Accounts, NEW k \in Delegates, NEW n \in Allowances,
             Approve(a, k, n, signed)
      PROVE  AccountOK(account[c], lamports[c])'
  BY Zenon, <1>1, <1>2, <1>3 DEF Approve, TypeOK, AccountOK, AccountType
<1>4. ASSUME NEW a \in Accounts, Revoke(a, signed)
      PROVE  AccountOK(account[c], lamports[c])'
  BY Zenon, <1>1, <1>4 DEF Revoke, TypeOK, AccountOK, AccountType
<1>5. ASSUME NEW a \in Accounts, NEW k \in Owners, SetAccountOwner(a, k, signed)
      PROVE  AccountOK(account[c], lamports[c])'
  BY Zenon, <1>1, <1>5 DEF SetAccountOwner, TypeOK, AccountOK, AccountType
<1>6. ASSUME NEW a \in Accounts, NEW k \in CloseAuthorities \cup {None},
             SetCloseAuthority(a, k, signed)
      PROVE  AccountOK(account[c], lamports[c])'
  BY Zenon, <1>1, <1>6 DEF SetCloseAuthority, TypeOK, AccountOK, AccountType
<1>7. ASSUME NEW a \in Accounts, NEW f \in BOOLEAN, ToggleFreeze(a, f, signed)
      PROVE  AccountOK(account[c], lamports[c])'
  BY Zenon, <1>1, <1>7 DEF ToggleFreeze, TypeOK, AccountOK, AccountType
<1>8. CASE UNCHANGED <<account, lamports>>
  BY Zenon, <1>1, <1>8
<1> QED
  BY Zenon, <1>3, <1>4, <1>5, <1>6, <1>7, <1>8
  DEF AuthorityNext, SetMintAuthority, SetFreezeAuthority

\* Lamports only leave an account with its tokens.
LEMMA LamportOK ==
  ASSUME TypeOK, AccountInv, NEW signed, LamportNext(signed)
  PROVE  AccountInv'
<1> SUFFICES ASSUME NEW c \in Accounts PROVE AccountOK(account[c], lamports[c])'
  BY Zenon DEF AccountInv, NativeIsBacked, NativeMatchesMint, StatesAgree,
         AllowanceHasDelegate, AccountOK, IsInitialized
<1>1. /\ AccountOK(account[c], lamports[c]) /\ account[c] \in AccountType
      /\ lamports[c] \in Nat /\ account[c].amount \in Nat /\ Reserve \in Nat
  BY AccountInvIsLocal, TokenAssumption DEF TypeOK, AccountType, Amounts
<1>2. ASSUME NEW a \in Accounts, NEW d \in Accounts \cup {None},
             CloseAccount(a, d, signed)
      PROVE  AccountOK(account[c], lamports[c])'
  <2>1. CASE c = a
    BY Zenon, <1>2, <2>1 DEF CloseAccount, TypeOK, AccountOK, NoAccount
  <2>2. CASE c # a
    <3>1. account'[c] = account[c]
      BY Zenon, <1>2, <2>2 DEF CloseAccount, TypeOK
    <3>2. lamports[a] \in Nat
      BY DEF TypeOK, Amounts
    <3>3. lamports'[c] = lamports[c] \/ lamports'[c] = lamports[c] + lamports[a]
      BY Zenon, <1>2, <2>2 DEF CloseAccount, TypeOK
    <3> QED
      BY <1>1, <3>1, <3>2, <3>3 DEF AccountOK
  <2> QED
    BY Zenon, <2>1, <2>2
<1>3. ASSUME NEW a \in Accounts, SyncNative(a)
      PROVE  AccountOK(account[c], lamports[c])'
  BY <1>1, <1>3 DEF SyncNative, TypeOK, AccountOK, AccountType
<1>4. ASSUME NEW a \in Accounts, NEW n \in Amounts, SystemTransfer(a, n)
      PROVE  AccountOK(account[c], lamports[c])'
  <2>1. n \in Nat
    BY DEF Amounts
  <2>2. lamports'[c] = lamports[c] \/ lamports'[c] = lamports[c] + n
    BY Zenon, <1>4 DEF SystemTransfer, TypeOK
  <2> QED
    BY <1>1, <1>4, <2>1, <2>2 DEF SystemTransfer, AccountOK
<1> QED
  BY Zenon, <1>2, <1>3, <1>4 DEF LamportNext

\* The invariant of accounts is inductive.
LEMMA AccountInvInductive ==
  ASSUME TypeOK, AccountInv, [Next]_vars PROVE AccountInv'
<1>1. ASSUME NEW signed \in SUBSET Keys, Step(signed) PROVE AccountInv'
  <2>1. CASE CreateNext
    BY Zenon, <2>1, CreateOK
  <2>2. CASE MoveNext(signed)
    BY Zenon, <2>2, TransferOK, MintToOK, BurnOK DEF MoveNext
  <2>3. CASE AuthorityNext(signed)
    BY Zenon, <2>3, AuthorityOK
  <2>4. CASE LamportNext(signed)
    BY Zenon, <2>4, LamportOK
  <2> QED
    BY Zenon, <1>1, <2>1, <2>2, <2>3, <2>4 DEF Step
<1>2. CASE UNCHANGED vars
  BY Zenon, <1>2 DEF vars, AccountInv, NativeIsBacked, NativeMatchesMint, StatesAgree,
              AllowanceHasDelegate, IsInitialized
<1> QED
  BY Zenon, <1>1, <1>2 DEF Next

\* The invariant of accounts holds in every reachable state.
LEMMA AccountInvAlways == Spec => []AccountInv
<1>1. Init => AccountInv
  BY DEF Init, AccountInv, NativeIsBacked, NativeMatchesMint, StatesAgree,
         AllowanceHasDelegate, IsInitialized, NoAccount
<1> QED
  BY <1>1, AccountInvInductive, TypeCorrect, PTL DEF Spec

\* A native account never owes more tokens than the lamports it holds above
\* the rent reserve, whoever transfers, closes or sends lamports to it.
THEOREM NativeAlwaysBacked == Spec => []NativeIsBacked
BY AccountInvAlways, PTL DEF AccountInv

\* No instruction leaves an allowance behind without a delegate.
THEOREM AllowanceAlwaysHasDelegate == Spec => []AllowanceHasDelegate
BY AccountInvAlways, PTL DEF AccountInv

-----------------------------------------------------------------------------
(* What a step may never do *)

\* Giving up the mint authority fixes the supply for ever: no instruction
\* appoints a mint authority or adds to the supply without one.
THEOREM SupplyStaysFixed == Spec => FixedSupply
<1>1. ASSUME TypeOK, [Next]_vars, NEW m \in Mints,
             mint[m].is_initialized, mint[m].mint_authority = None
      PROVE  /\ mint'[m].mint_authority = None
             /\ mint'[m].supply <= mint[m].supply
  <2>1. mint[m] \in MintType /\ mint[m].supply \in Int
    BY <1>1 DEF TypeOK, MintType, Amounts
  <2>2. CASE mint'[m] = mint[m]
    BY <1>1, <2>1, <2>2
  <2>3. CASE CreateNext
    BY Zenon, <1>1, <2>2, <2>3
    DEF CreateNext, InitializeMint, InitializeAccount, InitializeMultisig, TypeOK
  <2>4. ASSUME NEW signed, MoveNext(signed)
        PROVE  /\ mint'[m].mint_authority = None
               /\ mint'[m].supply <= mint[m].supply
    <3>1. ASSUME NEW a \in Accounts, NEW n \in Amounts, NEW b \in Accounts,
                 NEW k \in Addresses, Transfer(a, b, k, n, signed)
          PROVE  mint'[m] = mint[m]
      BY Zenon, <3>1 DEF Transfer
    <3>2. ASSUME NEW a \in Accounts, NEW n \in Amounts, NEW q \in Mints,
                 MintTo(q, a, n, signed)
          PROVE  mint'[m] = mint[m]
      BY Zenon, <1>1, <3>2 DEF MintTo, TypeOK
    <3>3. ASSUME NEW a \in Accounts, NEW n \in Amounts, NEW q \in Mints,
                 NEW k \in Addresses, Burn(a, q, k, n, signed)
          PROVE  /\ mint'[m].mint_authority = None
                 /\ mint'[m].supply <= mint[m].supply
      BY <1>1, <2>1, <3>3 DEF Burn, TypeOK, MintType, Amounts
    <3> QED
      BY Zenon, <2>2, <2>4, <3>1, <3>2, <3>3 DEF MoveNext
  <2>5. ASSUME NEW signed, AuthorityNext(signed)
        PROVE  /\ mint'[m].mint_authority = None
               /\ mint'[m].supply <= mint[m].supply
    <3>1. ASSUME NEW q \in Mints, NEW k \in MintAuthorities \cup {None},
                 SetMintAuthority(q, k, signed)
          PROVE  mint'[m] = mint[m]
      BY Zenon, <1>1, <3>1 DEF SetMintAuthority, TypeOK
    <3>2. ASSUME NEW q \in Mints, NEW k \in FreezeAuthorities \cup {None},
                 SetFreezeAuthority(q, k, signed)
          PROVE  /\ mint'[m].mint_authority = None
                 /\ mint'[m].supply <= mint[m].supply
      BY <1>1, <2>1, <3>2 DEF SetFreezeAuthority, TypeOK, MintType
    <3>3. CASE mint' = mint
      BY Zenon, <2>2, <3>3
    <3> QED
      BY Zenon, <2>2, <2>5, <3>1, <3>2, <3>3
      DEF AuthorityNext, Approve, Revoke, SetAccountOwner, SetCloseAuthority,
          ToggleFreeze
  <2>6. ASSUME NEW signed, LamportNext(signed) PROVE mint'[m] = mint[m]
    BY Zenon, <2>6 DEF LamportNext, CloseAccount, SyncNative, SystemTransfer
  <2>7. CASE UNCHANGED vars
    BY Zenon, <2>2, <2>7 DEF vars
  <2> QED
    BY Zenon, <1>1, <2>2, <2>3, <2>4, <2>5, <2>6, <2>7 DEF Next, Step
<1>2. TypeOK /\ [Next]_vars =>
        [\A m \in Mints :
           mint[m].is_initialized /\ mint[m].mint_authority = None =>
             /\ mint'[m].mint_authority = None
             /\ mint'[m].supply <= mint[m].supply]_vars
  BY <1>1
<1> QED
  BY <1>2, TypeCorrect, PTL DEF Spec, FixedSupply

\* Everything an instruction can do to an account, and who has to sign for it.
Spent(a, k, n) == [SpendAllowance(account[a], k, n) EXCEPT !.amount = @ - n]
StepEffect(a, signed) ==
  \/ account'[a] = account[a]
  \/ account[a].state = "Uninitialized" /\ account'[a].delegate = None
  \/ /\ account[a].state = "Initialized"
     /\ \/ \E n \in Amounts :
             /\ account'[a] = [account[a] EXCEPT !.amount = n]
             /\ n >= account[a].amount \/ account[a].owner = SystemKey
        \/ \E k \in Addresses, n \in Amounts :
             MayMove(a, k, n, signed) /\ account'[a] = Spent(a, k, n)
        \/ /\ ValidateOwner(account[a].owner, signed)
           /\ account'[a].amount = account[a].amount
        \/ \E k : account'[a] = [account[a] EXCEPT !.close_authority = k]
        \/ account'[a] = [account[a] EXCEPT !.state = "Frozen"]
  \/ account'[a] = [account[a] EXCEPT !.state = "Initialized"]
  \/ /\ account'[a] = NoAccount
     /\ account[a].is_native \/ account[a].amount = 0
     /\ account[a].owner = SystemKey \/ ValidateOwner(CloseAuthority(a), signed)

\* What Transfer, MintTo and Burn do to an account.
LEMMA MoveEffect ==
  ASSUME TypeOK, NEW signed, MoveNext(signed), NEW c \in Accounts
  PROVE  StepEffect(c, signed)
<1>1. account[c] \in AccountType
  BY Zenon DEF TypeOK
<1>2. ASSUME NEW a \in Accounts, NEW n \in Amounts, NEW b \in Accounts,
             NEW k \in Addresses, Transfer(a, b, k, n, signed)
      PROVE  StepEffect(c, signed)
  <2>1. CASE a = b
    BY Zenon, <1>2, <2>1 DEF Transfer, StepEffect
  <2>2. CASE a # b
    <3>1. MoveTokens(a, b, k, n)
      BY Zenon, <1>2, <2>2 DEF Transfer
    <3>2. CASE c = a
      <4>1. account'[c] = Spent(c, k, n)
        BY Zenon, <2>2, <3>1, <3>2 DEF MoveTokens, TypeOK, Spent
      <4>2. account[c].state = "Initialized" /\ MayMove(c, k, n, signed)
        BY Zenon, <1>2, <3>2 DEF Transfer
      <4> QED
        BY Zenon, <4>1, <4>2 DEF StepEffect
    <3>3. CASE c = b
      <4>1. account'[c] = [account[c] EXCEPT !.amount = account[c].amount + n]
        BY Zenon, <2>2, <3>1, <3>3 DEF MoveTokens, TypeOK
      <4>2. /\ account[c].amount + n \in Amounts
            /\ account[c].amount + n >= account[c].amount
        BY Zenon, <1>1, <3>1, <3>3, AmountArithmetic DEF MoveTokens, AccountType
      <4>3. account[c].state = "Initialized"
        BY Zenon, <1>2, <3>3 DEF Transfer
      <4> QED
        BY Zenon, <4>1, <4>2, <4>3 DEF StepEffect
    <3>4. CASE c # a /\ c # b
      BY Zenon, <3>1, <3>4 DEF MoveTokens, TypeOK, StepEffect
    <3> QED
      BY Zenon, <3>2, <3>3, <3>4
  <2> QED
    BY Zenon, <2>1, <2>2
<1>3. ASSUME NEW a \in Accounts, NEW n \in Amounts, NEW m \in Mints,
             MintTo(m, a, n, signed)
      PROVE  StepEffect(c, signed)
  <2>1. CASE c = a
    <3>1. account'[c] = [account[c] EXCEPT !.amount = account[c].amount + n]
      BY Zenon, <1>3, <2>1 DEF MintTo, TypeOK
    <3>2. /\ account[c].amount + n \in Amounts
          /\ account[c].amount + n >= account[c].amount
      BY Zenon, <1>1, <1>3, <2>1, AmountArithmetic DEF MintTo, AccountType
    <3>3. account[c].state = "Initialized"
      BY Zenon, <1>3, <2>1 DEF MintTo
    <3> QED
      BY Zenon, <3>1, <3>2, <3>3 DEF StepEffect
  <2>2. CASE c # a
    BY Zenon, <1>3, <2>2 DEF MintTo, TypeOK, StepEffect
  <2> QED
    BY Zenon, <2>1, <2>2
<1>4. ASSUME NEW a \in Accounts, NEW n \in Amounts, NEW m \in Mints,
             NEW k \in Addresses, Burn(a, m, k, n, signed)
      PROVE  StepEffect(c, signed)
  <2>1. CASE c = a
    <3>1. account'[c] = [BurnRecord(c, k, n) EXCEPT !.amount = @ - n]
      BY <1>4, <2>1, BurnRecordType DEF TypeOK
    <3>2. account[c].state = "Initialized"
      BY Zenon, <1>4, <2>1 DEF Burn
    <3>3. CASE IsOwnedBySystemProgramOrIncinerator(c)
      <4>1. account'[c] = [account[c] EXCEPT !.amount = account[c].amount - n]
        BY Zenon, <3>1, <3>3 DEF BurnRecord
      <4>2. account[c].amount - n \in Amounts
        BY Zenon, <1>1, <1>4, <2>1, AmountArithmetic DEF Burn, AccountType
      <4> QED
        BY Zenon, <3>2, <3>3, <4>1, <4>2
        DEF StepEffect, IsOwnedBySystemProgramOrIncinerator
    <3>4. CASE ~IsOwnedBySystemProgramOrIncinerator(c)
      <4>1. account'[c] = Spent(c, k, n)
        BY Zenon, <3>1, <3>4 DEF BurnRecord, Spent
      <4>2. MayMove(c, k, n, signed)
        BY Zenon, <1>4, <2>1, <3>4 DEF Burn
      <4> QED
        BY Zenon, <3>2, <4>1, <4>2 DEF StepEffect
    <3> QED
      BY Zenon, <3>3, <3>4
  <2>2. CASE c # a
    BY Zenon, <1>4, <2>2 DEF Burn, TypeOK, StepEffect
  <2> QED
    BY Zenon, <2>1, <2>2
<1> QED
  BY Zenon, <1>2, <1>3, <1>4 DEF MoveNext

\* What approving, revoking, freezing and SetAuthority do to an account.
LEMMA AuthorityEffect ==
  ASSUME TypeOK, NEW signed, AuthorityNext(signed), NEW c \in Accounts
  PROVE  StepEffect(c, signed)
<1>1. account[c] \in AccountType
  BY Zenon DEF TypeOK
<1>2. ASSUME NEW a \in Accounts, NEW k \in Delegates, NEW n \in Allowances,
             Approve(a, k, n, signed)
      PROVE  StepEffect(c, signed)
  BY Zenon, <1>1, <1>2 DEF Approve, TypeOK, StepEffect, AccountType
<1>3. ASSUME NEW a \in Accounts, Revoke(a, signed) PROVE StepEffect(c, signed)
  BY Zenon, <1>1, <1>3 DEF Revoke, TypeOK, StepEffect, AccountType
<1>4. ASSUME NEW a \in Accounts, NEW k \in Owners, SetAccountOwner(a, k, signed)
      PROVE  StepEffect(c, signed)
  BY Zenon, <1>1, <1>4 DEF SetAccountOwner, TypeOK, StepEffect, AccountType
<1>5. ASSUME NEW a \in Accounts, NEW k \in CloseAuthorities \cup {None},
             SetCloseAuthority(a, k, signed)
      PROVE  StepEffect(c, signed)
  <2>1. CASE c = a
    <3>1. account'[c] = [account[c] EXCEPT !.close_authority = k]
          /\ account[c].state = "Initialized"
      BY Zenon, <1>5, <2>1 DEF SetCloseAuthority, TypeOK
    <3> QED
      BY Zenon, <3>1 DEF StepEffect
  <2>2. CASE c # a
    BY Zenon, <1>5, <2>2 DEF SetCloseAuthority, TypeOK, StepEffect
  <2> QED
    BY Zenon, <2>1, <2>2
<1>6. ASSUME NEW a \in Accounts, NEW f \in BOOLEAN, ToggleFreeze(a, f, signed)
      PROVE  StepEffect(c, signed)
  BY Zenon, <1>6 DEF ToggleFreeze, TypeOK, StepEffect
<1>7. CASE account' = account
  BY Zenon, <1>7 DEF StepEffect
<1> QED
  BY Zenon, <1>2, <1>3, <1>4, <1>5, <1>6, <1>7
  DEF AuthorityNext, SetMintAuthority, SetFreezeAuthority

\* What opening, closing and synchronising do to an account.
LEMMA OtherEffect ==
  ASSUME TypeOK, AccountInv, NEW signed, CreateNext \/ LamportNext(signed),
         NEW c \in Accounts
  PROVE  StepEffect(c, signed)
<1>1. account[c] \in AccountType /\ AccountOK(account[c], lamports[c])
  BY Zenon, AccountInvIsLocal DEF TypeOK
<1>2. ASSUME NEW a \in Accounts, NEW m \in Mints \cup {NativeMint},
             NEW o \in Owners, InitializeAccount(a, m, o)
      PROVE  StepEffect(c, signed)
  BY Zenon, <1>2 DEF InitializeAccount, TypeOK, StepEffect, NoAccount, IsInitialized
<1>3. ASSUME NEW a \in Accounts, NEW d \in Accounts \cup {None},
             CloseAccount(a, d, signed)
      PROVE  StepEffect(c, signed)
  <2>1. CASE c = a
    BY Zenon, <1>3, <2>1
    DEF CloseAccount, TypeOK, StepEffect, IsOwnedBySystemProgramOrIncinerator
  <2>2. CASE c # a
    BY Zenon, <1>3, <2>2 DEF CloseAccount, TypeOK, StepEffect
  <2> QED
    BY Zenon, <2>1, <2>2
<1>4. ASSUME NEW a \in Accounts, SyncNative(a) PROVE StepEffect(c, signed)
  <2>1. CASE c = a
    <3>1. account'[c] = [account[c] EXCEPT !.amount = lamports[c] - Reserve]
          /\ account[c].state = "Initialized"
      BY Zenon, <1>1, <1>4, <2>1 DEF SyncNative, TypeOK, AccountOK
    <3>2. /\ lamports[c] - Reserve \in Amounts
          /\ lamports[c] - Reserve >= account[c].amount
      BY <1>1, <1>4, <2>1, TokenAssumption
      DEF SyncNative, TypeOK, AccountType, Amounts
    <3> QED
      BY Zenon, <3>1, <3>2 DEF StepEffect
  <2>2. CASE c # a
    BY Zenon, <1>4, <2>2 DEF SyncNative, TypeOK, StepEffect
  <2> QED
    BY Zenon, <2>1, <2>2
<1>5. CASE account' = account
  BY Zenon, <1>5 DEF StepEffect
<1> QED
  BY Zenon, <1>2, <1>3, <1>4, <1>5
  DEF CreateNext, InitializeMint, InitializeMultisig, LamportNext, SystemTransfer

\* What any instruction does to an account.
LEMMA EveryEffect ==
  ASSUME TypeOK, AccountInv, NEW signed, Step(signed), NEW c \in Accounts
  PROVE  StepEffect(c, signed)
BY Zenon, MoveEffect, AuthorityEffect, OtherEffect DEF Step

\* What the delegate or the owner moves away, and what is left to the delegate.
LEMMA SpentFields ==
  ASSUME NEW a \in Accounts, account[a] \in AccountType, NEW k, NEW n \in Amounts
  PROVE  /\ Spent(a, k, n).amount = account[a].amount - n
         /\ account[a].delegate = k =>
              Spent(a, k, n).delegated_amount = account[a].delegated_amount - n
         /\ account[a].delegate # k =>
              Spent(a, k, n).delegated_amount = account[a].delegated_amount
         /\ Spent(a, k, n).delegate \in {account[a].delegate, None}
  BY Zenon DEF Spent, SpendAllowance, AccountType

\* Tokens leave an account only with the consent the program asks for: of the
\* owner, of a delegate that pays with its allowance, or of the close authority
\* of a native account.
THEOREM LossAlwaysAuthorized == Spec => LossIsAuthorized
<1> DEFINE Authorized(a, signed) ==
      \/ account'[a].amount >= account[a].amount
      \/ ValidateOwner(account[a].owner, signed)
      \/ /\ account[a].delegate # None
         /\ ValidateOwner(account[a].delegate, signed)
         /\ account[a].delegated_amount - account'[a].delegated_amount
              = account[a].amount - account'[a].amount
      \/ /\ account[a].is_native /\ account'[a] = NoAccount
         /\ ValidateOwner(CloseAuthority(a), signed)
      \/ account[a].owner = SystemKey
<1>1. ASSUME TypeOK, AccountInv, NEW a \in Accounts, NEW signed \in SUBSET Keys,
             Step(signed)
      PROVE  Authorized(a, signed)
  <2>1. /\ account[a] \in AccountType /\ account[a].amount \in Nat
        /\ AccountOK(account[a], lamports[a]) /\ account'[a] \in AccountType
        /\ account'[a].amount \in Nat
    BY <1>1, AccountInvIsLocal, StepType DEF TypeOK, AccountType, Amounts
  <2>2. StepEffect(a, signed)
    BY Zenon, <1>1, EveryEffect
  <2>3. CASE account'[a].amount >= account[a].amount
    BY Zenon, <2>3
  <2>4. CASE account[a].state = "Uninitialized"
    BY <2>1, <2>4 DEF AccountOK
  <2>5. ASSUME NEW n \in Amounts,
               account'[a] = [account[a] EXCEPT !.amount = n],
               n >= account[a].amount \/ account[a].owner = SystemKey
        PROVE  Authorized(a, signed)
    BY Zenon, <2>1, <2>5 DEF AccountType
  <2>6. ASSUME NEW k \in Addresses, NEW n \in Amounts,
               MayMove(a, k, n, signed), account'[a] = Spent(a, k, n)
        PROVE  Authorized(a, signed)
    <3>1. CASE k = account[a].delegate
      <4>1. account'[a].amount = account[a].amount - n
            /\ account'[a].delegated_amount = account[a].delegated_amount - n
        BY <2>1, <2>6, <3>1, SpentFields
      <4>2. account[a].amount \in Int /\ account[a].delegated_amount \in Int
            /\ n \in Int
        BY <2>1 DEF AccountType, Amounts
      <4>3. account[a].delegated_amount - account'[a].delegated_amount
              = account[a].amount - account'[a].amount
        BY <4>1, <4>2
      <4> QED
        BY Zenon, <2>6, <3>1, <4>3 DEF MayMove
    <3>2. CASE k # account[a].delegate
      BY Zenon, <2>6, <3>2 DEF MayMove
    <3> QED
      BY Zenon, <3>1, <3>2
  <2>7. CASE account'[a].amount = account[a].amount
    BY <2>1, <2>7
  <2>8. ASSUME account'[a] = NoAccount,
               account[a].is_native \/ account[a].amount = 0,
               \/ account[a].owner = SystemKey
               \/ ValidateOwner(CloseAuthority(a), signed)
        PROVE  Authorized(a, signed)
    BY <2>1, <2>8 DEF NoAccount
  <2>9. \/ account'[a] = account[a]
        \/ \E k : account'[a] = [account[a] EXCEPT !.close_authority = k]
        \/ \E t : account'[a] = [account[a] EXCEPT !.state = t]
        => account'[a].amount = account[a].amount
    BY Zenon, <2>1 DEF AccountType
  <2> HIDE DEF Authorized
  <2> QED
    BY Zenon, <2>2, <2>4, <2>5, <2>6, <2>7, <2>8, <2>9 DEF StepEffect
<1>2. TypeOK /\ AccountInv /\ [Next]_vars =>
        [\A a \in Accounts, signed \in SUBSET Keys :
           \/ account'[a].amount >= account[a].amount
           \/ ValidateOwner(account[a].owner, signed)
           \/ /\ account[a].delegate # None
              /\ ValidateOwner(account[a].delegate, signed)
              /\ account[a].delegated_amount - account'[a].delegated_amount
                   = account[a].amount - account'[a].amount
           \/ /\ account[a].is_native /\ account'[a] = NoAccount
              /\ ValidateOwner(CloseAuthority(a), signed)
           \/ account[a].owner = SystemKey
           \/ ~Step(signed)]_vars
  BY <1>1
<1> QED
  BY <1>2, TypeCorrect, AccountInvAlways, PTL DEF Spec, LossIsAuthorized

\* Nobody becomes delegate, or may spend more, without the owner's consent.
THEOREM AllowanceAlwaysGranted == Spec => AllowanceIsGranted
<1> DEFINE Granted(a, signed) ==
      \/ account'[a].delegate = None
      \/ /\ account'[a].delegate = account[a].delegate
         /\ account'[a].delegated_amount <= account[a].delegated_amount
      \/ ValidateOwner(account[a].owner, signed)
<1>1. ASSUME TypeOK, AccountInv, NEW a \in Accounts, NEW signed \in SUBSET Keys,
             Step(signed)
      PROVE  Granted(a, signed)
  <2>1. account[a] \in AccountType /\ account[a].delegated_amount \in Nat
    BY <1>1 DEF TypeOK, AccountType, Amounts
  <2>2. StepEffect(a, signed)
    BY Zenon, <1>1, EveryEffect
  <2>3. ASSUME \/ account'[a] = account[a]
               \/ \E n : account'[a] = [account[a] EXCEPT !.amount = n]
               \/ \E k : account'[a] = [account[a] EXCEPT !.close_authority = k]
               \/ \E t : account'[a] = [account[a] EXCEPT !.state = t]
        PROVE  Granted(a, signed)
    <3>1. /\ account'[a].delegate = account[a].delegate
          /\ account'[a].delegated_amount = account[a].delegated_amount
      BY Zenon, <2>1, <2>3 DEF AccountType
    <3> QED
      BY <2>1, <3>1
  <2>4. ASSUME NEW k \in Addresses, NEW n \in Amounts,
               account'[a] = Spent(a, k, n)
        PROVE  Granted(a, signed)
    <3>1. /\ account'[a].delegate \in {account[a].delegate, None}
          /\ \/ account'[a].delegated_amount = account[a].delegated_amount - n
             \/ account'[a].delegated_amount = account[a].delegated_amount
      BY <2>1, <2>4, SpentFields
    <3>2. n \in Nat
      BY DEF Amounts
    <3> QED
      BY <2>1, <3>1, <3>2
  <2>5. CASE account'[a] = NoAccount
    BY <2>5 DEF NoAccount
  <2>6. CASE account'[a].delegate = None \/ ValidateOwner(account[a].owner, signed)
    BY Zenon, <2>6
  <2> HIDE DEF Granted
  <2> QED
    BY Zenon, <2>2, <2>3, <2>4, <2>5, <2>6 DEF StepEffect
<1>2. TypeOK /\ AccountInv /\ [Next]_vars =>
        [\A a \in Accounts, signed \in SUBSET Keys :
           \/ account'[a].delegate = None
           \/ /\ account'[a].delegate = account[a].delegate
              /\ account'[a].delegated_amount <= account[a].delegated_amount
           \/ ValidateOwner(account[a].owner, signed)
           \/ ~Step(signed)]_vars
  BY <1>1
<1> QED
  BY <1>2, TypeCorrect, AccountInvAlways, PTL DEF Spec, AllowanceIsGranted

\* A frozen account changes only by being thawed, or closed when it is empty.
THEOREM FrozenStaysStill == Spec => FrozenIsStill
<1>1. ASSUME TypeOK, AccountInv, NEW a \in Accounts, NEW signed, Step(signed),
             IsFrozen(a)
      PROVE  \/ account'[a] = account[a]
             \/ account'[a] = [account[a] EXCEPT !.state = "Initialized"]
             \/ account[a].amount = 0 /\ account'[a] = NoAccount
  <2>1. StepEffect(a, signed) /\ AccountOK(account[a], lamports[a])
    BY Zenon, <1>1, EveryEffect, AccountInvIsLocal
  <2>2. account[a].state = "Frozen" /\ ~account[a].is_native
    BY Zenon, <1>1, <2>1 DEF IsFrozen, AccountOK
  <2> QED
    BY Zenon, <2>1, <2>2 DEF StepEffect
<1>2. TypeOK /\ AccountInv /\ [Next]_vars =>
        [\A a \in Accounts : IsFrozen(a) =>
           \/ account'[a] = account[a]
           \/ account'[a] = [account[a] EXCEPT !.state = "Initialized"]
           \/ account[a].amount = 0 /\ account'[a] = NoAccount]_vars
  BY <1>1 DEF Next
<1> QED
  BY <1>2, TypeCorrect, AccountInvAlways, PTL DEF Spec, FrozenIsStill

-----------------------------------------------------------------------------
(* The supply *)

\* What accounts hold are numbers, and can be added up.
LEMMA HeldType ==
  ASSUME NEW m \in Mints
  PROVE  /\ TypeOK => Terms(Held(m), Accounts)
         /\ TypeOK' => Terms(Held(m)', Accounts)
<1>1. Accounts \in SUBSET Accounts
  BY Zenon
<1>2. Finite(Accounts)
  BY Zenon, <1>1, FiniteSubset, TokenAssumption
<1> QED
  BY <1>2, TokenAssumption DEF Terms, Held, TypeOK, AccountType, Amounts

\* A step that changes the holdings of one account, in a mint whose supply
\* changes by as much, keeps the two equal.
LEMMA SupplyOfOne ==
  ASSUME TypeOK, TypeOK', SupplyIsHeld, NEW a \in Accounts,
         \A c \in Accounts : c # a => account'[c] = account[c],
         \A m \in Mints : mint'[m].supply - mint[m].supply
                            = (Held(m)')[a] - Held(m)[a]
  PROVE  SupplyIsHeld'
<1> SUFFICES ASSUME NEW m \in Mints
             PROVE  mint'[m].supply = SumFunctionOnSet(Held(m)', Accounts)
  BY Zenon DEF SupplyIsHeld
<1>1. Terms(Held(m), Accounts) /\ Terms(Held(m)', Accounts)
  BY Zenon, HeldType
<1>2. \A c \in Accounts : c # a => (Held(m)')[c] = Held(m)[c]
  BY Zenon DEF Held
<1>3. mint[m].supply \in Int /\ mint'[m].supply \in Int
  BY DEF TypeOK, MintType, Amounts
<1>4. SumFunctionOnSet(Held(m)', Accounts)
        = SumFunctionOnSet(Held(m), Accounts) - Held(m)[a] + (Held(m)')[a]
  BY <1>1, <1>2, SumChange
<1>5. mint[m].supply = SumFunctionOnSet(Held(m), Accounts)
  BY Zenon DEF SupplyIsHeld
<1>6. Held(m)[a] \in Int /\ (Held(m)')[a] \in Int
  BY Zenon, <1>1 DEF Terms
<1> QED
  BY <1>3, <1>4, <1>5, <1>6

\* A step that changes neither the supplies nor the holdings.
LEMMA SupplyOfNone ==
  ASSUME TypeOK, SupplyIsHeld,
         \A m \in Mints : mint'[m].supply = mint[m].supply,
         \A c \in Accounts, m \in Mints : (Held(m)')[c] = Held(m)[c]
  PROVE  SupplyIsHeld'
<1> SUFFICES ASSUME NEW m \in Mints
             PROVE  mint'[m].supply = SumFunctionOnSet(Held(m)', Accounts)
  BY Zenon DEF SupplyIsHeld
<1>1. SumFunctionOnSet(Held(m)', Accounts) = SumFunctionOnSet(Held(m), Accounts)
  BY Zenon, HeldType, SumSame
<1> QED
  BY Zenon, <1>1 DEF SupplyIsHeld

\* Creation: an address that is not initialized holds nothing, and an account
\* of an ordinary mint starts with nothing.
LEMMA CreateSupply ==
  ASSUME TypeOK, AccountInv, SupplyIsHeld, CreateNext
  PROVE  SupplyIsHeld'
<1>1. \A m \in Mints : mint'[m].supply = mint[m].supply
  <2>1. ASSUME NEW k \in Mints, NEW o, NEW f, InitializeMint(k, o, f)
        PROVE  \A m \in Mints : mint'[m].supply = mint[m].supply
    BY Zenon, <2>1 DEF InitializeMint, TypeOK, MintType
  <2> QED
    BY Zenon, <2>1 DEF CreateNext, InitializeAccount, InitializeMultisig
<1>2. CASE account' = account
  BY Zenon, <1>1, <1>2, SupplyOfNone DEF Held
<1>3. ASSUME NEW a \in Accounts, NEW k \in Mints \cup {NativeMint}, NEW o \in Owners,
             InitializeAccount(a, k, o)
      PROVE  \A c \in Accounts, m \in Mints : (Held(m)')[c] = Held(m)[c]
  <2>1. account[a].amount = 0
    BY Zenon, <1>3 DEF InitializeAccount, AccountInv, StatesAgree
  <2>2. account'[a].mint = k /\ (k # NativeMint => account'[a].amount = 0)
    BY Zenon, <1>3 DEF InitializeAccount, NoAccount, TypeOK
  <2>3. \A c \in Accounts : c # a => account'[c] = account[c]
    BY Zenon, <1>3 DEF InitializeAccount, TypeOK
  <2> QED
    BY Zenon, <2>1, <2>2, <2>3, TokenAssumption DEF Held
<1> QED
  BY Zenon, <1>1, <1>2, <1>3, SupplyOfNone DEF CreateNext, InitializeMint, InitializeMultisig

\* A transfer takes from one account what it gives to the other.
LEMMA TransferSupply ==
  ASSUME TypeOK, TypeOK', SupplyIsHeld, NEW a \in Accounts, NEW b \in Accounts, NEW k,
         NEW n \in Amounts, NEW signed, Transfer(a, b, k, n, signed)
  PROVE  SupplyIsHeld'
<1>1. CASE a = b
  BY Zenon, <1>1, SupplyOfNone DEF Transfer, Held
<1>2. CASE a # b
  <2> SUFFICES ASSUME NEW m \in Mints
               PROVE  mint'[m].supply = SumFunctionOnSet(Held(m)', Accounts)
    BY Zenon DEF SupplyIsHeld
  <2>1. /\ account'[a] = [SpendAllowance(account[a], k, n) EXCEPT !.amount = @ - n]
        /\ account'[b] = [account[b] EXCEPT !.amount = @ + n]
        /\ \A c \in Accounts : c # a /\ c # b => account'[c] = account[c]
        /\ account[a].mint = account[b].mint /\ mint' = mint
    BY Zenon, <1>2 DEF Transfer, MoveTokens, TypeOK
  <2>2. /\ account'[a].mint = account[a].mint
        /\ account'[a].amount = account[a].amount - n
        /\ account'[b].mint = account[b].mint
        /\ account'[b].amount = account[b].amount + n
    BY <2>1, SpendFields DEF TypeOK, AccountType, SpendAllowance
  <2>3. Terms(Held(m), Accounts) /\ Terms(Held(m)', Accounts)
    BY Zenon, HeldType
  <2>4. Held(m)[a] + Held(m)[b] = (Held(m)')[a] + (Held(m)')[b]
    BY <2>1, <2>2 DEF Held, TypeOK, AccountType, Amounts
  <2>5. \A c \in Accounts : c # a /\ c # b => (Held(m)')[c] = Held(m)[c]
    BY Zenon, <2>1 DEF Held
  <2>6. SumFunctionOnSet(Held(m)', Accounts) = SumFunctionOnSet(Held(m), Accounts)
    BY Zenon, <1>2, <2>3, <2>4, <2>5, SumMove
  <2> QED
    BY Zenon, <2>1, <2>6 DEF SupplyIsHeld
<1> QED
  BY Zenon, <1>1, <1>2

\* Minting and burning change the supply and one account by the same amount.
LEMMA MintBurnSupply ==
  ASSUME TypeOK, TypeOK', SupplyIsHeld, NEW a \in Accounts, NEW k \in Mints,
         NEW n \in Amounts, NEW signed, NEW by,
         MintTo(k, a, n, signed) \/ Burn(a, k, by, n, signed)
  PROVE  SupplyIsHeld'
<1>1. \A c \in Accounts : c # a => account'[c] = account[c]
  BY Zenon DEF MintTo, Burn, TypeOK
<1>2. account[a].mint = k /\ account'[a].mint = k
  <2>1. CASE MintTo(k, a, n, signed)
    BY <2>1 DEF MintTo, TypeOK
  <2>2. CASE Burn(a, k, by, n, signed)
    BY <2>2, SpendFields DEF Burn, TypeOK
  <2> QED
    BY Zenon, <2>1, <2>2
<1>3. /\ mint'[k].supply - mint[k].supply = account'[a].amount - account[a].amount
      /\ \A m \in Mints : m # k => mint'[m].supply = mint[m].supply
  <2>1. CASE MintTo(k, a, n, signed)
    BY <2>1 DEF MintTo, TypeOK, MintType, AccountType, Amounts
  <2>2. CASE Burn(a, k, by, n, signed)
    <3>1. account'[a].amount = account[a].amount - n
      BY <2>2, SpendFields DEF Burn, TypeOK
    <3>2. mint' = [mint EXCEPT ![k].supply = @ - n]
      BY Zenon, <2>2 DEF Burn
    <3> QED
      BY <3>1, <3>2 DEF TypeOK, MintType, AccountType, Amounts
  <2> QED
    BY Zenon, <2>1, <2>2
<1>4. \A m \in Mints : mint'[m].supply \in Int /\ mint[m].supply \in Int
  BY DEF TypeOK, MintType, Amounts
<1>5. \A m \in Mints : mint'[m].supply - mint[m].supply = (Held(m)')[a] - Held(m)[a]
  BY <1>2, <1>3, <1>4 DEF Held
<1> QED
  BY Zenon, <1>1, <1>5, SupplyOfOne

\* Authorities change who may move tokens, not who holds them.
LEMMA AuthoritySupply ==
  ASSUME TypeOK, SupplyIsHeld, NEW signed, AuthorityNext(signed)
  PROVE  SupplyIsHeld'
<1> DEFINE Same == /\ \A m \in Mints : mint'[m].supply = mint[m].supply
                   /\ \A c \in Accounts : /\ account'[c].mint = account[c].mint
                                          /\ account'[c].amount = account[c].amount
<1>1. ASSUME NEW a \in Accounts, NEW k, NEW n, Approve(a, k, n, signed) PROVE Same
  BY Zenon, <1>1 DEF Approve, TypeOK, AccountType
<1>2. ASSUME NEW a \in Accounts, Revoke(a, signed) PROVE Same
  BY Zenon, <1>2 DEF Revoke, TypeOK, AccountType
<1>3. ASSUME NEW a \in Accounts, NEW k, SetAccountOwner(a, k, signed) PROVE Same
  BY Zenon, <1>3 DEF SetAccountOwner, TypeOK, AccountType
<1>4. ASSUME NEW a \in Accounts, NEW k, SetCloseAuthority(a, k, signed) PROVE Same
  BY Zenon, <1>4 DEF SetCloseAuthority, TypeOK, AccountType
<1>5. ASSUME NEW a \in Accounts, NEW f, ToggleFreeze(a, f, signed) PROVE Same
  BY Zenon, <1>5 DEF ToggleFreeze, TypeOK, AccountType
<1>6. ASSUME NEW m \in Mints, NEW k, SetMintAuthority(m, k, signed) PROVE Same
  BY Zenon, <1>6 DEF SetMintAuthority, TypeOK, MintType
<1>7. ASSUME NEW m \in Mints, NEW k, SetFreezeAuthority(m, k, signed) PROVE Same
  BY Zenon, <1>7 DEF SetFreezeAuthority, TypeOK, MintType
<1> HIDE DEF Same
<1>8. Same
  BY Zenon, <1>1, <1>2, <1>3, <1>4, <1>5, <1>6, <1>7 DEF AuthorityNext
<1> QED
  BY Zenon, <1>8, SupplyOfNone DEF Held, Same

\* An account is closed when it holds nothing but lamports, and only lamports
\* are synchronized.
LEMMA LamportSupply ==
  ASSUME TypeOK, AccountInv, SupplyIsHeld, NEW signed, LamportNext(signed)
  PROVE  SupplyIsHeld'
<1>1. mint' = mint
  BY Zenon DEF LamportNext, CloseAccount, SyncNative, SystemTransfer
<1>2. ASSUME NEW a \in Accounts, IsInitialized(a), account[a].is_native \/ account[a].amount = 0,
             account' = [account EXCEPT ![a] = NoAccount]
      PROVE  \A c \in Accounts, m \in Mints : (Held(m)')[c] = Held(m)[c]
  <2>1. account[a].mint = NativeMint \/ account[a].amount = 0
    BY Zenon, <1>2 DEF AccountInv, NativeMatchesMint
  <2>2. account'[a].amount = 0 /\ \A c \in Accounts : c # a => account'[c] = account[c]
    BY Zenon, <1>2 DEF NoAccount, TypeOK
  <2> QED
    BY Zenon, <2>1, <2>2, TokenAssumption DEF Held
<1>3. ASSUME NEW a \in Accounts, SyncNative(a)
      PROVE  \A c \in Accounts, m \in Mints : (Held(m)')[c] = Held(m)[c]
  <2>1. account[a].mint = NativeMint
    BY Zenon, <1>3 DEF SyncNative, AccountInv, NativeMatchesMint
  <2>2. account'[a].mint = NativeMint /\ \A c \in Accounts : c # a => account'[c] = account[c]
    BY Zenon, <1>3, <2>1 DEF SyncNative, TypeOK, AccountType
  <2> QED
    BY Zenon, <2>1, <2>2, TokenAssumption DEF Held
<1>4. ASSUME NEW a \in Accounts, NEW n \in Amounts, SystemTransfer(a, n)
      PROVE  \A c \in Accounts, m \in Mints : (Held(m)')[c] = Held(m)[c]
  BY Zenon, <1>4 DEF SystemTransfer, Held
<1> QED
  BY Zenon, <1>1, <1>2, <1>3, <1>4, SupplyOfNone DEF LamportNext, CloseAccount

\* At all times, and for any number of mints and accounts, the supply of a mint
\* is what its accounts hold.
THEOREM SupplyAlwaysHeld == Spec => []SupplyIsHeld
<1>1. Init => SupplyIsHeld
  <2> SUFFICES ASSUME Init, NEW m \in Mints
               PROVE  mint[m].supply = SumFunctionOnSet(Held(m), Accounts)
    BY Zenon DEF SupplyIsHeld
  <2>1. mint[m].supply = 0 /\ \A a \in Accounts : Held(m)[a] = 0
    BY Zenon DEF Init, NoMint, NoAccount, Held
  <2> QED
    BY Zenon, <2>1, InitType, HeldType, SumSign
<1>2. TypeOK /\ TypeOK' /\ AccountInv /\ SupplyIsHeld /\ [Next]_vars => SupplyIsHeld'
  <2> SUFFICES ASSUME TypeOK, TypeOK', AccountInv, SupplyIsHeld, [Next]_vars
               PROVE  SupplyIsHeld'
    BY Zenon
  <2>1. CASE UNCHANGED vars
    BY Zenon, <2>1, SupplyOfNone DEF vars, Held
  <2>2. ASSUME NEW signed, MoveNext(signed) PROVE SupplyIsHeld'
    <3>1. ASSUME NEW a \in Accounts, NEW n \in Amounts, NEW b \in Accounts, NEW k,
                 Transfer(a, b, k, n, signed)
          PROVE  SupplyIsHeld'
      BY Zenon, <3>1, TransferSupply
    <3>2. ASSUME NEW a \in Accounts, NEW n \in Amounts, NEW m \in Mints, NEW k,
                 MintTo(m, a, n, signed) \/ Burn(a, m, k, n, signed)
          PROVE  SupplyIsHeld'
      BY Zenon, <3>2, MintBurnSupply
    <3> QED
      BY Zenon, <2>2, <3>1, <3>2 DEF MoveNext
  <2> QED
    BY <2>1, <2>2, CreateSupply, AuthoritySupply, LamportSupply DEF Next, Step
<1> QED
  BY <1>1, <1>2, TypeCorrect, AccountInvAlways, PTL DEF Spec
=============================================================================
