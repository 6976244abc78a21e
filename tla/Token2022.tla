----------------------------- MODULE Token2022 ------------------------------
(***************************************************************************)
(* The token-2022 program (token/program-2022/src/processor.rs and its     *)
(* extension/): what the extensions of mints and accounts add to the token *)
(* program.  A transfer of a mint with TransferFeeConfig withholds a fee   *)
(* in the destination, which anybody may harvest to the mint and the       *)
(* withdraw authority pays out; the fee is scheduled by epochs.  A mint    *)
(* with MintCloseAuthority can be closed and its address used again.       *)
(*                                                                         *)
(* An action is an instruction that succeeds.  Who holds an authority is   *)
(* left out, whether anybody does is kept; so are lamports, wrapped        *)
(* lamports and multisigs, which are those of module Token, and the sizes  *)
(* of addresses, which Reallocate and the client choose to fit.            *)
(***************************************************************************)
EXTENDS Integers, FiniteSets, Functions

CONSTANTS
    Mints, Accounts,
    None,               \* no mint
    MaxU64,             \* u64::MAX
    MaxEpoch,           \* bound: the last epoch
    MintSpaces,         \* bound: the sets of extensions a mint is created with
    AccountSpaces,      \* bound: the sets of extensions an account has room for
    AuthorityChoices,   \* bound: the authorities a mint is created with
    Droppable,          \* bound: the authorities that are given up
    Fees,               \* bound: the fees that are set [basis_points, maximum_fee]
    Allowances          \* bound: the amounts that are approved

MintExtensions ==
    {"TransferFeeConfig", "MintCloseAuthority", "DefaultAccountState",
     "NonTransferable"}
AccountExtensions == {"TransferFeeAmount", "ImmutableOwner", "MemoTransfer"}

\* AuthorityType, the ones of a mint
FeeAuthorities == {"TransferFeeConfig", "WithheldWithdraw"}
MintAuthorities == {"MintTokens", "FreezeAccount", "CloseMint"} \cup FeeAuthorities

MAX_FEE_BASIS_POINTS == 10000
Amounts == 0 .. MaxU64
Epochs == 0 .. MaxEpoch

ASSUME Token2022Assumption ==
    /\ IsFiniteSet(Accounts)
    /\ None \notin Mints
    /\ MaxU64 \in Nat /\ MaxEpoch \in Nat
    /\ MintSpaces \subseteq SUBSET MintExtensions
    /\ AccountSpaces \subseteq SUBSET AccountExtensions
    /\ AuthorityChoices \subseteq SUBSET MintAuthorities
    /\ Droppable \subseteq MintAuthorities
    /\ Fees \subseteq [basis_points : Nat, maximum_fee : Amounts]
    /\ Allowances \subseteq Amounts

VARIABLES
    mint,       \* [Mints -> Mint and its extensions]
    account,    \* [Accounts -> Account and its extensions]
    epoch       \* Clock::epoch

vars == <<mint, account, epoch>>

\* Definitions marked "Variant" are faulty versions of the definition that
\* follows; they serve to show that the properties notice the fault.

\* Zeroed data read as a mint or an account: no extensions.
NoFee == [epoch |-> 0, basis_points |-> 0, maximum_fee |-> 0]
NoMint == [is_initialized |-> FALSE, supply |-> 0, authorities |-> {},
           extensions |-> {}, default_state |-> "Uninitialized",
           withheld |-> 0, older |-> NoFee, newer |-> NoFee]
NoAccount == [state |-> "Uninitialized", mint |-> None, amount |-> 0,
              delegate |-> FALSE, delegated_amount |-> 0,
              extensions |-> {}, withheld |-> 0, require_memo |-> FALSE]

Init ==
    /\ mint = [m \in Mints |-> NoMint]
    /\ account = [a \in Accounts |-> NoAccount]
    /\ epoch = 0

IsInitialized(a) == account[a].state # "Uninitialized"
MintHas(m, e) == e \in mint[m].extensions
AccountHas(a, e) == e \in account[a].extensions

HasAuthority(m, kind) == mint[m].is_initialized /\ kind \in mint[m].authorities

-----------------------------------------------------------------------------
(* Transfer fees *)

\* Variant: division rounded down.
CalculateRoundedDown(fee, amount) ==
    LET raw == (amount * fee.basis_points) \div MAX_FEE_BASIS_POINTS
    IN  IF raw < fee.maximum_fee THEN raw ELSE fee.maximum_fee

\* TransferFee::calculate: a percentage rounded up, and capped.
Calculate(fee, amount) ==
    LET numerator == amount * fee.basis_points
        raw == IF numerator % MAX_FEE_BASIS_POINTS > 0
               THEN numerator \div MAX_FEE_BASIS_POINTS + 1
               ELSE numerator \div MAX_FEE_BASIS_POINTS
    IN  IF raw < fee.maximum_fee THEN raw ELSE fee.maximum_fee

GetEpochFee(r, e) == IF e >= r.newer.epoch THEN r.newer ELSE r.older

\* The fee process_transfer charges.  Without the mint there is none: the plain
\* Transfer is refused for accounts that withhold fees.
TransferFee(src, amount, checked) ==
    IF checked /\ MintHas(account[src].mint, "TransferFeeConfig")
    THEN Calculate(GetEpochFee(mint[account[src].mint], epoch), amount)
    ELSE 0

-----------------------------------------------------------------------------
(* Creation.  Extensions are initialized before their mint or account. *)

\* There is room for these extensions in an address of some size.
Fits(extensions, spaces) == \E s \in spaces : extensions \subseteq s

InitializeTransferFeeConfig(m, fee, auths) ==
    /\ ~mint[m].is_initialized
    /\ Fits(mint[m].extensions \cup {"TransferFeeConfig"}, MintSpaces)
    /\ fee.basis_points <= MAX_FEE_BASIS_POINTS
    /\ auths \subseteq FeeAuthorities
    /\ LET now == [epoch |-> epoch, basis_points |-> fee.basis_points,
                   maximum_fee |-> fee.maximum_fee]
       IN  mint' = [mint EXCEPT ![m] = [mint[m] EXCEPT
               !.extensions = @ \cup {"TransferFeeConfig"},
               !.authorities = (@ \ FeeAuthorities) \cup auths,
               !.withheld = 0, !.older = now, !.newer = now]]
    /\ UNCHANGED <<account, epoch>>

InitializeMintCloseAuthority(m, auths) ==
    /\ ~mint[m].is_initialized
    /\ Fits(mint[m].extensions \cup {"MintCloseAuthority"}, MintSpaces)
    /\ auths \subseteq {"CloseMint"}
    /\ mint' = [mint EXCEPT ![m] = [mint[m] EXCEPT
           !.extensions = @ \cup {"MintCloseAuthority"},
           !.authorities = (@ \ {"CloseMint"}) \cup auths]]
    /\ UNCHANGED <<account, epoch>>

InitializeDefaultAccountState(m, state) ==
    /\ ~mint[m].is_initialized
    /\ Fits(mint[m].extensions \cup {"DefaultAccountState"}, MintSpaces)
    /\ mint' = [mint EXCEPT ![m] = [mint[m] EXCEPT
           !.extensions = @ \cup {"DefaultAccountState"},
           !.default_state = state]]
    /\ UNCHANGED <<account, epoch>>

InitializeNonTransferableMint(m) ==
    /\ ~mint[m].is_initialized
    /\ Fits(mint[m].extensions \cup {"NonTransferable"}, MintSpaces)
    /\ mint' = [mint EXCEPT ![m].extensions = @ \cup {"NonTransferable"}]
    /\ UNCHANGED <<account, epoch>>

\* The address must have the size of the extensions it has.
InitializeMint(m, auths) ==
    /\ ~mint[m].is_initialized
    /\ mint[m].extensions \in MintSpaces
    /\ "MintTokens" \in auths /\ auths \subseteq {"MintTokens", "FreezeAccount"}
    /\ mint[m].default_state = "Frozen" => "FreezeAccount" \in auths
    /\ mint' = [mint EXCEPT ![m].is_initialized = TRUE,
                            ![m].authorities = @ \cup auths]
    /\ UNCHANGED <<account, epoch>>

InitializeImmutableOwner(a) ==
    /\ ~IsInitialized(a)
    /\ Fits(account[a].extensions \cup {"ImmutableOwner"}, AccountSpaces)
    /\ account' = [account EXCEPT ![a].extensions = @ \cup {"ImmutableOwner"}]
    /\ UNCHANGED <<mint, epoch>>

\* get_required_init_account_extensions
RequiredExtensions(m) ==
    IF MintHas(m, "TransferFeeConfig") THEN {"TransferFeeAmount"} ELSE {}

InitializeAccount(a, m) ==
    /\ ~IsInitialized(a)
    /\ mint[m].is_initialized
    /\ Fits(account[a].extensions \cup RequiredExtensions(m), AccountSpaces)
    /\ account' = [account EXCEPT ![a] = [account[a] EXCEPT
           !.state = IF MintHas(m, "DefaultAccountState")
                     THEN mint[m].default_state ELSE "Initialized",
           !.mint = m,
           !.extensions = @ \cup RequiredExtensions(m)]]
    /\ UNCHANGED <<mint, epoch>>

-----------------------------------------------------------------------------
(* Moving tokens *)

\* What a transfer or a burn leaves of an allowance.
SpendAllowance(r, by, amount) ==
    IF by = "owner" THEN r
    ELSE [r EXCEPT !.delegated_amount = @ - amount,
                   !.delegate = r.delegated_amount # amount]

MayMove(a, by, amount) ==
    by = "delegate" => account[a].delegate /\ account[a].delegated_amount >= amount

\* The destination is credited what the fee leaves, and withholds the fee.
MoveTokens(src, dst, amount, fee, by) ==
    /\ amount >= fee
    /\ account[dst].amount + (amount - fee) <= MaxU64
    /\ fee > 0 => /\ AccountHas(dst, "TransferFeeAmount")
                  /\ account[dst].withheld + fee <= MaxU64
    /\ account' = [account EXCEPT
           ![src] = [SpendAllowance(account[src], by, amount) EXCEPT
                        !.amount = @ - amount],
           ![dst] = [account[dst] EXCEPT
                        !.amount = @ + (amount - fee), !.withheld = @ + fee]]

\* checked: the mint is passed (TransferChecked, TransferCheckedWithFee).
\* memo: the previous instruction is a memo.
Transfer(src, dst, amount, by, checked, memo) ==
    /\ account[src].state = "Initialized"
    /\ account[src].amount >= amount
    /\ IF checked
       THEN /\ mint[account[src].mint].is_initialized
            /\ ~MintHas(account[src].mint, "NonTransferable")
       ELSE ~AccountHas(src, "TransferFeeAmount")
    /\ MayMove(src, by, amount)
    /\ IF src = dst THEN UNCHANGED account
       ELSE /\ account[dst].state = "Initialized"
            /\ account[src].mint = account[dst].mint
            /\ account[dst].require_memo => memo
            /\ MoveTokens(src, dst, amount, TransferFee(src, amount, checked), by)
    /\ UNCHANGED <<mint, epoch>>

MintTo(m, a, amount) ==
    /\ account[a].state = "Initialized" /\ account[a].mint = m
    /\ MintHas(m, "NonTransferable") => AccountHas(a, "ImmutableOwner")
    /\ HasAuthority(m, "MintTokens")
    /\ account[a].amount + amount <= MaxU64
    /\ mint[m].supply + amount <= MaxU64
    /\ account' = [account EXCEPT ![a].amount = @ + amount]
    /\ mint' = [mint EXCEPT ![m].supply = @ + amount]
    /\ UNCHANGED epoch

Burn(a, m, amount, by) ==
    /\ account[a].state = "Initialized" /\ account[a].mint = m
    /\ mint[m].is_initialized
    /\ account[a].amount >= amount
    /\ MayMove(a, by, amount)
    /\ mint[m].supply >= amount
    /\ account' = [account EXCEPT ![a] =
           [SpendAllowance(account[a], by, amount) EXCEPT !.amount = @ - amount]]
    /\ mint' = [mint EXCEPT ![m].supply = @ - amount]
    /\ UNCHANGED epoch

-----------------------------------------------------------------------------
(* Withheld fees *)

\* The newer fee becomes the older one once it is in effect; one that is not
\* is overwritten.
OlderFee(r) == IF r.newer.epoch <= epoch THEN r.newer ELSE r.older

\* Variant: one epoch of notice.
NewerFeeNextEpoch(fee) ==
    [epoch |-> epoch + 1, basis_points |-> fee.basis_points,
     maximum_fee |-> fee.maximum_fee]

NewerFee(fee) ==
    [epoch |-> epoch + 2, basis_points |-> fee.basis_points,
     maximum_fee |-> fee.maximum_fee]

SetTransferFee(m, fee) ==
    /\ HasAuthority(m, "TransferFeeConfig")
    /\ MintHas(m, "TransferFeeConfig")
    /\ fee.basis_points <= MAX_FEE_BASIS_POINTS
    /\ mint' = [mint EXCEPT ![m] = [mint[m] EXCEPT
           !.older = OlderFee(mint[m]), !.newer = NewerFee(fee)]]
    /\ UNCHANGED <<account, epoch>>

\* The accounts of a list that harvest_from_account accepts; the others are
\* skipped.  An account listed twice has nothing left the second time.
Harvestable(m, list) ==
    {a \in list : /\ IsInitialized(a) /\ account[a].mint = m
                  /\ AccountHas(a, "TransferFeeAmount")}

WithheldIn(list) == SumFunctionOnSet([a \in Accounts |-> account[a].withheld], list)

HarvestWithheldTokensToMint(m, list) ==
    LET harvest == Harvestable(m, list)
    IN  /\ mint[m].is_initialized /\ MintHas(m, "TransferFeeConfig")
        /\ mint[m].withheld + WithheldIn(harvest) \in Amounts
        /\ mint' = [mint EXCEPT ![m].withheld = @ + WithheldIn(harvest)]
        /\ account' = [a \in Accounts |->
               IF a \in harvest THEN [account[a] EXCEPT !.withheld = 0]
               ELSE account[a]]
        /\ UNCHANGED epoch

\* A destination of withheld fees.
MayReceive(m, dst) ==
    account[dst].state = "Initialized" /\ account[dst].mint = m

WithdrawWithheldTokensFromMint(m, dst) ==
    /\ HasAuthority(m, "WithheldWithdraw")
    /\ MintHas(m, "TransferFeeConfig")
    /\ MayReceive(m, dst)
    /\ account[dst].amount + mint[m].withheld <= MaxU64
    /\ account' = [account EXCEPT ![dst].amount = @ + mint[m].withheld]
    /\ mint' = [mint EXCEPT ![m].withheld = 0]
    /\ UNCHANGED epoch

\* The destination may be among the accounts, and must then withhold fees.
WithdrawWithheldTokensFromAccounts(m, dst, list) ==
    LET harvest == Harvestable(m, list)
    IN  /\ HasAuthority(m, "WithheldWithdraw")
        /\ MintHas(m, "TransferFeeConfig")
        /\ MayReceive(m, dst)
        /\ dst \in list => AccountHas(dst, "TransferFeeAmount")
        /\ account[dst].amount + WithheldIn(harvest) \in Amounts
        /\ account' = [a \in Accounts |-> [account[a] EXCEPT
               !.withheld = IF a \in harvest THEN 0 ELSE @,
               !.amount = IF a = dst THEN @ + WithheldIn(harvest) ELSE @]]
        /\ UNCHANGED <<mint, epoch>>

-----------------------------------------------------------------------------
(* Authorities *)

Approve(a, amount) ==
    /\ account[a].state = "Initialized"
    /\ account' = [account EXCEPT ![a].delegate = TRUE,
                                  ![a].delegated_amount = amount]
    /\ UNCHANGED <<mint, epoch>>

\* By the owner or the delegate itself.
Revoke(a) ==
    /\ account[a].state = "Initialized"
    /\ account' = [account EXCEPT ![a].delegate = FALSE,
                                  ![a].delegated_amount = 0]
    /\ UNCHANGED <<mint, epoch>>

\* SetAuthority with AuthorityType::AccountOwner
SetAccountOwner(a) ==
    /\ account[a].state = "Initialized"
    /\ ~AccountHas(a, "ImmutableOwner")
    /\ account' = [account EXCEPT ![a].delegate = FALSE,
                                  ![a].delegated_amount = 0]
    /\ UNCHANGED <<mint, epoch>>

\* SetAuthority of a mint to None.  Another holder changes nothing here.
DropAuthority(m, kind) ==
    /\ HasAuthority(m, kind)
    /\ mint' = [mint EXCEPT ![m].authorities = @ \ {kind}]
    /\ UNCHANGED <<account, epoch>>

\* FreezeAccount and ThawAccount
ToggleFreeze(a, m, freeze) ==
    /\ account[a].state = IF freeze THEN "Initialized" ELSE "Frozen"
    /\ account[a].mint = m
    /\ HasAuthority(m, "FreezeAccount")
    /\ account' = [account EXCEPT ![a].state =
           IF freeze THEN "Frozen" ELSE "Initialized"]
    /\ UNCHANGED <<mint, epoch>>

UpdateDefaultAccountState(m, state) ==
    /\ HasAuthority(m, "FreezeAccount")
    /\ MintHas(m, "DefaultAccountState")
    /\ mint' = [mint EXCEPT ![m].default_state = state]
    /\ UNCHANGED <<account, epoch>>

\* Enable and Disable of the memo extension: also for a frozen account.
RequireMemo(a, required) ==
    /\ IsInitialized(a)
    /\ Fits(account[a].extensions \cup {"MemoTransfer"}, AccountSpaces)
    /\ account' = [account EXCEPT
           ![a].extensions = @ \cup {"MemoTransfer"},
           ![a].require_memo = required]
    /\ UNCHANGED <<mint, epoch>>

\* Variant: withheld fees do not keep an account open.
CloseWithWithheld(a) ==
    /\ IsInitialized(a)
    /\ account[a].amount = 0
    /\ account' = [account EXCEPT ![a] = NoAccount]
    /\ UNCHANGED <<mint, epoch>>

\* CloseAccount of an account: nothing may be left in it.
CloseAccount(a) ==
    /\ IsInitialized(a)
    /\ account[a].amount = 0
    /\ account[a].withheld = 0
    /\ account' = [account EXCEPT ![a] = NoAccount]
    /\ UNCHANGED <<mint, epoch>>

\* CloseAccount of a mint: its supply must be 0, its accounts remain.
CloseMint(m) ==
    /\ HasAuthority(m, "CloseMint")
    /\ MintHas(m, "MintCloseAuthority")
    /\ mint[m].supply = 0
    /\ mint' = [mint EXCEPT ![m] = NoMint]
    /\ UNCHANGED <<account, epoch>>

\* The clock of the cluster.
NextEpoch ==
    /\ epoch < MaxEpoch
    /\ epoch' = epoch + 1
    /\ UNCHANGED <<mint, account>>

-----------------------------------------------------------------------------
(* The program *)

CreateNext ==
    \/ \E m \in Mints :
          \/ \E fee \in Fees, auths \in AuthorityChoices :
                InitializeTransferFeeConfig(m, fee, auths)
          \/ \E auths \in AuthorityChoices : InitializeMintCloseAuthority(m, auths)
          \/ \E state \in {"Initialized", "Frozen"} :
                InitializeDefaultAccountState(m, state)
          \/ InitializeNonTransferableMint(m)
          \/ \E auths \in AuthorityChoices : InitializeMint(m, auths)
    \/ \E a \in Accounts :
          InitializeImmutableOwner(a) \/ \E m \in Mints : InitializeAccount(a, m)

MoveNext ==
    \E a \in Accounts, amount \in Amounts :
        \/ \E b \in Accounts, by \in {"owner", "delegate"}, checked, memo \in BOOLEAN :
              Transfer(a, b, amount, by, checked, memo)
        \/ \E m \in Mints : MintTo(m, a, amount)
        \/ \E m \in Mints, by \in {"owner", "delegate"} : Burn(a, m, amount, by)

FeeNext ==
    \E m \in Mints :
        \/ \E fee \in Fees : SetTransferFee(m, fee)
        \/ \E list \in SUBSET Accounts : HarvestWithheldTokensToMint(m, list)
        \/ \E a \in Accounts : WithdrawWithheldTokensFromMint(m, a)
        \/ \E a \in Accounts, list \in SUBSET Accounts :
              WithdrawWithheldTokensFromAccounts(m, a, list)

AuthorityNext ==
    \/ \E a \in Accounts :
          \/ \E amount \in Allowances : Approve(a, amount)
          \/ Revoke(a)
          \/ SetAccountOwner(a)
          \/ \E m \in Mints, freeze \in BOOLEAN : ToggleFreeze(a, m, freeze)
          \/ \E required \in BOOLEAN : RequireMemo(a, required)
          \/ CloseAccount(a)
    \/ \E m \in Mints :
          \/ \E kind \in Droppable : DropAuthority(m, kind)
          \/ \E state \in {"Initialized", "Frozen"} :
                UpdateDefaultAccountState(m, state)
          \/ CloseMint(m)

Next == CreateNext \/ MoveNext \/ FeeNext \/ AuthorityNext \/ NextEpoch

Spec == Init /\ [][Next]_vars
=============================================================================
