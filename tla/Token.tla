------------------------------- MODULE Token --------------------------------
(***************************************************************************)
(* The token program (token/program/src/processor.rs): mints, the accounts *)
(* that hold their tokens, the authorities over both, and native accounts, *)
(* whose tokens are the lamports the account itself holds.                 *)
(*                                                                         *)
(* An action is an instruction that succeeds; one that fails changes       *)
(* nothing.  `signed' is the set of keys that signed the transaction.  A   *)
(* multisig is an authority that signs through its members.  The "checked" *)
(* forms of an instruction also compare the mint and its decimals, which   *)
(* the plain ones do not need: the model takes the plain ones.             *)
(***************************************************************************)
EXTENDS Integers, FiniteSets, Sequences

CONSTANTS
    Mints,          \* mint addresses, NativeMint aside
    Accounts,       \* addresses of the size of an Account
    Keys,           \* addresses that sign for themselves
    Multisigs,      \* addresses of the size of a Multisig
    SystemKey,      \* the system program or the incinerator: nobody signs
    NativeMint,     \* the mint of wrapped lamports, initialized at genesis
    None,           \* COption::None
    MaxU64,         \* u64::MAX
    Reserve,        \* Rent::minimum_balance of an Account
    MaxSigners,     \* MAX_SIGNERS
    Lamports,       \* all the lamports there are
    \* The arguments an instance lets the instructions have.
    Owners, Delegates, CloseAuthorities, MintAuthorities, FreezeAuthorities,
    Allowances, MultisigArgs    \* MultisigArgs: [m, signers]

\* The addresses an authority may be.
Addresses == Keys \cup Multisigs \cup {SystemKey}

ASSUME TokenAssumption ==
    /\ IsFiniteSet(Accounts) /\ IsFiniteSet(Keys)
    /\ NativeMint \notin Mints
    /\ Keys \cap Multisigs = {} /\ SystemKey \notin Keys \cup Multisigs
    /\ None \notin Accounts \cup Addresses
    /\ Owners \subseteq Addresses /\ Delegates \subseteq Addresses
    /\ CloseAuthorities \subseteq Addresses
    /\ MintAuthorities \subseteq Addresses
    /\ FreezeAuthorities \subseteq Addresses
    /\ Allowances \subseteq 0 .. MaxU64
    /\ \A x \in MultisigArgs : x.m \in Nat /\ x.signers \in Seq(Keys)
    /\ MaxU64 \in Nat /\ Reserve \in Nat /\ MaxSigners \in Nat
    /\ Lamports \in 0 .. MaxU64

VARIABLES
    mint,       \* [Mints -> Mint]
    account,    \* [Accounts -> Account]
    multisig,   \* [Multisigs -> Multisig]
    lamports,   \* the lamports of every account address
    wallet      \* the lamports held anywhere else

vars == <<mint, account, multisig, lamports, wallet>>

Amounts == 0 .. MaxU64

\* Definitions marked "Variant" are faulty versions of the definition that
\* follows; they serve to show that the properties notice the fault.

\* A zeroed buffer read as a Mint, an Account, a Multisig.
NoMint == [is_initialized |-> FALSE, mint_authority |-> None,
           freeze_authority |-> None, supply |-> 0]
NoAccount == [state |-> "Uninitialized", mint |-> None, owner |-> None,
              amount |-> 0, delegate |-> None, delegated_amount |-> 0,
              is_native |-> FALSE, close_authority |-> None]
NoMultisig == [is_initialized |-> FALSE, m |-> 0, signers |-> <<>>]

Init ==
    /\ mint = [m \in Mints |-> NoMint]
    /\ account = [a \in Accounts |-> NoAccount]
    /\ multisig = [g \in Multisigs |-> NoMultisig]
    /\ lamports = [a \in Accounts |-> 0]
    /\ wallet = Lamports

IsInitialized(a) == account[a].state # "Uninitialized"
IsFrozen(a) == account[a].state = "Frozen"
IsOwnedBySystemProgramOrIncinerator(a) == account[a].owner = SystemKey
CloseAuthority(a) ==
    IF account[a].close_authority = None
    THEN account[a].owner ELSE account[a].close_authority

\* A multisig counts the positions of its list that signed, so a key listed
\* twice counts twice.  One that is not initialized cannot be unpacked.
ValidateOwner(expected, signed) ==
    \/ expected \in Keys /\ expected \in signed
    \/ /\ expected \in Multisigs
       /\ multisig[expected].is_initialized
       /\ LET s == multisig[expected].signers
          IN  Cardinality({i \in DOMAIN s : s[i] \in signed})
                >= multisig[expected].m

-----------------------------------------------------------------------------
(* Creation *)

InitializeMint(m, mint_authority, freeze_authority) ==
    /\ ~mint[m].is_initialized
    /\ mint' = [mint EXCEPT ![m].is_initialized = TRUE,
                            ![m].mint_authority = mint_authority,
                            ![m].freeze_authority = freeze_authority]
    /\ UNCHANGED <<account, multisig, lamports, wallet>>

\* Variant: the rent reserve counts as tokens.
InitializeWithReserve(a, m, owner) ==
    /\ ~IsInitialized(a)
    /\ lamports[a] >= Reserve
    /\ m # NativeMint => mint[m].is_initialized
    /\ account' = [account EXCEPT ![a] =
           [NoAccount EXCEPT
               !.state = "Initialized", !.mint = m, !.owner = owner,
               !.is_native = (m = NativeMint),
               !.amount = IF m = NativeMint THEN lamports[a] ELSE 0]]
    /\ UNCHANGED <<mint, multisig, lamports, wallet>>

\* The address must already hold the rent-exempt minimum; a native account
\* starts with what it holds above it.
InitializeAccount(a, m, owner) ==
    /\ ~IsInitialized(a)
    /\ lamports[a] >= Reserve
    /\ m # NativeMint => mint[m].is_initialized
    /\ account' = [account EXCEPT ![a] =
           [NoAccount EXCEPT
               !.state = "Initialized", !.mint = m, !.owner = owner,
               !.is_native = (m = NativeMint),
               !.amount = IF m = NativeMint THEN lamports[a] - Reserve ELSE 0]]
    /\ UNCHANGED <<mint, multisig, lamports, wallet>>

\* m is not compared with the number of signers.
InitializeMultisig(g, x) ==
    /\ ~multisig[g].is_initialized
    /\ Len(x.signers) \in 1 .. MaxSigners /\ x.m \in 1 .. MaxSigners
    /\ multisig' = [multisig EXCEPT ![g] =
           [is_initialized |-> TRUE, m |-> x.m, signers |-> x.signers]]
    /\ UNCHANGED <<mint, account, lamports, wallet>>

-----------------------------------------------------------------------------
(* Moving tokens *)

\* Variant: the allowance is compared, never used up.
CompareAllowance(r, authority, amount) == r

\* What the authority of a transfer or a burn leaves of the delegation of r:
\* the delegate spends its allowance and is dropped when nothing is left, the
\* owner leaves it alone.
SpendAllowance(r, authority, amount) ==
    IF r.delegate # authority THEN r
    ELSE [r EXCEPT !.delegated_amount = @ - amount,
                   !.delegate = IF r.delegated_amount = amount THEN None ELSE @]

\* authority is the delegate, within its allowance, or else the owner.
MayMove(a, authority, amount, signed) ==
    /\ authority # None
    /\ ValidateOwner(authority, signed)
    /\ IF authority = account[a].delegate
       THEN account[a].delegated_amount >= amount
       ELSE authority = account[a].owner

\* What a transfer leaves of the accounts and their lamports.
MoveTokens(src, dst, authority, amount) ==
    /\ account[dst].amount + amount <= MaxU64
    /\ account' = [account EXCEPT
           ![src] = [SpendAllowance(account[src], authority, amount) EXCEPT
                        !.amount = @ - amount],
           ![dst].amount = @ + amount]
    /\ IF account[src].is_native
       THEN /\ lamports[src] >= amount
            /\ lamports[dst] + amount <= MaxU64
            /\ lamports' = [lamports EXCEPT ![src] = @ - amount,
                                            ![dst] = @ + amount]
       ELSE UNCHANGED lamports

\* Variant: no early return when both are the same account, whose copy as
\* destination is then written last.
TransferToItself(src, dst, authority, amount, signed) ==
    /\ account[src].state = "Initialized" /\ account[dst].state = "Initialized"
    /\ account[src].amount >= amount
    /\ account[src].mint = account[dst].mint
    /\ MayMove(src, authority, amount, signed)
    /\ IF src = dst
       THEN /\ account[dst].amount + amount <= MaxU64
            /\ account' = [account EXCEPT ![dst].amount = @ + amount]
            /\ UNCHANGED lamports
       ELSE MoveTokens(src, dst, authority, amount)
    /\ UNCHANGED <<mint, multisig, wallet>>

Transfer(src, dst, authority, amount, signed) ==
    /\ account[src].state = "Initialized" /\ account[dst].state = "Initialized"
    /\ account[src].amount >= amount
    /\ account[src].mint = account[dst].mint
    /\ MayMove(src, authority, amount, signed)
    /\ IF src = dst THEN UNCHANGED <<account, lamports>>
       ELSE MoveTokens(src, dst, authority, amount)
    /\ UNCHANGED <<mint, multisig, wallet>>

MintTo(m, a, amount, signed) ==
    /\ account[a].state = "Initialized"
    /\ ~account[a].is_native
    /\ account[a].mint = m
    /\ mint[m].is_initialized
    /\ mint[m].mint_authority # None
    /\ ValidateOwner(mint[m].mint_authority, signed)
    /\ account[a].amount + amount <= MaxU64
    /\ mint[m].supply + amount <= MaxU64
    /\ account' = [account EXCEPT ![a].amount = @ + amount]
    /\ mint' = [mint EXCEPT ![m].supply = @ + amount]
    /\ UNCHANGED <<multisig, lamports, wallet>>

\* Anyone may burn what the system program or the incinerator owns.
Burn(a, m, authority, amount, signed) ==
    /\ account[a].state = "Initialized"
    /\ mint[m].is_initialized
    /\ ~account[a].is_native
    /\ account[a].amount >= amount
    /\ account[a].mint = m
    /\ \/ IsOwnedBySystemProgramOrIncinerator(a)
       \/ MayMove(a, authority, amount, signed)
    /\ mint[m].supply >= amount
    /\ account' = [account EXCEPT ![a] =
           [(IF IsOwnedBySystemProgramOrIncinerator(a) THEN account[a]
             ELSE SpendAllowance(account[a], authority, amount)) EXCEPT
               !.amount = @ - amount]]
    /\ mint' = [mint EXCEPT ![m].supply = @ - amount]
    /\ UNCHANGED <<multisig, lamports, wallet>>

-----------------------------------------------------------------------------
(* Authorities *)

\* Variant: the close authority stands in for the owner.
ApproveByCloser(a, delegate, amount, signed) ==
    /\ account[a].state = "Initialized"
    /\ ValidateOwner(CloseAuthority(a), signed)
    /\ account' = [account EXCEPT ![a].delegate = delegate,
                                  ![a].delegated_amount = amount]
    /\ UNCHANGED <<mint, multisig, lamports, wallet>>

Approve(a, delegate, amount, signed) ==
    /\ account[a].state = "Initialized"
    /\ ValidateOwner(account[a].owner, signed)
    /\ account' = [account EXCEPT ![a].delegate = delegate,
                                  ![a].delegated_amount = amount]
    /\ UNCHANGED <<mint, multisig, lamports, wallet>>

Revoke(a, signed) ==
    /\ account[a].state = "Initialized"
    /\ ValidateOwner(account[a].owner, signed)
    /\ account' = [account EXCEPT ![a].delegate = None,
                                  ![a].delegated_amount = 0]
    /\ UNCHANGED <<mint, multisig, lamports, wallet>>

\* SetAuthority with AuthorityType::AccountOwner
SetAccountOwner(a, new_owner, signed) ==
    /\ account[a].state = "Initialized"
    /\ ValidateOwner(account[a].owner, signed)
    /\ account' = [account EXCEPT ![a] =
           [account[a] EXCEPT
               !.owner = new_owner, !.delegate = None, !.delegated_amount = 0,
               !.close_authority = IF account[a].is_native THEN None ELSE @]]
    /\ UNCHANGED <<mint, multisig, lamports, wallet>>

\* SetAuthority with AuthorityType::CloseAccount
SetCloseAuthority(a, new_authority, signed) ==
    /\ account[a].state = "Initialized"
    /\ ValidateOwner(CloseAuthority(a), signed)
    /\ account' = [account EXCEPT ![a].close_authority = new_authority]
    /\ UNCHANGED <<mint, multisig, lamports, wallet>>

\* SetAuthority with AuthorityType::MintTokens: None is for ever.
SetMintAuthority(m, new_authority, signed) ==
    /\ mint[m].is_initialized
    /\ mint[m].mint_authority # None
    /\ ValidateOwner(mint[m].mint_authority, signed)
    /\ mint' = [mint EXCEPT ![m].mint_authority = new_authority]
    /\ UNCHANGED <<account, multisig, lamports, wallet>>

\* SetAuthority with AuthorityType::FreezeAccount: None is for ever.
SetFreezeAuthority(m, new_authority, signed) ==
    /\ mint[m].is_initialized
    /\ mint[m].freeze_authority # None
    /\ ValidateOwner(mint[m].freeze_authority, signed)
    /\ mint' = [mint EXCEPT ![m].freeze_authority = new_authority]
    /\ UNCHANGED <<account, multisig, lamports, wallet>>

\* FreezeAccount and ThawAccount
ToggleFreeze(a, freeze, signed) ==
    /\ account[a].state = IF freeze THEN "Initialized" ELSE "Frozen"
    /\ ~account[a].is_native
    /\ LET authority == mint[account[a].mint].freeze_authority
       IN  authority # None /\ ValidateOwner(authority, signed)
    /\ account' = [account EXCEPT ![a].state =
           IF freeze THEN "Frozen" ELSE "Initialized"]
    /\ UNCHANGED <<mint, multisig, lamports, wallet>>

-----------------------------------------------------------------------------
(* Lamports *)

\* The lamports go to another account address, or to a wallet (dst = None).
\* A frozen account may be closed.  What the system program or the incinerator
\* owns may be closed by anyone, to the incinerator only.
CloseAccount(a, dst, signed) ==
    /\ IsInitialized(a)
    /\ dst # a
    /\ account[a].is_native \/ account[a].amount = 0
    /\ IF IsOwnedBySystemProgramOrIncinerator(a) THEN dst = None
       ELSE ValidateOwner(CloseAuthority(a), signed)
    /\ account' = [account EXCEPT ![a] = NoAccount]
    /\ IF dst = None
       THEN /\ lamports' = [lamports EXCEPT ![a] = 0]
            /\ wallet' = wallet + lamports[a]
       ELSE /\ lamports[dst] + lamports[a] <= MaxU64
            /\ lamports' = [lamports EXCEPT ![dst] = @ + lamports[a], ![a] = 0]
            /\ UNCHANGED wallet
    /\ UNCHANGED <<mint, multisig>>

SyncNative(a) ==
    /\ IsInitialized(a)
    /\ account[a].is_native
    /\ lamports[a] >= Reserve + account[a].amount
    /\ account' = [account EXCEPT ![a].amount = lamports[a] - Reserve]
    /\ UNCHANGED <<mint, multisig, lamports, wallet>>

\* The system program: anyone may send lamports to any address.
SystemTransfer(a, amount) ==
    /\ wallet >= amount
    /\ lamports[a] + amount <= MaxU64
    /\ lamports' = [lamports EXCEPT ![a] = @ + amount]
    /\ wallet' = wallet - amount
    /\ UNCHANGED <<mint, account, multisig>>

-----------------------------------------------------------------------------
(* The program *)

CreateNext ==
    \/ \E m \in Mints, k \in MintAuthorities, f \in FreezeAuthorities \cup {None} :
          InitializeMint(m, k, f)
    \/ \E a \in Accounts, m \in Mints \cup {NativeMint}, o \in Owners :
          InitializeAccount(a, m, o)
    \/ \E g \in Multisigs, x \in MultisigArgs : InitializeMultisig(g, x)

MoveNext(signed) ==
    \E a \in Accounts, n \in Amounts :
        \/ \E b \in Accounts, k \in Addresses : Transfer(a, b, k, n, signed)
        \/ \E m \in Mints : MintTo(m, a, n, signed)
        \/ \E m \in Mints, k \in Addresses : Burn(a, m, k, n, signed)

AuthorityNext(signed) ==
    \/ \E a \in Accounts :
          \/ \E k \in Delegates, n \in Allowances : Approve(a, k, n, signed)
          \/ Revoke(a, signed)
          \/ \E k \in Owners : SetAccountOwner(a, k, signed)
          \/ \E k \in CloseAuthorities \cup {None} :
                SetCloseAuthority(a, k, signed)
          \/ \E freeze \in BOOLEAN : ToggleFreeze(a, freeze, signed)
    \/ \E m \in Mints :
          \/ \E k \in MintAuthorities \cup {None} :
                SetMintAuthority(m, k, signed)
          \/ \E k \in FreezeAuthorities \cup {None} :
                SetFreezeAuthority(m, k, signed)

LamportNext(signed) ==
    \E a \in Accounts :
        \/ \E dst \in Accounts \cup {None} : CloseAccount(a, dst, signed)
        \/ SyncNative(a)
        \/ \E n \in Amounts : SystemTransfer(a, n)

\* A transaction with these signatures.
Step(signed) ==
    CreateNext \/ MoveNext(signed) \/ AuthorityNext(signed) \/ LamportNext(signed)

Next == \E signed \in SUBSET Keys : Step(signed)

Spec == Init /\ [][Next]_vars
=============================================================================
