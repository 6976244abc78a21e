--------------------------- MODULE TokenProperties --------------------------
(* What the token program promises: properties of Token. *)
EXTENDS Token, Functions

OptionalAddresses == Addresses \cup {None}

MintType ==
    [is_initialized : BOOLEAN, mint_authority : OptionalAddresses,
     freeze_authority : OptionalAddresses, supply : Amounts]
AccountType ==
    [state : {"Uninitialized", "Initialized", "Frozen"},
     mint : Mints \cup {NativeMint, None}, owner : OptionalAddresses,
     amount : Amounts, delegate : OptionalAddresses,
     delegated_amount : Amounts, is_native : BOOLEAN,
     close_authority : OptionalAddresses]
MultisigType == [is_initialized : BOOLEAN, m : Nat, signers : Seq(Keys)]

\* Type invariant: in particular no amount leaves the range of u64, although
\* the checks of mint_to and transfer are made on one side each.
TypeOK ==
    /\ mint \in [Mints -> MintType]
    /\ account \in [Accounts -> AccountType]
    /\ multisig \in [Multisigs -> MultisigType]
    /\ lamports \in [Accounts -> Amounts]
    /\ wallet \in Nat

\* What each account holds of the tokens of m.
Held(m) ==
    [a \in Accounts |-> IF account[a].mint = m THEN account[a].amount ELSE 0]

\* The supply of a mint is what its accounts hold: mint_to and burn write both
\* sides, a transfer to the account itself moves nothing, and an account that
\* is closed and opened again brings nothing back.
SupplyIsHeld ==
    \A m \in Mints : mint[m].supply = SumFunctionOnSet(Held(m), Accounts)

\* A native account holds the rent reserve and a lamport for each of its
\* tokens, so sync_native never finds less than it recorded.
NativeIsBacked ==
    \A a \in Accounts :
        account[a].is_native => lamports[a] >= Reserve + account[a].amount

\* An allowance has somebody to spend it: transfer, burn, revoke and a change
\* of owner never leave an amount without its delegate.
AllowanceHasDelegate ==
    \A a \in Accounts :
        account[a].delegate = None => account[a].delegated_amount = 0

\* Tokens leave an account only by the will of its owner, within what the
\* owner granted to a delegate, which is then used up by as much, by closing a
\* native account with its close authority's consent, or when nobody owns it.
LossIsAuthorized ==
    [][\A a \in Accounts, signed \in SUBSET Keys :
          \/ account'[a].amount >= account[a].amount
          \/ ValidateOwner(account[a].owner, signed)
          \/ /\ account[a].delegate # None
             /\ ValidateOwner(account[a].delegate, signed)
             /\ account[a].delegated_amount - account'[a].delegated_amount
                  = account[a].amount - account'[a].amount
          \/ /\ account[a].is_native /\ account'[a] = NoAccount
             /\ ValidateOwner(CloseAuthority(a), signed)
          \/ account[a].owner = SystemKey
          \/ ~Step(signed)]_vars

\* Whoever is delegate, or may spend more than before, is so by the consent of
\* the owner.
AllowanceIsGranted ==
    [][\A a \in Accounts, signed \in SUBSET Keys :
          \/ account'[a].delegate = None
          \/ /\ account'[a].delegate = account[a].delegate
             /\ account'[a].delegated_amount <= account[a].delegated_amount
          \/ ValidateOwner(account[a].owner, signed)
          \/ ~Step(signed)]_vars

\* The holdings of a frozen account stay as they are until it is thawed by the
\* freeze authority; closing it is possible only when it is empty.
FrozenIsStill ==
    [][\A a \in Accounts : IsFrozen(a) =>
          \/ account'[a] = account[a]
          \/ account'[a] = [account[a] EXCEPT !.state = "Initialized"]
          \/ account[a].amount = 0 /\ account'[a] = NoAccount]_vars

\* A mint without a mint authority has a fixed supply for ever: nobody becomes
\* mint authority again, and the supply only shrinks.
FixedSupply ==
    [][\A m \in Mints :
          mint[m].is_initialized /\ mint[m].mint_authority = None =>
              /\ mint'[m].mint_authority = None
              /\ mint'[m].supply <= mint[m].supply]_vars
=============================================================================
