------------------- MODULE ConfidentialTransferProperties --------------------
(* What confidential transfers promise: properties of ConfidentialTransfer. *)
EXTENDS ConfidentialTransfer

CiphertextType == [amount : Int, noise : Nat]

\* Type invariant.
CtTypeOK ==
    /\ ct_mint \in [Mints -> [is_initialized : BOOLEAN, authority : BOOLEAN,
                              auto_approve : BOOLEAN, withheld : CiphertextType]]
    /\ ct \in [Accounts ->
          [is_configured : BOOLEAN, approved : BOOLEAN, pending : CiphertextType,
           available : CiphertextType, decryptable : Int, allow_credits : BOOLEAN,
           counter : Nat, expected : Nat, actual : Nat, withheld : CiphertextType]]
    /\ read \in [Accounts -> [is_read : BOOLEAN, known : Int,
                              available : CiphertextType, pending : Int,
                              counter : Nat]]

\* The tokens of the mint, public and confidential, held and withheld.
AllTokens(m) ==
    LET mine == {a \in Accounts : account[a].mint = m}
        public(a) == account[a].amount + account[a].withheld
        secret(a) == ct[a].pending.amount + ct[a].available.amount
                       + ct[a].withheld.amount
    IN  mint[m].withheld + ct_mint[m].withheld.amount
          + SumFunctionOnSet([a \in Accounts |-> public(a) + secret(a)], mine)

\* Tokens are neither made nor lost while they are hidden: whatever is
\* deposited, applied, transferred, charged, harvested, paid out and withdrawn,
\* and whatever account is emptied and closed, changes what there is of a mint
\* only with its supply.  Two instructions that write a state of their own
\* are left aside: UpdateMint, which replaces the whole configuration, and
\* ConfigureAccount of an account that is configured already.
HiddenTokensConserved ==
    [][\A m \in Mints :
          \/ AllTokens(m)' - AllTokens(m) = mint'[m].supply - mint[m].supply
          \/ UNCHANGED <<mint, account, ct>> /\ ct_mint' # ct_mint
          \/ \E a \in Accounts :
                /\ ct[a].is_configured /\ UNCHANGED <<mint, account, ct_mint>>
                /\ ct' = [ct EXCEPT ![a] = [NoCt EXCEPT
                       !.is_configured = TRUE, !.allow_credits = TRUE,
                       !.approved = ct'[a].approved]]]_ct_vars

\* Hidden tokens become public only out of a balance that covers them, even if
\* the owner sends several instructions computed from one reading: the balance
\* Withdraw leaves is never negative.
WithdrawalsAreCovered ==
    [][\A a \in Accounts :
          /\ account' # account
          /\ ct'[a].available.amount < ct[a].available.amount
          => ct'[a].available.amount >= 0]_ct_vars

\* What ApplyPendingBalance promises to its caller: when the counter it expected
\* is the one the program found, the balance the owner computed is the one it
\* has, whatever was deposited or transferred to the account in between.
DecryptableConsistent(accounts) ==
    \A a \in accounts :
        ct[a].is_configured /\ ct[a].expected = ct[a].actual
            => ct[a].decryptable = ct[a].available.amount
=============================================================================
