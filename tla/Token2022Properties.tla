------------------------ MODULE Token2022Properties -------------------------
(* What the extensions of token-2022 promise: properties of Token2022. *)
EXTENDS Token2022

FeeType == [epoch : Nat, basis_points : 0 .. MAX_FEE_BASIS_POINTS,
            maximum_fee : Amounts]
MintType ==
    [is_initialized : BOOLEAN, supply : Amounts,
     authorities : SUBSET MintAuthorities, extensions : SUBSET MintExtensions,
     default_state : {"Uninitialized", "Initialized", "Frozen"},
     withheld : Amounts, older : FeeType, newer : FeeType]
AccountType ==
    [state : {"Uninitialized", "Initialized", "Frozen"},
     mint : Mints \cup {None}, amount : Amounts, delegate : BOOLEAN,
     delegated_amount : Amounts, extensions : SUBSET AccountExtensions,
     withheld : Amounts, require_memo : BOOLEAN]

\* Type invariant.
TypeOK ==
    /\ mint \in [Mints -> MintType]
    /\ account \in [Accounts -> AccountType]
    /\ epoch \in Epochs

\* What each account holds or withholds of the tokens of m.
Held(m) ==
    [a \in Accounts |->
        IF account[a].mint = m THEN account[a].amount + account[a].withheld ELSE 0]

\* The supply of a mint is what its accounts hold, what they withhold and what
\* the mint collected: fees are neither lost when accounts are harvested,
\* skipped or closed, nor paid out twice, and a mint that is closed leaves
\* nothing behind that its successor at the same address would owe.
SupplyIsHeld ==
    \A m \in Mints :
        mint[m].supply = mint[m].withheld + SumFunctionOnSet(Held(m), Accounts)

\* The older fee is one that has been in effect: set_transfer_fee never makes
\* an announced fee the older one, and the newer one starts in two epochs.
FeesInOrder ==
    \A m \in Mints :
        /\ mint[m].older.epoch <= epoch
        /\ mint[m].older.epoch <= mint[m].newer.epoch
        /\ mint[m].newer.epoch <= epoch + 2

\* Nobody is surprised by a fee: while the mint exists, setting its fee changes
\* nothing in the current epoch, and in the next epoch the fee is the one that
\* was announced or the current one.
FeesAreAnnounced ==
    [][\A m \in Mints : mint[m].is_initialized /\ mint'[m].is_initialized =>
          /\ GetEpochFee(mint'[m], epoch) = GetEpochFee(mint[m], epoch)
          /\ GetEpochFee(mint'[m], epoch + 1) \in
                 {GetEpochFee(mint[m], epoch), GetEpochFee(mint[m], epoch + 1)}]_vars

\* A transfer of tokens of a mint with a fee in effect pays it: what leaves one
\* account and does not reach the other is withheld, and is at least the share
\* of the amount that the fee names, unless the maximum is reached.
TransfersPayTheFee ==
    [][\A m \in Mints, src, dst \in Accounts :
          LET sent == account[src].amount - account'[src].amount
              fee  == GetEpochFee(mint[m], epoch)
              paid == account'[dst].withheld - account[dst].withheld
          IN  /\ src # dst /\ sent > 0
              /\ account[src].mint = m /\ account[dst].mint = m
              /\ account'[src].mint = m /\ account'[dst].mint = m
              /\ AccountHas(src, "TransferFeeAmount")
              /\ mint'[m] = mint[m]
              /\ account'[dst].amount + account'[dst].withheld
                   > account[dst].amount + account[dst].withheld
              => \/ paid = fee.maximum_fee
                 \/ paid * MAX_FEE_BASIS_POINTS >= sent * fee.basis_points]_vars

\* The tokens of a frozen account, also those it may be paid as fees, stay as
\* they are; it can be closed only when it is empty.
FrozenIsStill ==
    [][\A a \in Accounts : account[a].state = "Frozen" =>
          \/ /\ account'[a].mint = account[a].mint
             /\ account'[a].amount = account[a].amount
             /\ account'[a].delegate = account[a].delegate
             /\ account'[a].delegated_amount = account[a].delegated_amount
          \/ account[a].amount = 0 /\ account'[a] = NoAccount]_vars

=============================================================================
