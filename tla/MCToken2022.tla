---------------------------- MODULE MCToken2022 -----------------------------
(* An instance of Token2022 for TLC. *)
EXTENDS Token2022Properties, TLC

AccountSymmetry == Permutations(Accounts)

Spaces == {{"TransferFeeConfig", "MintCloseAuthority"},
           {"DefaultAccountState", "NonTransferable"}}
Rooms == {{"TransferFeeAmount"}, {"ImmutableOwner", "MemoTransfer"}}
CreatedWith == {{"MintTokens"}, {"MintTokens", "FreezeAccount"}, FeeAuthorities,
                {"CloseMint"}}
Dropped == {"WithheldWithdraw"}
HalfAndCapped == {[basis_points |-> 5000, maximum_fee |-> 2],
                  [basis_points |-> 10000, maximum_fee |-> 1]}
=============================================================================
