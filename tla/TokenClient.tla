----------------------------- MODULE TokenClient ----------------------------
(***************************************************************************)
(* The client library token/client/src/token.rs: for each method, the      *)
(* instructions it asks the builders for and the keypairs it signs with,   *)
(* named by the roles the builders give them.  Every transaction is paid   *)
(* for and first signed by the payer of the client.                        *)
(***************************************************************************)
EXTENDS Wire

LOCAL C == INSTANCE ConfidentialInterface

Method(instructions, keypairs) == [instructions |-> instructions, keypairs |-> keypairs]

\* The most common form: one instruction, signed by one authority.
Signed(family, ix, authority) == Method(<<Ix(family, ix)>>, {authority})
Unsigned(family, ix) == Method(<<Ix(family, ix)>>, {})

\* Variant: the memo comes after the instructions.
memo_last(memo, instructions) ==
    instructions \o If(memo, <<Ix("memo", "memo")>>)

\* The memo that with_memo left, if any, comes first.
process_ixs(memo, instructions) ==
    If(memo, <<Ix("memo", "memo")>>) \o instructions

\* The payer and the keypairs are all the signers the instructions ask for: a
\* signature that is missing and a keypair that is not asked for are both errors.
SignaturesFit(keypairs, payer, asked) == keypairs \cup {payer} = asked \cup {payer}

-----------------------------------------------------------------------------
(* Accounts *)

\* How each extension of a new mint is initialized.
instruction(extension) ==
    CASE extension = "ConfidentialTransferMint" -> Ix("confidential_transfer", "InitializeMint")
      [] extension = "DefaultAccountState" -> Ix("default_account_state", "Initialize")
      [] extension = "MintCloseAuthority" -> Ix("token_2022", "InitializeMintCloseAuthority")
      [] extension = "TransferFeeConfig" -> Ix("transfer_fee", "InitializeTransferFeeConfig")
      [] extension = "InterestBearingConfig" -> Ix("interest_bearing_mint", "Initialize")

ExtensionInitializationParams ==
    <<"ConfidentialTransferMint", "DefaultAccountState", "MintCloseAuthority",
      "TransferFeeConfig", "InterestBearingConfig">>

create_mint(params) ==
    Method(<<IxOn("system", "create_account", <<"payer", "mint">>)>>
               \o [i \in DOMAIN params |-> instruction(params[i])]
               \o <<Ix("token_2022", "InitializeMint")>>, {"mint"})
create_native_mint == Unsigned("token_2022", "CreateNativeMint")
create_auxiliary_token_account_with_extension_space ==
    Method(<<IxOn("system", "create_account", <<"payer", "account">>),
             Ix("token_2022", "InitializeAccount")>>, {"account"})
create_auxiliary_token_account == create_auxiliary_token_account_with_extension_space

-----------------------------------------------------------------------------
(* Tokens *)

set_authority == Signed("token_2022", "SetAuthority", "authority")
mint_to == Signed("token_2022", "MintTo", "owner")
transfer_unchecked == Signed("token_2022", "Transfer", "authority")
transfer_checked == Signed("token_2022", "TransferChecked", "authority")
transfer_checked_with_fee == Signed("transfer_fee", "TransferCheckedWithFee", "authority")
burn == Signed("token_2022", "Burn", "authority")
burn_checked == Signed("token_2022", "BurnChecked", "authority")
approve == Signed("token_2022", "Approve", "owner")
approve_checked == Signed("token_2022", "ApproveChecked", "owner")
revoke == Signed("token_2022", "Revoke", "owner")
close_account == Signed("token_2022", "CloseAccount", "authority")
freeze_account == Signed("token_2022", "FreezeAccount", "authority")
thaw_account == Signed("token_2022", "ThawAccount", "authority")
sync_native == Unsigned("token_2022", "SyncNative")
set_transfer_fee == Signed("transfer_fee", "SetTransferFee", "authority")
set_default_account_state == Signed("default_account_state", "Update", "freeze_authority")
harvest_withheld_tokens_to_mint == Unsigned("transfer_fee", "HarvestWithheldTokensToMint")
withdraw_withheld_tokens_from_mint ==
    Signed("transfer_fee", "WithdrawWithheldTokensFromMint", "authority")
withdraw_withheld_tokens_from_accounts ==
    Signed("transfer_fee", "WithdrawWithheldTokensFromAccounts", "authority")
reallocate == Signed("token_2022", "Reallocate", "owner")
enable_required_transfer_memos == Signed("memo_transfer", "Enable", "owner")
disable_required_transfer_memos == Signed("memo_transfer", "Disable", "owner")
update_interest_rate == Signed("interest_bearing_mint", "UpdateRate", "rate_authority")

-----------------------------------------------------------------------------
(* Hidden balances.  Proofs are computed from the state the method reads.  *)

confidential_transfer_update_mint(some) ==
    Method(<<Ix("confidential_transfer", "UpdateMint")>>,
           {"authority"} \cup (IF some THEN {"new_authority"} ELSE {}))
confidential_transfer_configure_token_account ==
    Signed("confidential_transfer", "ConfigureAccount", "authority")
confidential_transfer_configure_token_account_and_keypairs ==
    confidential_transfer_configure_token_account
confidential_transfer_approve_account ==
    Signed("confidential_transfer", "ApproveAccount", "authority")
confidential_transfer_empty_account ==
    Method(C!empty_account("available_balance"), {"authority"})
confidential_transfer_deposit == Signed("confidential_transfer", "Deposit", "authority")
confidential_transfer_withdraw ==
    Method(C!withdraw("available_balance"), {"authority"})
confidential_transfer_transfer ==
    Method(C!transfer("available_balance"), {"authority"})
confidential_transfer_transfer_with_fee ==
    Method(C!transfer_with_fee("available_balance"), {"authority"})
confidential_transfer_apply_pending_balance ==
    Signed("confidential_transfer", "ApplyPendingBalance", "authority")
confidential_transfer_enable_balance_credits ==
    Signed("confidential_transfer", "EnableBalanceCredits", "authority")
confidential_transfer_disable_balance_credits ==
    Signed("confidential_transfer", "DisableBalanceCredits", "authority")
confidential_transfer_withdraw_withheld_tokens_from_mint ==
    Method(C!withdraw_withheld_tokens_from_mint("withheld_by_mint"), {"authority"})
confidential_transfer_withdraw_withheld_tokens_from_accounts ==
    Method(C!withdraw_withheld_tokens_from_accounts("withheld_by_mint"), {"authority"})
confidential_transfer_harvest_withheld_tokens_to_mint ==
    Unsigned("confidential_transfer", "HarvestWithheldTokensToMint")

\* The methods; some: whether an optional argument is given.
Methods(some) ==
    {create_mint(<<>>), create_native_mint, create_auxiliary_token_account, set_authority,
     mint_to, transfer_unchecked, transfer_checked, transfer_checked_with_fee, burn,
     burn_checked, approve, approve_checked, revoke, close_account, freeze_account,
     thaw_account, sync_native, set_transfer_fee, set_default_account_state,
     harvest_withheld_tokens_to_mint, withdraw_withheld_tokens_from_mint,
     withdraw_withheld_tokens_from_accounts, reallocate, enable_required_transfer_memos,
     disable_required_transfer_memos, update_interest_rate,
     confidential_transfer_update_mint(some),
     confidential_transfer_configure_token_account_and_keypairs,
     confidential_transfer_approve_account, confidential_transfer_empty_account,
     confidential_transfer_deposit, confidential_transfer_withdraw,
     confidential_transfer_transfer, confidential_transfer_transfer_with_fee,
     confidential_transfer_apply_pending_balance,
     confidential_transfer_enable_balance_credits,
     confidential_transfer_disable_balance_credits,
     confidential_transfer_withdraw_withheld_tokens_from_mint,
     confidential_transfer_withdraw_withheld_tokens_from_accounts,
     confidential_transfer_harvest_withheld_tokens_to_mint}
    \cup {create_mint(<<ExtensionInitializationParams[i]>>) :
             i \in DOMAIN ExtensionInitializationParams}
    \cup {create_mint(ExtensionInitializationParams)}
=============================================================================
