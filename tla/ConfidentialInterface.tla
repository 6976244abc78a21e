----------------------- MODULE ConfidentialInterface ------------------------
(***************************************************************************)
(* The instructions of the confidential transfer extension of token-2022:  *)
(* how extension/confidential_transfer/instruction.rs builds them and how  *)
(* its processor.rs decodes them and takes their accounts.  n signers of a *)
(* multisig, k accounts with withheld fees.                                *)
(***************************************************************************)
EXTENDS Wire

Owner(name, n) == <<Meta(name, n = 0, FALSE)>> \o Times(n, RS("signer"))

\* The signers of these two builders are writable and not signers.
UnsignedOwner(name, n) == <<Meta(name, n = 0, FALSE)>> \o Times(n, W("signer"))

initialize_mint == <<W("mint")>>
\* some: the new authority is not the default key.
update_mint(some) == <<W("mint"), RS("authority"), Meta("new_authority", some, FALSE)>>
configure_account(n) == <<W("token_account"), R("mint")>> \o Owner("authority", n)
approve_account == <<W("account_to_approve"), R("mint"), RS("authority")>>
inner_empty_account(n) == <<W("token_account"), R("instructions")>> \o Owner("authority", n)
deposit(n) ==
    <<W("source_token_account"), W("destination_token_account"), R("mint")>>
        \o Owner("authority", n)
inner_withdraw(n) ==
    <<W("source_token_account"), W("destination_token_account"), R("mint"),
      R("instructions")>> \o Owner("authority", n)
inner_transfer(n) ==
    <<W("source_token_account"), W("destination_token_account"), R("mint"),
      R("instructions")>> \o Owner("authority", n)
inner_transfer_with_fee(n) ==
    <<W("source_token_account"), W("destination_token_account"), R("mint"),
      R("instructions")>> \o Owner("authority", n)
inner_apply_pending_balance(n) == <<W("token_account")>> \o Owner("authority", n)
enable_or_disable_balance_credits(n) == <<W("token_account")>> \o Owner("authority", n)
inner_withdraw_withheld_tokens_from_mint(n) ==
    <<W("mint"), W("destination"), R("instructions")>> \o UnsignedOwner("authority", n)
inner_withdraw_withheld_tokens_from_accounts(n, k) ==
    <<W("mint"), W("destination"), R("instructions")>> \o UnsignedOwner("authority", n)
        \o Times(k, W("source"))
harvest_withheld_tokens_to_mint(k) == <<W("mint")>> \o Times(k, W("source"))

Builders(n, k, some) ==
    [InitializeMint |-> initialize_mint, UpdateMint |-> update_mint(some),
     ConfigureAccount |-> configure_account(n), ApproveAccount |-> approve_account,
     EmptyAccount |-> inner_empty_account(n), Deposit |-> deposit(n),
     Withdraw |-> inner_withdraw(n), Transfer |-> inner_transfer(n),
     TransferWithFee |-> inner_transfer_with_fee(n),
     ApplyPendingBalance |-> inner_apply_pending_balance(n),
     EnableBalanceCredits |-> enable_or_disable_balance_credits(n),
     DisableBalanceCredits |-> enable_or_disable_balance_credits(n),
     WithdrawWithheldTokensFromMint |-> inner_withdraw_withheld_tokens_from_mint(n),
     WithdrawWithheldTokensFromAccounts |->
        inner_withdraw_withheld_tokens_from_accounts(n, k),
     HarvestWithheldTokensToMint |-> harvest_withheld_tokens_to_mint(k)]

\* The proof that empty_account, withdraw, transfer, transfer_with_fee and the
\* withdrawals of withheld tokens put before their own instruction.
WithProof(proof, ix, about) ==
    <<Proof(proof, about), Ix("confidential_transfer", ix)>>
empty_account(about) == WithProof("VerifyCloseAccount", "EmptyAccount", about)
withdraw(about) == WithProof("VerifyWithdraw", "Withdraw", about)
transfer(about) == WithProof("VerifyTransfer", "Transfer", about)
transfer_with_fee(about) == WithProof("VerifyTransferWithFee", "TransferWithFee", about)
withdraw_withheld_tokens_from_mint(about) ==
    WithProof("VerifyWithdrawWithheldTokens", "WithdrawWithheldTokensFromMint", about)
withdraw_withheld_tokens_from_accounts(about) ==
    WithProof("VerifyWithdrawWithheldTokens", "WithdrawWithheldTokensFromAccounts", about)

\* The instructions of each builder, with a proof of what it asks to be proved.
Built(ix) ==
    CASE ix = "EmptyAccount" -> empty_account("available_balance")
      [] ix = "Withdraw" -> withdraw("available_balance")
      [] ix = "Transfer" -> transfer("available_balance")
      [] ix = "TransferWithFee" -> transfer_with_fee("available_balance")
      [] ix = "WithdrawWithheldTokensFromMint" ->
            withdraw_withheld_tokens_from_mint("withheld_by_mint")
      [] ix = "WithdrawWithheldTokensFromAccounts" ->
            withdraw_withheld_tokens_from_accounts("withheld_by_accounts")
      [] OTHER -> <<Ix("confidential_transfer", ix)>>

-----------------------------------------------------------------------------
(* Data: the number of the instruction and the bytes of a plain structure. *)

\* The structures: fields and their widths.
Layout ==
    [ConfidentialTransferMint |->
        <<<<"authority", 32>>, <<"auto_approve_new_accounts", 1>>,
          <<"auditor_encryption_pubkey", 32>>,
          <<"withdraw_withheld_authority_encryption_pubkey", 32>>,
          <<"withheld_amount", 64>>>>,
     ConfigureAccountInstructionData |->
        <<<<"encryption_pubkey", 32>>, <<"decryptable_zero_balance", 36>>>>,
     EmptyAccountInstructionData |-> <<<<"proof_instruction_offset", 1>>>>,
     DepositInstructionData |-> <<<<"amount", 8>>, <<"decimals", 1>>>>,
     WithdrawInstructionData |->
        <<<<"amount", 8>>, <<"decimals", 1>>, <<"new_decryptable_available_balance", 36>>,
          <<"proof_instruction_offset", 1>>>>,
     TransferInstructionData |->
        <<<<"new_source_decryptable_available_balance", 36>>,
          <<"proof_instruction_offset", 1>>>>,
     TransferWithFeeInstructionData |->
        <<<<"new_source_decryptable_available_balance", 36>>,
          <<"proof_instruction_offset", 1>>>>,
     ApplyPendingBalanceData |->
        <<<<"expected_pending_balance_credit_counter", 8>>,
          <<"new_decryptable_available_balance", 36>>>>,
     WithdrawWithheldTokensFromMintData |-> <<<<"proof_instruction_offset", 1>>>>,
     WithdrawWithheldTokensFromAccountsData |->
        <<<<"num_token_accounts", 1>>, <<"proof_instruction_offset", 1>>>>]

bytes_of(type) ==
    LET field(b, f) == b \o Bytes(f[1], f[2]) IN FoldLeft(field, <<>>, Layout[type])

\* encode_instruction, with the structure each builder gives it.
Encoded ==
    [InitializeMint |-> Number(0) \o bytes_of("ConfidentialTransferMint"),
     UpdateMint |-> Number(1) \o bytes_of("ConfidentialTransferMint"),
     ConfigureAccount |-> Number(2) \o bytes_of("ConfigureAccountInstructionData"),
     ApproveAccount |-> Number(3),
     EmptyAccount |-> Number(4) \o bytes_of("EmptyAccountInstructionData"),
     Deposit |-> Number(5) \o bytes_of("DepositInstructionData"),
     Withdraw |-> Number(6) \o bytes_of("WithdrawInstructionData"),
     Transfer |-> Number(7) \o bytes_of("TransferInstructionData"),
     TransferWithFee |-> Number(8) \o bytes_of("TransferWithFeeInstructionData"),
     ApplyPendingBalance |-> Number(9) \o bytes_of("ApplyPendingBalanceData"),
     EnableBalanceCredits |-> Number(10),
     DisableBalanceCredits |-> Number(11),
     WithdrawWithheldTokensFromMint |->
        Number(12) \o bytes_of("WithdrawWithheldTokensFromMintData"),
     WithdrawWithheldTokensFromAccounts |->
        Number(13) \o bytes_of("WithdrawWithheldTokensFromAccountsData"),
     HarvestWithheldTokensToMint |-> Number(14)]

decode_instruction_data(ix, type) ==
    Exactly(ix, [i \in DOMAIN Layout[type] |-> Take(Layout[type][i][1], Layout[type][i][2])])

\* decode_instruction_type, and the structure each handler is given.
Decoded ==
    <<decode_instruction_data("InitializeMint", "ConfidentialTransferMint"),
      decode_instruction_data("UpdateMint", "ConfidentialTransferMint"),
      decode_instruction_data("ConfigureAccount", "ConfigureAccountInstructionData"),
      Entry("ApproveAccount", <<>>),
      decode_instruction_data("EmptyAccount", "EmptyAccountInstructionData"),
      decode_instruction_data("Deposit", "DepositInstructionData"),
      decode_instruction_data("Withdraw", "WithdrawInstructionData"),
      decode_instruction_data("Transfer", "TransferInstructionData"),
      decode_instruction_data("TransferWithFee", "TransferWithFeeInstructionData"),
      decode_instruction_data("ApplyPendingBalance", "ApplyPendingBalanceData"),
      Entry("EnableBalanceCredits", <<>>), Entry("DisableBalanceCredits", <<>>),
      decode_instruction_data("WithdrawWithheldTokensFromMint",
                              "WithdrawWithheldTokensFromMintData"),
      decode_instruction_data("WithdrawWithheldTokensFromAccounts",
                              "WithdrawWithheldTokensFromAccountsData"),
      Entry("HarvestWithheldTokensToMint", <<>>)>>

-----------------------------------------------------------------------------
(* Handlers.  owner: Processor::validate_owner.                            *)

process_initialize_mint == <<W("mint")>>
process_update_mint(some) ==
    <<W("mint"), RS("authority"), Meta("new_authority", some, FALSE)>>
process_configure_account(owner) == <<W("token_account"), R("mint")>> \o owner
process_approve_account == <<W("account_to_approve"), R("mint"), RS("authority")>>
process_empty_account(owner) == <<W("token_account"), R("instructions")>> \o owner
process_deposit(owner) ==
    <<W("source_token_account"), W("destination_token_account"), R("mint")>> \o owner
process_withdraw(owner) ==
    <<W("source_token_account"), W("destination_token_account"), R("mint"),
      R("instructions")>> \o owner
process_transfer(owner) ==
    <<W("source_token_account"), W("destination_token_account"), R("mint"),
      R("instructions")>> \o owner
process_apply_pending_balance(owner) == <<W("token_account")>> \o owner
process_allow_balance_credits(owner) == <<W("token_account")>> \o owner
process_withdraw_withheld_tokens_from_mint(owner) ==
    <<W("mint"), W("destination"), R("instructions")>> \o owner
process_withdraw_withheld_tokens_from_accounts(owner, k) ==
    <<R("mint"), W("destination"), R("instructions")>> \o owner \o Times(k, W("source"))
process_harvest_withheld_tokens_to_mint(k) == <<W("mint")>> \o Times(k, W("source"))

process_instruction(owner, k, some) ==
    [InitializeMint |-> process_initialize_mint,
     UpdateMint |-> process_update_mint(some),
     ConfigureAccount |-> process_configure_account(owner),
     ApproveAccount |-> process_approve_account,
     EmptyAccount |-> process_empty_account(owner), Deposit |-> process_deposit(owner),
     Withdraw |-> process_withdraw(owner), Transfer |-> process_transfer(owner),
     TransferWithFee |-> process_transfer(owner),
     ApplyPendingBalance |-> process_apply_pending_balance(owner),
     EnableBalanceCredits |-> process_allow_balance_credits(owner),
     DisableBalanceCredits |-> process_allow_balance_credits(owner),
     WithdrawWithheldTokensFromMint |-> process_withdraw_withheld_tokens_from_mint(owner),
     WithdrawWithheldTokensFromAccounts |->
        process_withdraw_withheld_tokens_from_accounts(owner, k),
     HarvestWithheldTokensToMint |-> process_harvest_withheld_tokens_to_mint(k)]

\* The proof that decode_proof_instruction expects in the instruction at
\* proof_instruction_offset, -1, and the ciphertext that the handler compares it
\* with, if it compares any.
decode_proof_instruction(ix) ==
    CASE ix = "EmptyAccount" -> <<"VerifyCloseAccount", "available_balance">>
      [] ix = "Withdraw" -> <<"VerifyWithdraw", "available_balance">>
      [] ix = "Transfer" -> <<"VerifyTransfer", "anything">>
      [] ix = "TransferWithFee" -> <<"VerifyTransferWithFee", "anything">>
      [] ix = "WithdrawWithheldTokensFromMint" ->
            <<"VerifyWithdrawWithheldTokens", "withheld_by_mint">>
      [] ix = "WithdrawWithheldTokensFromAccounts" ->
            <<"VerifyWithdrawWithheldTokens", "withheld_by_accounts">>
      [] OTHER -> <<>>
=============================================================================
