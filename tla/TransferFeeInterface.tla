------------------------ MODULE TransferFeeInterface ------------------------
(***************************************************************************)
(* The instructions of the transfer fee extension of token-2022: how       *)
(* extension/transfer_fee/instruction.rs builds, packs and unpacks them    *)
(* and how its processor.rs takes their accounts.  n signers of a multisig *)
(* and k accounts with withheld fees.                                      *)
(***************************************************************************)
EXTENDS Wire

Owner(name, n) == <<Meta(name, n = 0, FALSE)>> \o Times(n, RS("signer"))

initialize_transfer_fee_config == <<W("mint")>>
transfer_checked_with_fee(n) ==
    <<W("source"), R("mint"), W("destination")>> \o Owner("authority", n)
withdraw_withheld_tokens_from_mint(n) ==
    <<W("mint"), W("destination")>> \o Owner("authority", n)

withdraw_withheld_tokens_from_accounts(n, k) ==
    <<R("mint"), W("destination")>> \o Owner("authority", n) \o Times(k, W("source"))
harvest_withheld_tokens_to_mint(k) == <<W("mint")>> \o Times(k, W("source"))
set_transfer_fee(n) == <<W("mint")>> \o Owner("authority", n)

Builders(n, k) ==
    [InitializeTransferFeeConfig |-> initialize_transfer_fee_config,
     TransferCheckedWithFee |-> transfer_checked_with_fee(n),
     WithdrawWithheldTokensFromMint |-> withdraw_withheld_tokens_from_mint(n),
     WithdrawWithheldTokensFromAccounts |-> withdraw_withheld_tokens_from_accounts(n, k),
     HarvestWithheldTokensToMint |-> harvest_withheld_tokens_to_mint(k),
     SetTransferFee |-> set_transfer_fee(n)]

-----------------------------------------------------------------------------
(* Data.  authority and withdraw_authority: the two optional authorities,  *)
(* as TokenInstruction::pack_pubkey_option writes them.                    *)

pack(authority, withdraw_authority) ==
    LET fee == Bytes("transfer_fee_basis_points", 2) \o U64("maximum_fee")
    IN  [InitializeTransferFeeConfig |->
            Number(0) \o authority \o withdraw_authority \o fee,
         TransferCheckedWithFee |->
            Number(1) \o U64("amount") \o U8("decimals") \o U64("fee"),
         WithdrawWithheldTokensFromMint |-> Number(2),
         WithdrawWithheldTokensFromAccounts |-> Number(3) \o U8("num_token_accounts"),
         HarvestWithheldTokensToMint |-> Number(4),
         SetTransferFee |-> Number(5) \o fee]

unpack ==
    LET fee == <<Take("transfer_fee_basis_points", 2), Take("maximum_fee", 8)>>
    IN  <<Entry("InitializeTransferFeeConfig",
                <<TakeOption("transfer_fee_config_authority", 32),
                  TakeOption("withdraw_withheld_authority", 32)>> \o fee),
          Entry("TransferCheckedWithFee",
                <<Take("amount", 8), Take("decimals", 1), Take("fee", 8)>>),
          Entry("WithdrawWithheldTokensFromMint", <<>>),
          Entry("WithdrawWithheldTokensFromAccounts", <<Take("num_token_accounts", 1)>>),
          Entry("HarvestWithheldTokensToMint", <<>>),
          Entry("SetTransferFee", fee)>>

-----------------------------------------------------------------------------
(* Handlers.  owner and transfer: Processor::validate_owner and            *)
(* process_transfer with decimals, of processor.rs.                        *)

process_initialize_transfer_fee_config == <<W("mint")>>
process_set_transfer_fee(owner) == <<W("mint")>> \o owner
process_withdraw_withheld_tokens_from_mint(owner) ==
    <<W("mint"), W("destination")>> \o owner
harvest_from_account == W("source")
process_harvest_withheld_tokens_to_mint(k) ==
    <<W("mint")>> \o Times(k, harvest_from_account)
\* The last num_token_accounts accounts are the sources.
process_withdraw_withheld_tokens_from_accounts(owner, k) ==
    <<R("mint"), W("destination")>> \o owner \o Times(k, W("source"))

process_instruction(owner, transfer, k) ==
    [InitializeTransferFeeConfig |-> process_initialize_transfer_fee_config,
     TransferCheckedWithFee |-> transfer,
     WithdrawWithheldTokensFromMint |-> process_withdraw_withheld_tokens_from_mint(owner),
     WithdrawWithheldTokensFromAccounts |->
        process_withdraw_withheld_tokens_from_accounts(owner, k),
     HarvestWithheldTokensToMint |-> process_harvest_withheld_tokens_to_mint(k),
     SetTransferFee |-> process_set_transfer_fee(owner)]
=============================================================================
