--------------------------- MODULE TokenInterface ---------------------------
(***************************************************************************)
(* The instructions of the token program: how token/program/src/           *)
(* instruction.rs builds and packs them, and how it and processor.rs       *)
(* unpack them, dispatch them and take their accounts.  n is the number of *)
(* signers of a multisig, 0 when the owner signs itself.                   *)
(***************************************************************************)
EXTENDS Wire

-----------------------------------------------------------------------------
(* Builders *)

Owner(name, n) == <<Meta(name, n = 0, FALSE)>> \o Times(n, RS("signer"))

initialize_mint == <<W("mint"), R("rent")>>
initialize_mint2 == <<W("mint")>>
initialize_account == <<W("account"), R("mint"), R("owner"), R("rent")>>
initialize_account2 == <<W("account"), R("mint"), R("rent")>>
initialize_account3 == <<W("account"), R("mint")>>
initialize_multisig(n) == <<W("multisig"), R("rent")>> \o Times(n, R("signer"))
initialize_multisig2(n) == <<W("multisig")>> \o Times(n, R("signer"))
transfer(n) == <<W("source"), W("destination")>> \o Owner("authority", n)
approve(n) == <<W("source"), R("delegate")>> \o Owner("owner", n)
revoke(n) == <<W("source")>> \o Owner("owner", n)
set_authority(n) == <<W("account")>> \o Owner("authority", n)
mint_to(n) == <<W("mint"), W("destination")>> \o Owner("owner", n)
burn(n) == <<W("source"), W("mint")>> \o Owner("authority", n)
close_account(n) == <<W("source"), W("destination")>> \o Owner("authority", n)
freeze_account(n) == <<W("source"), R("mint")>> \o Owner("authority", n)
thaw_account(n) == <<W("source"), R("mint")>> \o Owner("authority", n)

\* Variant: the mint is put after the destination.
transfer_checked_misplaced(n) ==
    <<W("source"), W("destination"), R("mint")>> \o Owner("authority", n)

transfer_checked(n) ==
    <<W("source"), R("mint"), W("destination")>> \o Owner("authority", n)
approve_checked(n) ==
    <<W("source"), R("mint"), R("delegate")>> \o Owner("owner", n)
mint_to_checked(n) == <<W("mint"), W("destination")>> \o Owner("owner", n)
burn_checked(n) == <<W("source"), W("mint")>> \o Owner("authority", n)
sync_native == <<W("account")>>
get_account_data_size == <<R("mint")>>
initialize_immutable_owner == <<W("account")>>
amount_to_ui_amount == <<R("mint")>>
ui_amount_to_amount == <<R("mint")>>

Builders(n) ==
    [InitializeMint |-> initialize_mint, InitializeMint2 |-> initialize_mint2,
     InitializeAccount |-> initialize_account, InitializeAccount2 |-> initialize_account2,
     InitializeAccount3 |-> initialize_account3,
     InitializeMultisig |-> initialize_multisig(n),
     InitializeMultisig2 |-> initialize_multisig2(n),
     Transfer |-> transfer(n), Approve |-> approve(n), Revoke |-> revoke(n),
     SetAuthority |-> set_authority(n), MintTo |-> mint_to(n), Burn |-> burn(n),
     CloseAccount |-> close_account(n), FreezeAccount |-> freeze_account(n),
     ThawAccount |-> thaw_account(n), TransferChecked |-> transfer_checked(n),
     ApproveChecked |-> approve_checked(n), MintToChecked |-> mint_to_checked(n),
     BurnChecked |-> burn_checked(n), SyncNative |-> sync_native,
     GetAccountDataSize |-> get_account_data_size,
     InitializeImmutableOwner |-> initialize_immutable_owner,
     AmountToUiAmount |-> amount_to_ui_amount, UiAmountToAmount |-> ui_amount_to_amount]

-----------------------------------------------------------------------------
(* Data.  some: whether the optional key of an instruction is given.       *)

pack_pubkey_option(field, some) ==
    IF some THEN Number(1) \o Key(field) ELSE Number(0)

pack(some) ==
    LET amount == U64("amount")
        checked == amount \o U8("decimals")
        mint == U8("decimals") \o Key("mint_authority")
                \o pack_pubkey_option("freeze_authority", some)
    IN  [InitializeMint |-> Number(0) \o mint,
         InitializeAccount |-> Number(1),
         InitializeMultisig |-> Number(2) \o U8("m"),
         Transfer |-> Number(3) \o amount,
         Approve |-> Number(4) \o amount,
         MintTo |-> Number(7) \o amount,
         Burn |-> Number(8) \o amount,
         Revoke |-> Number(5),
         SetAuthority |-> Number(6) \o U8("authority_type")
                          \o pack_pubkey_option("new_authority", some),
         CloseAccount |-> Number(9),
         FreezeAccount |-> Number(10),
         ThawAccount |-> Number(11),
         TransferChecked |-> Number(12) \o checked,
         ApproveChecked |-> Number(13) \o checked,
         MintToChecked |-> Number(14) \o checked,
         BurnChecked |-> Number(15) \o checked,
         InitializeAccount2 |-> Number(16) \o Key("owner"),
         SyncNative |-> Number(17),
         InitializeAccount3 |-> Number(18) \o Key("owner"),
         InitializeMultisig2 |-> Number(19) \o U8("m"),
         InitializeMint2 |-> Number(20) \o mint,
         GetAccountDataSize |-> Number(21),
         InitializeImmutableOwner |-> Number(22),
         AmountToUiAmount |-> Number(23) \o amount,
         UiAmountToAmount |-> Number(24) \o Bytes("ui_amount", 3)]

\* Variant: the decimals are read first.
DecimalsAndAmount == <<Take("decimals", 1), Take("amount", 8)>>

AmountAndDecimals == <<Take("amount", 8), Take("decimals", 1)>>

unpack_pubkey(field) == Take(field, 32)
unpack_pubkey_option(field) == TakeOption(field, 32)

\* The instruction with first byte k, and what is read of the others, is at k + 1.
unpack ==
    LET amount == <<Take("amount", 8)>>
        mint == <<Take("decimals", 1), unpack_pubkey("mint_authority"),
                  unpack_pubkey_option("freeze_authority")>>
    IN  <<Entry("InitializeMint", mint), Entry("InitializeAccount", <<>>),
          Entry("InitializeMultisig", <<Take("m", 1)>>),
          Entry("Transfer", amount), Entry("Approve", amount), Entry("Revoke", <<>>),
          Entry("SetAuthority", <<Take("authority_type", 1),
                               unpack_pubkey_option("new_authority")>>),
          Entry("MintTo", amount), Entry("Burn", amount), Entry("CloseAccount", <<>>),
          Entry("FreezeAccount", <<>>), Entry("ThawAccount", <<>>),
          Entry("TransferChecked", AmountAndDecimals), Entry("ApproveChecked", AmountAndDecimals),
          Entry("MintToChecked", AmountAndDecimals), Entry("BurnChecked", AmountAndDecimals),
          Entry("InitializeAccount2", <<unpack_pubkey("owner")>>), Entry("SyncNative", <<>>),
          Entry("InitializeAccount3", <<unpack_pubkey("owner")>>),
          Entry("InitializeMultisig2", <<Take("m", 1)>>), Entry("InitializeMint2", mint),
          Entry("GetAccountDataSize", <<>>), Entry("InitializeImmutableOwner", <<>>),
          Entry("AmountToUiAmount", amount), Entry("UiAmountToAmount", <<TakeRest("ui_amount")>>)>>

-----------------------------------------------------------------------------
(* Handlers: the accounts they take, in their order.                       *)

\* The owner signs, or is a multisig and n of the accounts that remain do.
validate_owner(name, n) == <<Meta(name, n = 0, FALSE)>> \o Times(n, RS("signer"))

process_initialize_mint(rent) == <<W("mint")>> \o If(rent, <<R("rent")>>)
process_initialize_account(owner, rent) ==
    <<W("account"), R("mint")>> \o If(owner, <<R("owner")>>) \o If(rent, <<R("rent")>>)
process_initialize_multisig(rent, n) ==
    <<W("multisig")>> \o If(rent, <<R("rent")>>) \o Times(n, R("signer"))
process_transfer(decimals, n) ==
    <<W("source")>> \o If(decimals, <<R("mint")>>) \o <<W("destination")>>
        \o validate_owner("authority", n)
process_approve(decimals, n) ==
    <<W("source")>> \o If(decimals, <<R("mint")>>) \o <<R("delegate")>>
        \o validate_owner("owner", n)
process_revoke(n) == <<W("source")>> \o validate_owner("owner", n)
process_set_authority(n) == <<W("account")>> \o validate_owner("authority", n)
process_mint_to(n) == <<W("mint"), W("destination")>> \o validate_owner("owner", n)
process_burn(n) == <<W("source"), W("mint")>> \o validate_owner("authority", n)
process_close_account(n) ==
    <<W("source"), W("destination")>> \o validate_owner("authority", n)
process_toggle_freeze_account(n) ==
    <<W("source"), R("mint")>> \o validate_owner("authority", n)
process_sync_native == <<W("account")>>
process_get_account_data_size == <<R("mint")>>
process_initialize_immutable_owner == <<R("account")>>
process_amount_to_ui_amount == <<R("mint")>>
process_ui_amount_to_amount == <<R("mint")>>

process(n) ==
    [InitializeMint |-> process_initialize_mint(TRUE),
     InitializeMint2 |-> process_initialize_mint(FALSE),
     InitializeAccount |-> process_initialize_account(TRUE, TRUE),
     InitializeAccount2 |-> process_initialize_account(FALSE, TRUE),
     InitializeAccount3 |-> process_initialize_account(FALSE, FALSE),
     InitializeMultisig |-> process_initialize_multisig(TRUE, n),
     InitializeMultisig2 |-> process_initialize_multisig(FALSE, n),
     Transfer |-> process_transfer(FALSE, n), Approve |-> process_approve(FALSE, n),
     Revoke |-> process_revoke(n), SetAuthority |-> process_set_authority(n),
     MintTo |-> process_mint_to(n), Burn |-> process_burn(n),
     CloseAccount |-> process_close_account(n),
     FreezeAccount |-> process_toggle_freeze_account(n),
     ThawAccount |-> process_toggle_freeze_account(n),
     TransferChecked |-> process_transfer(TRUE, n),
     ApproveChecked |-> process_approve(TRUE, n),
     MintToChecked |-> process_mint_to(n), BurnChecked |-> process_burn(n),
     SyncNative |-> process_sync_native,
     GetAccountDataSize |-> process_get_account_data_size,
     InitializeImmutableOwner |-> process_initialize_immutable_owner,
     AmountToUiAmount |-> process_amount_to_ui_amount,
     UiAmountToAmount |-> process_ui_amount_to_amount]
=============================================================================
