------------------------- MODULE Token2022Interface -------------------------
(***************************************************************************)
(* The instructions of token-2022: how token/program-2022/src/             *)
(* instruction.rs builds and packs them, and how it and processor.rs       *)
(* unpack them, dispatch them and take their accounts, with the extensions *)
(* for default account states, required memos and interest.  n signers of  *)
(* a multisig, 0 when the owner signs itself; k types of extensions.       *)
(***************************************************************************)
EXTENDS Wire

-----------------------------------------------------------------------------
(* Builders *)

Owner(name, n) == <<Meta(name, n = 0, FALSE)>> \o Times(n, RS("signer"))

initialize_mint == <<W("mint"), R("rent")>>
initialize_mint2 == <<W("mint")>>
initialize_account == <<W("account"), R("mint"), R("owner"), R("rent")>>
initialize_account2 == <<W("account"), R("mint"), R("rent")>>
initialize_account3 == <<W("account"), R("mint")>>
initialize_multisig(n) == <<W("multisig"), R("rent")>> \o Times(n, R("signer"))
initialize_multisig2(n) == <<W("multisig")>> \o Times(n, R("signer"))
transfer(n) == <<W("source"), W("destination")>> \o Owner("authority", n)
approve(n) == <<W("source"), R("delegate")>> \o Owner("owner", n)
revoke(n) == <<W("source")>> \o Owner("owner", n)
set_authority(n) == <<W("account")>> \o Owner("authority", n)
mint_to(n) == <<W("mint"), W("destination")>> \o Owner("owner", n)
burn(n) == <<W("source"), W("mint")>> \o Owner("authority", n)
close_account(n) == <<W("source"), W("destination")>> \o Owner("authority", n)
freeze_account(n) == <<W("source"), R("mint")>> \o Owner("authority", n)
thaw_account(n) == <<W("source"), R("mint")>> \o Owner("authority", n)
transfer_checked(n) ==
    <<W("source"), R("mint"), W("destination")>> \o Owner("authority", n)
approve_checked(n) ==
    <<W("source"), R("mint"), R("delegate")>> \o Owner("owner", n)
mint_to_checked(n) == <<W("mint"), W("destination")>> \o Owner("owner", n)
burn_checked(n) == <<W("source"), W("mint")>> \o Owner("authority", n)
sync_native == <<W("account")>>
get_account_data_size == <<R("mint")>>
initialize_mint_close_authority == <<W("mint")>>
initialize_immutable_owner == <<W("account")>>
amount_to_ui_amount == <<R("mint")>>
ui_amount_to_amount == <<R("mint")>>
reallocate(n) == <<W("account"), WS("payer"), R("system")>> \o Owner("owner", n)
create_native_mint == <<WS("payer"), W("native_mint"), R("system")>>
initialize_non_transferable_mint == <<W("mint")>>

Builders(n) ==
    [InitializeMint |-> initialize_mint, InitializeMint2 |-> initialize_mint2,
     InitializeAccount |-> initialize_account, InitializeAccount2 |-> initialize_account2,
     InitializeAccount3 |-> initialize_account3,
     InitializeMultisig |-> initialize_multisig(n),
     InitializeMultisig2 |-> initialize_multisig2(n),
     Transfer |-> transfer(n), Approve |-> approve(n), Revoke |-> revoke(n),
     SetAuthority |-> set_authority(n), MintTo |-> mint_to(n), Burn |-> burn(n),
     CloseAccount |-> close_account(n), FreezeAccount |-> freeze_account(n),
     ThawAccount |-> thaw_account(n), TransferChecked |-> transfer_checked(n),
     ApproveChecked |-> approve_checked(n), MintToChecked |-> mint_to_checked(n),
     BurnChecked |-> burn_checked(n), SyncNative |-> sync_native,
     GetAccountDataSize |-> get_account_data_size,
     InitializeMintCloseAuthority |-> initialize_mint_close_authority,
     InitializeImmutableOwner |-> initialize_immutable_owner,
     AmountToUiAmount |-> amount_to_ui_amount, UiAmountToAmount |-> ui_amount_to_amount,
     Reallocate |-> reallocate(n), CreateNativeMint |-> create_native_mint,
     InitializeNonTransferableMint |-> initialize_non_transferable_mint]

(* The extensions whose instructions have their own number after the first. *)

initialize_default_account_state == <<W("mint")>>
update_default_account_state(n) == <<W("mint")>> \o Owner("freeze_authority", n)
DefaultAccountStateBuilders(n) ==
    [Initialize |-> initialize_default_account_state,
     Update |-> update_default_account_state(n)]

enable_required_transfer_memos(n) == <<W("account")>> \o Owner("owner", n)
disable_required_transfer_memos(n) == <<W("account")>> \o Owner("owner", n)
MemoTransferBuilders(n) ==
    [Enable |-> enable_required_transfer_memos(n),
     Disable |-> disable_required_transfer_memos(n)]

initialize == <<W("mint")>>
update_rate(n) == <<W("mint")>> \o Owner("rate_authority", n)
InterestBearingMintBuilders(n) ==
    [Initialize |-> initialize, UpdateRate |-> update_rate(n)]

-----------------------------------------------------------------------------
(* Data.  some: whether an optional key is given.                          *)

pack_pubkey_option(field, some) ==
    IF some THEN Number(1) \o Key(field) ELSE Number(0)

pack(some, k) ==
    LET amount == U64("amount")
        checked == amount \o U8("decimals")
        mint == U8("decimals") \o Key("mint_authority")
                \o pack_pubkey_option("freeze_authority", some)
        types == Bytes("extension_types", 2 * k)
    IN  [InitializeMint |-> Number(0) \o mint,
         InitializeAccount |-> Number(1),
         InitializeMultisig |-> Number(2) \o U8("m"),
         Transfer |-> Number(3) \o amount,
         Approve |-> Number(4) \o amount,
         MintTo |-> Number(7) \o amount,
         Burn |-> Number(8) \o amount,
         Revoke |-> Number(5),
         SetAuthority |-> Number(6) \o U8("authority_type")
                          \o pack_pubkey_option("new_authority", some),
         CloseAccount |-> Number(9),
         FreezeAccount |-> Number(10),
         ThawAccount |-> Number(11),
         TransferChecked |-> Number(12) \o checked,
         ApproveChecked |-> Number(13) \o checked,
         MintToChecked |-> Number(14) \o checked,
         BurnChecked |-> Number(15) \o checked,
         InitializeAccount2 |-> Number(16) \o Key("owner"),
         SyncNative |-> Number(17),
         InitializeAccount3 |-> Number(18) \o Key("owner"),
         InitializeMultisig2 |-> Number(19) \o U8("m"),
         InitializeMint2 |-> Number(20) \o mint,
         GetAccountDataSize |-> Number(21) \o types,
         InitializeImmutableOwner |-> Number(22),
         AmountToUiAmount |-> Number(23) \o amount,
         UiAmountToAmount |-> Number(24) \o Bytes("ui_amount", 3),
         InitializeMintCloseAuthority |->
            Number(25) \o pack_pubkey_option("close_authority", some),
         TransferFeeExtension |-> Number(26),
         ConfidentialTransferExtension |-> Number(27),
         DefaultAccountStateExtension |-> Number(28),
         Reallocate |-> Number(29) \o types,
         MemoTransferExtension |-> Number(30),
         CreateNativeMint |-> Number(31),
         InitializeNonTransferableMint |-> Number(32),
         InterestBearingMintExtension |-> Number(33)]

unpack_pubkey(field) == Take(field, 32)
unpack_pubkey_option(field) == TakeOption(field, 32)
unpack_u64(field) == Take(field, 8)
unpack_amount_decimals == <<unpack_u64("amount"), Take("decimals", 1)>>

\* The instruction with first byte k, and what is read of the others, is at k + 1.
unpack ==
    LET amount == <<Take("amount", 8)>>
        mint == <<Take("decimals", 1), unpack_pubkey("mint_authority"),
                  unpack_pubkey_option("freeze_authority")>>
    IN  <<Entry("InitializeMint", mint), Entry("InitializeAccount", <<>>),
          Entry("InitializeMultisig", <<Take("m", 1)>>),
          Entry("Transfer", amount), Entry("Approve", amount), Entry("Revoke", <<>>),
          Entry("SetAuthority", <<Take("authority_type", 1),
                                  unpack_pubkey_option("new_authority")>>),
          Entry("MintTo", amount), Entry("Burn", amount), Entry("CloseAccount", <<>>),
          Entry("FreezeAccount", <<>>), Entry("ThawAccount", <<>>),
          Entry("TransferChecked", unpack_amount_decimals),
          Entry("ApproveChecked", unpack_amount_decimals),
          Entry("MintToChecked", unpack_amount_decimals),
          Entry("BurnChecked", unpack_amount_decimals),
          Entry("InitializeAccount2", <<unpack_pubkey("owner")>>),
          Entry("SyncNative", <<>>),
          Entry("InitializeAccount3", <<unpack_pubkey("owner")>>),
          Entry("InitializeMultisig2", <<Take("m", 1)>>), Entry("InitializeMint2", mint),
          Entry("GetAccountDataSize", <<TakeRest("extension_types")>>),
          Entry("InitializeImmutableOwner", <<>>),
          Entry("AmountToUiAmount", <<unpack_u64("amount")>>),
          Entry("UiAmountToAmount", <<TakeRest("ui_amount")>>),
          Entry("InitializeMintCloseAuthority", <<unpack_pubkey_option("close_authority")>>),
          Extension("transfer_fee"), Extension("confidential_transfer"),
          Extension("default_account_state"),
          Entry("Reallocate", <<TakeRest("extension_types")>>),
          Extension("memo_transfer"), Entry("CreateNativeMint", <<>>),
          Entry("InitializeNonTransferableMint", <<>>), Extension("interest_bearing_mint")>>

default_account_state_encode ==
    [Initialize |-> Number(0) \o U8("state"), Update |-> Number(1) \o U8("state")]
default_account_state_decode ==
    <<Exactly("Initialize", <<Take("state", 1)>>), Exactly("Update", <<Take("state", 1)>>)>>

memo_transfer_encode == [Enable |-> Number(0), Disable |-> Number(1)]
memo_transfer_decode == <<Entry("Enable", <<>>), Entry("Disable", <<>>)>>

interest_bearing_mint_encode ==
    [Initialize |-> Number(0) \o Key("rate_authority") \o Bytes("rate", 2),
     UpdateRate |-> Number(1) \o Bytes("rate", 2)]
interest_bearing_mint_decode ==
    <<Exactly("Initialize", <<Take("rate_authority", 32), Take("rate", 2)>>),
      Exactly("UpdateRate", <<Take("rate", 2)>>)>>

-----------------------------------------------------------------------------
(* Handlers: the accounts they take, in their order.                       *)

validate_owner(name, n) == <<Meta(name, n = 0, FALSE)>> \o Times(n, RS("signer"))

process_initialize_mint(rent) == <<W("mint")>> \o If(rent, <<R("rent")>>)
process_initialize_account(owner, rent) ==
    <<W("account"), R("mint")>> \o If(owner, <<R("owner")>>) \o If(rent, <<R("rent")>>)
process_initialize_multisig(rent, n) ==
    <<W("multisig")>> \o If(rent, <<R("rent")>>) \o Times(n, R("signer"))
process_transfer(decimals, n) ==
    <<W("source")>> \o If(decimals, <<R("mint")>>) \o <<W("destination")>>
        \o validate_owner("authority", n)
process_approve(decimals, n) ==
    <<W("source")>> \o If(decimals, <<R("mint")>>) \o <<R("delegate")>>
        \o validate_owner("owner", n)
process_revoke(n) == <<W("source")>> \o validate_owner("owner", n)
process_set_authority(n) == <<W("account")>> \o validate_owner("authority", n)
process_mint_to(n) == <<W("mint"), W("destination")>> \o validate_owner("owner", n)
process_burn(n) == <<W("source"), W("mint")>> \o validate_owner("authority", n)
process_close_account(n) ==
    <<W("source"), W("destination")>> \o validate_owner("authority", n)
process_toggle_freeze_account(n) ==
    <<W("source"), R("mint")>> \o validate_owner("authority", n)
process_sync_native == <<W("account")>>
process_get_account_data_size == <<R("mint")>>
process_initialize_mint_close_authority == <<W("mint")>>
process_initialize_immutable_owner == <<W("account")>>
process_amount_to_ui_amount == <<R("mint")>>
process_ui_amount_to_amount == <<R("mint")>>
process_initialize_non_transferable_mint == <<W("mint")>>

\* The payer funds the native mint, an address of the program.
process_create_native_mint ==
    Handler(<<R("payer"), W("native_mint"), R("system")>>,
            <<Call("system", "transfer", <<"payer", "native_mint">>, {}),
              Call("system", "allocate", <<"native_mint">>, {"native_mint"}),
              Call("system", "assign", <<"native_mint">>, {"native_mint"})>>)

\* The payer funds the space that is added.
process_reallocate(n) ==
    Handler(<<W("account"), R("payer"), R("system")>> \o validate_owner("owner", n),
            <<Call("system", "transfer", <<"payer", "account">>, {})>>)

process(n) ==
    LET takes(accounts) == Handler(accounts, <<>>)
    IN  [InitializeMint |-> takes(process_initialize_mint(TRUE)),
         InitializeMint2 |-> takes(process_initialize_mint(FALSE)),
         InitializeAccount |-> takes(process_initialize_account(TRUE, TRUE)),
         InitializeAccount2 |-> takes(process_initialize_account(FALSE, TRUE)),
         InitializeAccount3 |-> takes(process_initialize_account(FALSE, FALSE)),
         InitializeMultisig |-> takes(process_initialize_multisig(TRUE, n)),
         InitializeMultisig2 |-> takes(process_initialize_multisig(FALSE, n)),
         Transfer |-> takes(process_transfer(FALSE, n)),
         Approve |-> takes(process_approve(FALSE, n)),
         Revoke |-> takes(process_revoke(n)),
         SetAuthority |-> takes(process_set_authority(n)),
         MintTo |-> takes(process_mint_to(n)), Burn |-> takes(process_burn(n)),
         CloseAccount |-> takes(process_close_account(n)),
         FreezeAccount |-> takes(process_toggle_freeze_account(n)),
         ThawAccount |-> takes(process_toggle_freeze_account(n)),
         TransferChecked |-> takes(process_transfer(TRUE, n)),
         ApproveChecked |-> takes(process_approve(TRUE, n)),
         MintToChecked |-> takes(process_mint_to(n)),
         BurnChecked |-> takes(process_burn(n)), SyncNative |-> takes(process_sync_native),
         GetAccountDataSize |-> takes(process_get_account_data_size),
         InitializeMintCloseAuthority |-> takes(process_initialize_mint_close_authority),
         InitializeImmutableOwner |-> takes(process_initialize_immutable_owner),
         AmountToUiAmount |-> takes(process_amount_to_ui_amount),
         UiAmountToAmount |-> takes(process_ui_amount_to_amount),
         Reallocate |-> process_reallocate(n),
         CreateNativeMint |-> process_create_native_mint,
         InitializeNonTransferableMint |-> takes(process_initialize_non_transferable_mint)]

process_default_account_state(n) ==
    [Initialize |-> <<W("mint")>>,
     Update |-> <<W("mint")>> \o validate_owner("freeze_authority", n)]

process_memo_transfer(n) ==
    [Enable |-> <<W("account")>> \o validate_owner("owner", n),
     Disable |-> <<W("account")>> \o validate_owner("owner", n)]

process_interest_bearing_mint(n) ==
    [Initialize |-> <<W("mint")>>,
     UpdateRate |-> <<W("mint")>> \o validate_owner("rate_authority", n)]

\* The seeds of the native mint, which its address is declared from and the program
\* signs with.
PROGRAM_ADDRESS_SEEDS == <<"native-mint">>
Derived == [native_mint |-> PROGRAM_ADDRESS_SEEDS]
Expected == [native_mint |-> PROGRAM_ADDRESS_SEEDS]
=============================================================================
